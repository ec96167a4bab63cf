------------------------------ MODULE MCUpload ------------------------------
(* sync.py processes of one user that upload the same two blocks.          *)
EXTENDS Upload

CONSTANTS h1, h2, u1, MaxVersion

MCHashes == {h1, h2}
MCOneBlockList == {<<h1, h2>>}
MCUsers == {u1}
MCVersions == 0 .. MaxVersion
MCUserOf == [c \in Clients |-> u1]
=============================================================================

---------------------------- MODULE MCSyncClient ----------------------------
(* Machines of one user and one file.  No content is the beginning of      *)
(* another one, so that a cut file is noticed.  The bounds on what is      *)
(* committed are never reached.                                            *)
EXTENDS SyncClient

CONSTANTS h1, h2

MCHashes == {h1, h2}
MCContents == {<<h2>>, <<h1, h2>>}
MCWithEmpty == {<<>>, <<h1, h2>>}
MCBlockLists == UNION {[1 .. n -> Hashes] : n \in 0 .. 2}
MCVersions == 0 .. 9
=============================================================================

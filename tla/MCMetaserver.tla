---------------------------- MODULE MCMetaserver ----------------------------
(* The metaserver on small instances: block lists up to two blocks, the    *)
(* empty list (an empty file) among them.                                  *)
EXTENDS Metaserver

CONSTANTS h1, h2, MaxVersion

MCHashes == {h1, h2}
MCSerialBlockLists == {<<>>, <<h1>>, <<h1, h2>>}
MCFewBlockLists == {<<>>, <<h1, h2>>}
MCVersions == 0 .. MaxVersion
=============================================================================

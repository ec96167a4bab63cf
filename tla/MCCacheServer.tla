--------------------------- MODULE MCCacheServer ---------------------------
(* The cache server on small instances: one or two blocks, two handler     *)
(* processes, recent_hashes answers nothing or all blocks.                 *)
EXTENDS CacheServer, TLC

CONSTANTS h1, h2

MCHashes == {h1, h2}
OneHash == {h1}
OneRecentList == {<<>>, <<h1>>}
MCRecentLists == {<<>>, <<h1, h2>>}

Symmetry == Permutations(Fetchers)
=============================================================================

---------------------------- MODULE MCUserCaches ----------------------------
(* Room for three rows: a duplicate and another cache.                     *)
EXTENDS UserCaches, TLC

MCLimits == {-1, 0, 2}
Symmetry == Permutations(Workers) \cup Permutations(Users)
              \cup Permutations(Caches) \cup Permutations(Places)
=============================================================================

--------------------------- MODULE CacheDirectory ---------------------------
(***************************************************************************)
(* What the metaserver promises about users and caches: a relation between *)
(* them, to which an association is added and from which it is removed.    *)
(* A listing shows only associated caches, and all of them unless it was   *)
(* cut at the number asked for.                                            *)
(***************************************************************************)
CONSTANTS Users, Caches,
          Readers,   \* whoever holds an answer of the metaserver
          NotRead    \* the value of answer for a reader without an answer

VARIABLES associated,  \* the pairs of a user and a cache
          answer       \* the answer each reader was given

dirVars == <<associated, answer>>

CachesOf(u) == {c \in Caches : <<u, c>> \in associated}

Init ==
    /\ associated = {}
    /\ answer = [r \in Readers |-> NotRead]

Tell(r, a) ==
    /\ answer[r] = NotRead
    /\ answer' = [answer EXCEPT ![r] = a]

Add(r, u, c) ==
    /\ associated' = associated \cup {<<u, c>>}
    /\ Tell(r, [did |-> "add", user |-> u, cache |-> c])

Remove(r, u, c) ==
    /\ associated' = associated \ {<<u, c>>}
    /\ Tell(r, [did |-> "remove", user |-> u, cache |-> c])

List(r, u) ==
    /\ \E shown \in SUBSET CachesOf(u), cut \in BOOLEAN :
          /\ ~cut => shown = CachesOf(u)
          /\ Tell(r, [shown |-> shown, cut |-> cut])
    /\ UNCHANGED associated

Forget(r) ==
    /\ answer' = [answer EXCEPT ![r] = NotRead]
    /\ UNCHANGED associated

Next ==
    \E r \in Readers :
        \/ Forget(r)
        \/ \E u \in Users :
              \/ List(r, u)
              \/ \E c \in Caches : Add(r, u, c) \/ Remove(r, u, c)

Spec == Init /\ [][Next]_dirVars
=============================================================================

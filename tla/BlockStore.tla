----------------------------- MODULE BlockStore -----------------------------
(***************************************************************************)
(* What the block server promises to the clients and the cache servers: a  *)
(* set of blocks that only grows.  A block is stored when its store is     *)
(* answered, unless the handler died; a fetch finds no block that is not   *)
(* stored when the answer is made, and misses none that is stored and      *)
(* readable.  Upload relies on the first promise, downloads and the cache  *)
(* on the second.                                                          *)
(***************************************************************************)
CONSTANTS Hashes,
          Unreadable, \* the blocks that reading may fail for
          Askers,     \* whoever holds an answer of the block server
          NoAnswer    \* the value of answer without an answer

VARIABLES blocks,     \* the blocks stored
          answer      \* the answer each asker was given

bsVars == <<blocks, answer>>

Init ==
    /\ blocks = {}
    /\ answer = [a \in Askers |-> NoAnswer]

Tell(a, op, h, s) ==
    /\ answer[a] = NoAnswer
    /\ answer' = [answer EXCEPT ![a] = [op |-> op, hash |-> h, status |-> s]]
    /\ UNCHANGED blocks

Store(h) ==
    /\ blocks' = blocks \cup {h}
    /\ UNCHANGED answer

AnswerStore(a, h) ==
    /\ h \in blocks
    /\ \E s \in {200, 400} : Tell(a, "block_store", h, s)

AnswerFetch(a, h) ==
    \/ /\ h \in blocks
       /\ Tell(a, "block_fetch", h, 200)
    \/ /\ h \in blocks => h \in Unreadable
       /\ Tell(a, "block_fetch", h, 400)

(* the handler died: the block may be stored or not                        *)
Fail(a, op, h) == Tell(a, op, h, 500)

Forget(a) ==
    /\ answer' = [answer EXCEPT ![a] = NoAnswer]
    /\ UNCHANGED blocks

Next ==
    \/ \E h \in Hashes : Store(h)
    \/ \E a \in Askers :
          \/ \E h \in Hashes :
                \/ AnswerStore(a, h) \/ AnswerFetch(a, h)
                \/ \E op \in {"block_store", "block_fetch"} : Fail(a, op, h)
          \/ Forget(a)

Spec == Init /\ [][Next]_bsVars
=============================================================================

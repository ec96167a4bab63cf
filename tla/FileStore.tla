----------------------------- MODULE FileStore -----------------------------
(***************************************************************************)
(* What the metaserver promises to a user's clients: a file is a versioned *)
(* register.  A commit replaces the file in one step and only by a newer   *)
(* version, a read returns the file as a whole, a delete removes it.  The  *)
(* one weakness this specification grants the implementation is that a     *)
(* commit interrupted by a failure before it is acknowledged may leave a   *)
(* prefix of the new block list; once settled, the file stays as it is     *)
(* until the next commit or delete.                                        *)
(***************************************************************************)
EXTENDS Naturals, Sequences

CONSTANTS Keys,     \* a user's files
          Readers,  \* whoever holds an answer to block_list
          BlockLists, Versions,
          MayTear,  \* may a failure interrupt a commit?
          NotRead   \* the value of seen for a reader without an answer

VARIABLES file,     \* the file stored under each key
          settled,  \* FALSE while a commit is not acknowledged yet
          seen      \* the file each reader was shown

fsVars == <<file, settled, seen>>

(* block_list answers version 0 and no blocks for a file that is not there *)
Absent == [version |-> 0, blocks |-> <<>>]

(* committing an empty block list leaves no row, hence no file             *)
Stored(v, b) == IF b = <<>> THEN Absent ELSE [version |-> v, blocks |-> b]

Init ==
    /\ file = [k \in Keys |-> Absent]
    /\ settled = [k \in Keys |-> TRUE]
    /\ seen = [r \in Readers |-> NotRead]

(* an absent file is created with version 0, a stored one only overwritten *)
(* by a greater version                                                    *)
Commit(k, v, b) ==
    /\ settled[k]
    /\ IF file[k] = Absent THEN v = 0 ELSE v > file[k].version
    /\ file' = [file EXCEPT ![k] = Stored(v, b)]
    /\ settled' = [settled EXCEPT ![k] = FALSE]
    /\ UNCHANGED seen

(* the commit completes, or a failure keeps only the first n blocks        *)
Settle(k, n) ==
    /\ ~settled[k]
    /\ n < Len(file[k].blocks) => MayTear
    /\ file' = [file EXCEPT ![k] =
                    Stored(file[k].version, SubSeq(file[k].blocks, 1, n))]
    /\ settled' = [settled EXCEPT ![k] = TRUE]
    /\ UNCHANGED seen

Delete(k) ==
    /\ settled[k]
    /\ file' = [file EXCEPT ![k] = Absent]
    /\ UNCHANGED <<settled, seen>>

Read(r, k) ==
    /\ settled[k]
    /\ seen[r] = NotRead
    /\ seen' = [seen EXCEPT ![r] = file[k]]
    /\ UNCHANGED <<file, settled>>

Forget(r) ==
    /\ seen' = [seen EXCEPT ![r] = NotRead]
    /\ UNCHANGED <<file, settled>>

Next ==
    \/ \E k \in Keys :
          \/ \E v \in Versions, b \in BlockLists : Commit(k, v, b)
          \/ \E n \in 0 .. Len(file[k].blocks) : Settle(k, n)
          \/ Delete(k)
          \/ \E r \in Readers : Read(r, k)
    \/ \E r \in Readers : Forget(r)

Spec == Init /\ [][Next]_fsVars
=============================================================================

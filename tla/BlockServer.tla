---------------------------- MODULE BlockServer ----------------------------
(***************************************************************************)
(* The block server: the FastCGI programs block_store and block_fetch,     *)
(* which share one LevelDB database.  LevelDB lets one process at a time   *)
(* have the database open, so a handler opens it for each request, polls   *)
(* once a second while another handler has it, and deletes its handle on   *)
(* every way out.                                                          *)
(***************************************************************************)
EXTENDS Naturals, FiniteSets

CONSTANTS
    Procs,        \* the handler processes of both programs
    Hashes,       \* block hashes
    Unreadable,   \* the blocks a Get may fail to read (an I/O error)
    MayCrash,     \* may a handler process die?
    MaxRequests,  \* bound: requests taken in a behaviour
    NoRequest, NoProc

ASSUME BlockAssumption == MayCrash \in BOOLEAN /\ MaxRequests \in Nat
ASSUME NoProcAssumption == NoProc \notin Procs

VARIABLES
    stored,    \* the keys of the database
    exists,    \* has the database been created?
    lock,      \* the process that has the database open (the file LOCK)
    pc,        \* what each process does next
    req,       \* the request a process is serving
    status,    \* the HTTP status it has written, 0 before
    accepted   \* number of requests taken so far

blockVars == <<stored, exists, lock, pc, req, status, accepted>>

BlockRequests == [op : {"block_store", "block_fetch"}, hash : Hashes]

BlockInit ==
    /\ stored = {}
    /\ exists = FALSE
    /\ lock = NoProc
    /\ pc = [p \in Procs |-> "idle"]
    /\ req = [p \in Procs |-> NoRequest]
    /\ status = [p \in Procs |-> 0]
    /\ accepted = 0

(* The handler writes its answer; `delete db` has closed the database.     *)
Finish(p, s) ==
    /\ status' = [status EXCEPT ![p] = s]
    /\ pc' = [pc EXCEPT ![p] = "done"]
    /\ lock' = IF lock = p THEN NoProc ELSE lock

TakeRequest(p, r) ==
    /\ pc[p] = "idle"
    /\ accepted < MaxRequests
    /\ accepted' = accepted + 1
    /\ req' = [req EXCEPT ![p] = r]
    /\ UNCHANGED <<stored, exists>>

Accept(p, r) ==
    /\ TakeRequest(p, r)
    /\ pc' = [pc EXCEPT ![p] = "open"]
    /\ UNCHANGED <<lock, status>>

(* no query string, or no hash in it: 400 before the database is opened    *)
RejectRequest(p) ==
    /\ TakeRequest(p, NoRequest)
    /\ Finish(p, 400)

(* DB::Open of block_store, with create_if_missing.  An Open that fails is *)
(* repeated after a second: a stuttering step.                             *)
OpenStore(p) ==
    /\ pc[p] = "open"
    /\ req[p].op = "block_store"
    /\ lock = NoProc
    /\ lock' = p
    /\ exists' = TRUE
    /\ pc' = [pc EXCEPT ![p] = "put"]
    /\ UNCHANGED <<stored, req, status, accepted>>

(* DB::Open of block_fetch fails also while the database does not exist    *)
OpenFetch(p) ==
    /\ pc[p] = "open"
    /\ req[p].op = "block_fetch"
    /\ lock = NoProc
    /\ exists
    /\ lock' = p
    /\ pc' = [pc EXCEPT ![p] = "get"]
    /\ UNCHANGED <<stored, exists, req, status, accepted>>

(* mutant of Put: one attempt, whatever its status                         *)
PutOnce(p) ==
    /\ pc[p] = "put"
    /\ stored' \in {stored, stored \cup {req[p].hash}}
    /\ pc' = [pc EXCEPT ![p] = "ip"]
    /\ UNCHANGED <<exists, lock, req, status, accepted>>

(* mutant of Put: key and value in the wrong order                         *)
PutSwapped(p) ==
    /\ pc[p] = "put"
    /\ stored' = stored \cup {req[p]}
    /\ pc' = [pc EXCEPT ![p] = "ip"]
    /\ UNCHANGED <<exists, lock, req, status, accepted>>

(* The Put that succeeds.  One that fails is repeated after a second, with *)
(* the database open: a stuttering step, for ever on a full disk, since    *)
(* LevelDB keeps failing after a write error.                              *)
Put(p) ==
    /\ pc[p] = "put"
    /\ stored' = stored \cup {req[p].hash}
    /\ pc' = [pc EXCEPT ![p] = "ip"]
    /\ UNCHANGED <<exists, lock, req, status, accepted>>

(* the block is stored; 400 if the server's own address is not found       *)
GetIPAddress(p) ==
    /\ pc[p] = "ip"
    /\ \E s \in {200, 400} : Finish(p, s)
    /\ UNCHANGED <<stored, exists, req, accepted>>

(* mutant of Get: the status is not looked at                              *)
GetUnchecked(p) ==
    /\ pc[p] = "get"
    /\ Finish(p, 200)
    /\ UNCHANGED <<stored, exists, req, accepted>>

Get(p) ==
    /\ pc[p] = "get"
    /\ req[p].hash \in stored
    /\ Finish(p, 200)
    /\ UNCHANGED <<stored, exists, req, accepted>>

(* mutant of KeyDoesNotExist: `continue` without `delete db`               *)
KeyDoesNotExistLeak(p) ==
    /\ pc[p] = "get"
    /\ req[p].hash \in stored => req[p].hash \in Unreadable
    /\ status' = [status EXCEPT ![p] = 400]
    /\ pc' = [pc EXCEPT ![p] = "done"]
    /\ UNCHANGED <<stored, exists, lock, req, accepted>>

(* whatever Get fails for is answered as a missing key                     *)
KeyDoesNotExist(p) ==
    /\ pc[p] = "get"
    /\ req[p].hash \in stored => req[p].hash \in Unreadable
    /\ Finish(p, 400)
    /\ UNCHANGED <<stored, exists, req, accepted>>

(* The process dies; the operating system drops its file lock.             *)
CrashHandler(p) ==
    /\ MayCrash
    /\ pc[p] \notin {"idle", "done"}
    /\ Finish(p, 500)
    /\ UNCHANGED <<stored, exists, req, accepted>>

Respond(p) ==
    /\ pc[p] = "done"
    /\ pc' = [pc EXCEPT ![p] = "idle"]
    /\ req' = [req EXCEPT ![p] = NoRequest]
    /\ status' = [status EXCEPT ![p] = 0]
    /\ UNCHANGED <<stored, exists, lock, accepted>>

(* everything but Put                                                      *)
Handle(p) ==
    \/ OpenStore(p) \/ OpenFetch(p) \/ GetIPAddress(p)
    \/ Get(p) \/ KeyDoesNotExist(p) \/ Respond(p)

BlockNext ==
    \E p \in Procs :
        \/ \E r \in BlockRequests : Accept(p, r)
        \/ RejectRequest(p)
        \/ Handle(p) \/ Put(p)
        \/ CrashHandler(p)

BlockSpec == BlockInit /\ [][BlockNext]_blockVars

(* A handler polls and runs.  Polling gives weak fairness only: the lock   *)
(* may be taken every time a process looks.  Nothing makes a Put succeed.  *)
BlockFairSpec == BlockSpec /\ \A p \in Procs : WF_blockVars(Handle(p))

-----------------------------------------------------------------------------
(* Type invariant of the database and its handlers.                        *)
BlockTypeOK ==
    /\ stored \subseteq Hashes
    /\ exists \in BOOLEAN
    /\ lock \in Procs \cup {NoProc}
    /\ pc \in [Procs -> {"idle", "open", "put", "ip", "get", "done"}]
    /\ req \in [Procs -> BlockRequests \cup {NoRequest}]
    /\ status \in [Procs -> {0, 200, 400, 500}]
    /\ accepted \in Nat

UsesDb(p) == pc[p] \in {"put", "ip", "get"}

(* The database is open in a process exactly while that process uses it:   *)
(* no two at once, and no way out of a handler, error, missing key or      *)
(* crash, leaves it open (every other handler would poll forever).         *)
OpenExactlyWhileUsed ==
    \A p \in Procs : UsesDb(p) <=> lock = p

(* A block whose store was answered 200 is in the database, and so is one  *)
(* whose store was answered 400 after the Put, which the client retries.   *)
AnsweredStoreIsStored ==
    \A p \in Procs :
        /\ pc[p] = "done"
        /\ req[p] # NoRequest
        /\ req[p].op = "block_store"
        /\ status[p] \in {200, 400}
        => req[p].hash \in stored /\ exists

(* No Put fails for ever: each succeeds or its process dies.               *)
PutsEnd == \A p \in Procs : []<>(pc[p] # "put")

(* Unless a Put fails for ever, which keeps the database from every other  *)
(* handler, a store is answered, and a fetch too once the database exists, *)
(* as long as the stream of requests pauses (MaxRequests is finite).       *)
AnsweredOnceDbExists ==
    PutsEnd =>
        \A p \in Procs :
            (pc[p] # "idle" /\ (pc[p] = "open" /\ req[p].op = "block_fetch" => exists))
                ~> (pc[p] = "idle")

(* What the handlers know about the database, for the induction.           *)
BlockInv ==
    /\ BlockTypeOK
    /\ OpenExactlyWhileUsed
    /\ AnsweredStoreIsStored
    /\ \A p \in Procs :
          /\ pc[p] \in {"open", "put", "ip", "get"} => req[p] \in BlockRequests
          /\ pc[p] \in {"put", "ip"} => req[p].op = "block_store"
          /\ pc[p] = "get" => req[p].op = "block_fetch"
          /\ pc[p] = "ip" => req[p].hash \in stored
          /\ UsesDb(p) => exists

-----------------------------------------------------------------------------
(* The block server implements BlockStore: Put stores, the answer of a     *)
(* valid request tells, and requests without a hash are not seen.          *)
answerBar ==
    [p \in Procs |->
        IF pc[p] = "done" /\ req[p] # NoRequest
        THEN [op |-> req[p].op, hash |-> req[p].hash, status |-> status[p]]
        ELSE NoRequest]

BS == INSTANCE BlockStore
        WITH Askers <- Procs, NoAnswer <- NoRequest, blocks <- stored,
             answer <- answerBar

(* Stores and fetches of blocks appear atomic, whichever handlers wait for *)
(* the database and die with it open: a stored block is found by every     *)
(* later fetch that can read it, no fetch answers 200 for a block that was *)
(* never stored, and a fetch that misses a block overtook its store.       *)
ImplementsBlockStore == BS!Spec
=============================================================================

-------------------------- MODULE BlockServerProofs --------------------------
(***************************************************************************)
(* Proofs about the block server, for any number of handler processes,     *)
(* hashes and requests: the lock discipline of the shared database, and    *)
(* that a store answered by the handler is a store made.                   *)
(***************************************************************************)
EXTENDS BlockServer, TLAPS

(* The invariant holds in an empty block server.                           *)
LEMMA BlockInitInv == BlockInit => BlockInv
<1> SUFFICES ASSUME BlockInit PROVE BlockInv
  OBVIOUS
<1>1. pc = [p \in Procs |-> "idle"] /\ lock = NoProc
  BY DEF BlockInit
<1>2. BlockTypeOK
  <2>1. exists \in BOOLEAN
    BY Zenon DEF BlockInit
  <2>2. QED BY <2>1 DEF BlockInit, BlockTypeOK
<1>3. OpenExactlyWhileUsed
  BY <1>1, NoProcAssumption DEF OpenExactlyWhileUsed, UsesDb
<1>4. QED BY <1>1, <1>2, <1>3 DEF BlockInv, AnsweredStoreIsStored, UsesDb

(* Taking a request, valid or not, opens nothing and answers nothing that  *)
(* was not stored.                                                         *)
LEMMA TakingKeepsInv ==
    ASSUME BlockInv, NEW p \in Procs,
           RejectRequest(p) \/ \E r \in BlockRequests : Accept(p, r)
    PROVE  BlockInv'
<1> USE BlockAssumption, NoProcAssumption
<1>1. BlockTypeOK'
  BY DEF BlockInv, BlockTypeOK, RejectRequest, Accept, TakeRequest, Finish
<1>2. lock' = lock /\ ~UsesDb(p) /\ ~UsesDb(p)' /\ \A x \in Procs \ {p} : UsesDb(x)' = UsesDb(x)
  BY DEF BlockInv, BlockTypeOK, OpenExactlyWhileUsed, UsesDb, RejectRequest,
         Accept, TakeRequest, Finish
<1>3. OpenExactlyWhileUsed'
  BY <1>2 DEF BlockInv, OpenExactlyWhileUsed
<1>4. CASE RejectRequest(p)
  BY <1>1, <1>3, <1>4 DEF BlockInv, BlockTypeOK, AnsweredStoreIsStored, UsesDb,
     RejectRequest, TakeRequest, Finish
<1>5. CASE \E r \in BlockRequests : Accept(p, r)
  BY <1>1, <1>3, <1>5 DEF BlockInv, BlockTypeOK, AnsweredStoreIsStored, UsesDb,
     Accept, TakeRequest
<1>6. QED BY <1>4, <1>5

(* The steps between Open and the answer keep the invariant.               *)
LEMMA DatabaseStepsKeepInv ==
    ASSUME BlockInv, NEW p \in Procs, OpenStore(p) \/ OpenFetch(p) \/ Put(p)
    PROVE  BlockInv'
<1> USE BlockAssumption, NoProcAssumption
<1>1. CASE OpenStore(p)
  BY <1>1 DEF BlockInv, BlockTypeOK, OpenExactlyWhileUsed, UsesDb,
     AnsweredStoreIsStored, OpenStore
<1>2. CASE OpenFetch(p)
  BY <1>2 DEF BlockInv, BlockTypeOK, OpenExactlyWhileUsed, UsesDb,
     AnsweredStoreIsStored, OpenFetch
<1>3. CASE Put(p)
  BY <1>3 DEF BlockInv, BlockTypeOK, OpenExactlyWhileUsed, UsesDb,
     AnsweredStoreIsStored, Put, BlockRequests
<1>4. QED BY <1>1, <1>2, <1>3

(* Every way out of a handler closes the database it has opened.           *)
LEMMA FinishKeepsInv ==
    ASSUME BlockInv, NEW p \in Procs, NEW s \in {200, 400, 500},
           pc[p] \in {"open", "put", "ip", "get"}, Finish(p, s),
           req[p].op = "block_store" /\ s \in {200, 400} => pc[p] = "ip",
           UNCHANGED <<stored, exists, req, accepted>>
    PROVE  BlockInv'
<1> USE BlockAssumption, NoProcAssumption
<1>1. BlockTypeOK'
  BY DEF BlockInv, BlockTypeOK, Finish
<1>2. OpenExactlyWhileUsed'
  BY DEF BlockInv, BlockTypeOK, OpenExactlyWhileUsed, UsesDb, Finish
<1>3. AnsweredStoreIsStored'
  BY DEF BlockInv, BlockTypeOK, AnsweredStoreIsStored, UsesDb, Finish
<1>4. QED
  BY <1>1, <1>2, <1>3 DEF BlockInv, BlockTypeOK, UsesDb, Finish

(* Every step keeps the invariant.                                         *)
LEMMA BlockNextInv == BlockInv /\ [BlockNext]_blockVars => BlockInv'
<1> SUFFICES ASSUME BlockInv, [BlockNext]_blockVars PROVE BlockInv'
  OBVIOUS
<1>1. CASE UNCHANGED blockVars
  BY <1>1 DEF blockVars, BlockInv, BlockTypeOK, OpenExactlyWhileUsed, UsesDb,
     AnsweredStoreIsStored
<1>2. CASE BlockNext
  <2>1. PICK p \in Procs :
           \/ \E r \in BlockRequests : Accept(p, r)
           \/ RejectRequest(p)
           \/ Handle(p) \/ Put(p)
           \/ CrashHandler(p)
    BY <1>2 DEF BlockNext
  <2>2. CASE RejectRequest(p) \/ \E r \in BlockRequests : Accept(p, r)
    BY <2>2, TakingKeepsInv
  <2>3. CASE OpenStore(p) \/ OpenFetch(p) \/ Put(p)
    BY <2>3, DatabaseStepsKeepInv
  <2>4. CASE GetIPAddress(p)
    <3>1. PICK s \in {200, 400} : Finish(p, s)
      BY <2>4 DEF GetIPAddress
    <3>2. QED BY <2>4, <3>1, FinishKeepsInv DEF GetIPAddress
  <2>5. CASE Get(p)
    BY <2>5, FinishKeepsInv DEF Get, BlockInv
  <2>6. CASE KeyDoesNotExist(p)
    BY <2>6, FinishKeepsInv DEF KeyDoesNotExist, BlockInv
  <2>7. CASE CrashHandler(p)
    <3>1. pc[p] \in {"open", "put", "ip", "get"}
      BY <2>7 DEF CrashHandler, BlockInv, BlockTypeOK
    <3>2. QED BY <2>7, <3>1, FinishKeepsInv DEF CrashHandler
  <2>8. CASE Respond(p)
    BY <2>8 DEF Respond, BlockInv, BlockTypeOK, OpenExactlyWhileUsed, UsesDb,
       AnsweredStoreIsStored
  <2>9. QED
    BY <2>1, <2>2, <2>3, <2>4, <2>5, <2>6, <2>7, <2>8 DEF Handle
<1>3. QED BY <1>1, <1>2

(* The invariant holds in every behaviour of the block server.             *)
LEMMA BlockInvariant == BlockSpec => []BlockInv
  BY BlockInitInv, BlockNextInv, PTL DEF BlockSpec

(* The database and the handlers of block_store and block_fetch keep their *)
(* types, with any number of processes dying at any point.                 *)
THEOREM BlockTypeCorrect == BlockSpec => []BlockTypeOK
<1>1. BlockInv => BlockTypeOK
  BY DEF BlockInv
<1>2. QED BY <1>1, BlockInvariant, PTL

(* With any number of processes dying at any point, the database is open   *)
(* in exactly the process that uses it.                                    *)
THEOREM BlockServerCorrect == BlockSpec => []OpenExactlyWhileUsed
<1>1. BlockInv => OpenExactlyWhileUsed
  BY DEF BlockInv
<1>2. QED BY <1>1, BlockInvariant, PTL

(* With any number of processes dying at any point, a store answered 200,  *)
(* or 400 after the Put, is stored.                                        *)
THEOREM StoresAreKept == BlockSpec => []AnsweredStoreIsStored
<1>1. BlockInv => AnsweredStoreIsStored
  BY DEF BlockInv
<1>2. QED BY <1>1, BlockInvariant, PTL
-----------------------------------------------------------------------------
(* The answer a process has given, as the abstract block server sees it,   *)
(* only depends on that process.                                           *)
LEMMA AnswerBarOnlyOf ==
    ASSUME BlockInv, NEW p \in Procs,
           \A x \in Procs \ {p} :
               pc'[x] = pc[x] /\ req'[x] = req[x] /\ status'[x] = status[x]
    PROVE  answerBar' = [answerBar EXCEPT ![p] = answerBar'[p]]
  BY DEF answerBar

(* Before its answer and after it a process holds none.                    *)
LEMMA NoAnswerBeforeDone ==
    ASSUME NEW p \in Procs, pc[p] # "done"
    PROVE  answerBar[p] = NoRequest
  BY DEF answerBar

(* The end of a handler is one answer of the abstract block server; one    *)
(* that would look like no answer at all is not seen.                      *)
LEMMA FinishTells ==
    ASSUME BlockInv, NEW p \in Procs, NEW s \in {200, 400, 500},
           pc[p] \in {"open", "put", "ip", "get"}, Finish(p, s),
           UNCHANGED <<stored, req>>
    PROVE  BS!Tell(p, req[p].op, req[p].hash, s) \/ UNCHANGED <<stored, answerBar>>
<1>1. /\ pc'[p] = "done" /\ status'[p] = s /\ req'[p] = req[p]
      /\ \A x \in Procs \ {p} :
            pc'[x] = pc[x] /\ req'[x] = req[x] /\ status'[x] = status[x]
  BY DEF Finish, BlockInv, BlockTypeOK
<1>2. answerBar' = [answerBar EXCEPT ![p] = answerBar'[p]]
  BY <1>1, AnswerBarOnlyOf
<1>3. answerBar[p] = NoRequest
  BY NoAnswerBeforeDone
<1>4. CASE req[p] = NoRequest
  <2>1. answerBar'[p] = answerBar[p]
    BY <1>1, <1>3, <1>4 DEF answerBar
  <2>2. QED BY <1>2, <2>1 DEF answerBar
<1>5. CASE req[p] # NoRequest
  <2>1. answerBar'[p] = [op |-> req[p].op, hash |-> req[p].hash, status |-> s]
    BY <1>1, <1>5 DEF answerBar
  <2>2. QED BY <1>2, <1>3, <2>1 DEF BS!Tell
<1>6. QED BY <1>4, <1>5

(* Taking a request and opening the database change nothing the abstract   *)
(* block server shows.                                                     *)
LEMMA WaitingStutters ==
    ASSUME BlockInv, NEW p \in Procs,
           \/ RejectRequest(p) \/ OpenStore(p) \/ OpenFetch(p)
           \/ \E r \in BlockRequests : Accept(p, r)
    PROVE  UNCHANGED <<stored, answerBar>>
<1>1. /\ stored' = stored /\ pc[p] \in {"idle", "open"}
      /\ \A x \in Procs \ {p} :
            pc'[x] = pc[x] /\ req'[x] = req[x] /\ status'[x] = status[x]
  BY DEF RejectRequest, OpenStore, OpenFetch, Accept, TakeRequest, Finish,
         BlockInv, BlockTypeOK
<1>2. pc'[p] # "done" \/ req'[p] = NoRequest
  BY DEF RejectRequest, OpenStore, OpenFetch, Accept, TakeRequest, Finish,
         BlockInv, BlockTypeOK
<1>3. answerBar[p] = NoRequest
  BY <1>1, NoAnswerBeforeDone
<1>4. answerBar'[p] = NoRequest
  BY <1>2 DEF answerBar
<1>5. answerBar' = [answerBar EXCEPT ![p] = answerBar'[p]]
  BY <1>1, AnswerBarOnlyOf
<1>6. QED BY <1>1, <1>3, <1>4, <1>5 DEF answerBar

(* A successful Put is the moment the abstract block server stores.        *)
LEMMA PutStores ==
    ASSUME BlockInv, NEW p \in Procs, Put(p)
    PROVE  \E h \in Hashes : BS!Store(h)
<1>1. req[p].hash \in Hashes
  BY DEF Put, BlockInv, BlockRequests
<1>2. /\ pc[p] = "put" /\ pc'[p] = "ip"
      /\ \A x \in Procs \ {p} :
            pc'[x] = pc[x] /\ req'[x] = req[x] /\ status'[x] = status[x]
  BY DEF Put, BlockInv, BlockTypeOK
<1>3. answerBar[p] = NoRequest /\ answerBar'[p] = NoRequest
  BY <1>2 DEF answerBar
<1>4. answerBar' = [answerBar EXCEPT ![p] = answerBar'[p]]
  BY <1>2, AnswerBarOnlyOf
<1>5. answerBar' = answerBar
  BY <1>3, <1>4 DEF answerBar
<1>6. QED BY <1>1, <1>5 DEF Put, BS!Store

(* Every step of the block server is a step of BlockStore or shows         *)
(* nothing.                                                                *)
LEMMA StepImplements ==
    ASSUME BlockInv, [BlockNext]_blockVars
    PROVE  [BS!Next]_(BS!bsVars)
<1> SUFFICES BS!Next \/ UNCHANGED <<stored, answerBar>>
  BY DEF BS!bsVars
<1>1. CASE UNCHANGED blockVars
  BY <1>1 DEF blockVars, answerBar
<1>2. CASE BlockNext
  <2>1. PICK p \in Procs :
           \/ \E r \in BlockRequests : Accept(p, r)
           \/ RejectRequest(p)
           \/ Handle(p) \/ Put(p)
           \/ CrashHandler(p)
    BY <1>2 DEF BlockNext
  <2>2. CASE \/ RejectRequest(p) \/ OpenStore(p) \/ OpenFetch(p)
             \/ \E r \in BlockRequests : Accept(p, r)
    BY <2>2, WaitingStutters
  <2>3. CASE Put(p)
    BY <2>3, PutStores DEF BS!Next
  <2>4. CASE GetIPAddress(p)
    <3>1. PICK s \in {200, 400} : Finish(p, s)
      BY <2>4 DEF GetIPAddress
    <3>2. /\ req[p].op = "block_store" /\ req[p].hash \in stored
          /\ req[p].hash \in Hashes
      BY <2>4 DEF GetIPAddress, BlockInv, BlockRequests
    <3>3. BS!Tell(p, req[p].op, req[p].hash, s) \/ UNCHANGED <<stored, answerBar>>
      BY <2>4, <3>1, FinishTells DEF GetIPAddress
    <3>4. QED BY <3>2, <3>3 DEF BS!Next, BS!AnswerStore
  <2>5. CASE Get(p)
    <3>1. req[p].op = "block_fetch" /\ req[p].hash \in Hashes
      BY <2>5 DEF Get, BlockInv, BlockRequests
    <3>2. BS!Tell(p, req[p].op, req[p].hash, 200) \/ UNCHANGED <<stored, answerBar>>
      BY <2>5, FinishTells DEF Get
    <3>3. QED BY <2>5, <3>1, <3>2 DEF Get, BS!Next, BS!AnswerFetch
  <2>6. CASE KeyDoesNotExist(p)
    <3>1. req[p].op = "block_fetch" /\ req[p].hash \in Hashes
      BY <2>6 DEF KeyDoesNotExist, BlockInv, BlockRequests
    <3>2. BS!Tell(p, req[p].op, req[p].hash, 400) \/ UNCHANGED <<stored, answerBar>>
      BY <2>6, FinishTells DEF KeyDoesNotExist
    <3>3. QED BY <2>6, <3>1, <3>2 DEF KeyDoesNotExist, BS!Next, BS!AnswerFetch
  <2>7. CASE CrashHandler(p)
    <3>1. pc[p] \in {"open", "put", "ip", "get"}
      BY <2>7 DEF CrashHandler, BlockInv, BlockTypeOK
    <3>2. req[p].op \in {"block_store", "block_fetch"} /\ req[p].hash \in Hashes
      BY <3>1 DEF BlockInv, BlockRequests
    <3>3. BS!Tell(p, req[p].op, req[p].hash, 500) \/ UNCHANGED <<stored, answerBar>>
      BY <2>7, <3>1, FinishTells DEF CrashHandler
    <3>4. QED BY <3>2, <3>3 DEF BS!Next, BS!Fail
  <2>8. CASE Respond(p)
    <3>1. /\ stored' = stored /\ pc'[p] = "idle"
          /\ \A x \in Procs \ {p} :
                pc'[x] = pc[x] /\ req'[x] = req[x] /\ status'[x] = status[x]
      BY <2>8 DEF Respond, BlockInv, BlockTypeOK
    <3>2. answerBar'[p] = NoRequest
      BY <3>1 DEF answerBar
    <3>3. answerBar' = [answerBar EXCEPT ![p] = answerBar'[p]]
      BY <3>1, AnswerBarOnlyOf
    <3>4. QED BY <3>1, <3>2, <3>3 DEF BS!Next, BS!Forget
  <2>9. QED
    BY <2>1, <2>2, <2>3, <2>4, <2>5, <2>6, <2>7, <2>8 DEF Handle
<1>3. QED BY <1>1, <1>2

(* With any number of handlers polling for the database and dying with it  *)
(* open, the stores and fetches answered appear atomic: a stored block is  *)
(* found by every later fetch that can read it, no fetch answers 200 for a *)
(* block never stored, and a store is answered only after its Put.         *)
THEOREM BlockStoreImplemented == BlockSpec => ImplementsBlockStore
<1>1. BlockInit => BS!Init
  BY DEF BlockInit, answerBar, BS!Init
<1>2. BlockInv /\ [BlockNext]_blockVars => [BS!Next]_(BS!bsVars)
  BY StepImplements
<1>3. QED
  BY <1>1, <1>2, BlockInvariant, PTL DEF BlockSpec, ImplementsBlockStore, BS!Spec
=============================================================================

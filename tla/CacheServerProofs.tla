------------------------- MODULE CacheServerProofs -------------------------
(***************************************************************************)
(* Proofs about the cache server, for any number of handlers and blocks    *)
(* and any lists of recent hashes.                                         *)
(***************************************************************************)
EXTENDS CacheServer, TLAPS

(* The type invariant, and that the prefetcher puts the first hash it has  *)
(* to retrieve.                                                            *)
CacheTypeInv ==
    /\ CacheTypeOK
    /\ ppc = "put" => retrieve # <<>>

(* what a message may do to the database and to leveldb_server             *)
DbTypeOK ==
    /\ db \in [Hashes -> Values \cup {NoValue}]
    /\ server \in {"up", "down"}

-----------------------------------------------------------------------------
(* Messages keep the types, whatever fails.                                *)

(* A get changes nothing but, if it dies, leveldb_server.                  *)
LEMMA GetMessageTypes ==
    ASSUME NEW h, NEW ok, NEW v, DbTypeOK, GetMessage(h, ok, v)
    PROVE  DbTypeOK'
  BY DEF DbTypeOK, GetMessage

(* A put stores a value.                                                   *)
LEMMA PutMessageTypes ==
    ASSUME NEW h, NEW v \in Values, DbTypeOK, PutMessage(h, v)
    PROVE  DbTypeOK'
  BY DEF DbTypeOK, PutMessage

(* A message cut short stores a value or nothing.                          *)
LEMMA CutShortTypes ==
    ASSUME NEW a, NEW p, NEW h, NEW v \in Values, DbTypeOK,
           CutShort(a, p, h, v)
    PROVE  DbTypeOK'
  BY DEF DbTypeOK, CutShort, Values

-----------------------------------------------------------------------------
(* An answer that is cut has its types.                                    *)
LEMMA AnswerCutTypes ==
    ASSUME CacheTypeOK, NEW f \in Fetchers, AnswerCut(f)
    PROVE  /\ pc' \in [Fetchers -> {"idle", "exists", "get", "fetch", "put",
                                    "prefetch", "done"}]
           /\ body' \in [Fetchers -> Values]
           /\ status' \in [Fetchers -> {0, 200, 400, 500}]
<1>1. /\ pc' = [pc EXCEPT ![f] = "done"]
      /\ \E v \in Values : body' = [body EXCEPT ![f] = v]
      /\ status' = status \/ status' = [status EXCEPT ![f] = 500]
  BY DEF AnswerCut, CacheTypeOK, Values
<1> QED BY <1>1 DEF CacheTypeOK

(* Every step of a handler process keeps the types.                        *)
LEMMA HandlerTypes ==
    ASSUME CacheTypeInv, NEW f \in Fetchers,
           \/ \E h \in Hashes : Accept(f, h)
           \/ Reject(f) \/ Handle(f) \/ HandlerDies(f)
    PROVE  CacheTypeInv'
<1> USE DEF CacheTypeInv
<1>1. DbTypeOK
  BY DEF CacheTypeOK, DbTypeOK
<1>2. CASE \E h \in Hashes : Accept(f, h)
  BY <1>2 DEF Accept, CacheTypeOK, prefetchVars
<1>3. CASE Reject(f)
  BY <1>3 DEF Reject, CacheTypeOK, Values, prefetchVars
<1>4. CASE AlreadyExists(f)
  <2>1. DbTypeOK'
    BY <1>1, <1>4, GetMessageTypes DEF AlreadyExists
  <2> QED
    BY <1>4, <2>1 DEF AlreadyExists, CacheTypeOK, DbTypeOK, prefetchVars
<1>5. CASE GetBlock(f)
  <2>1. DbTypeOK'
    BY <1>1, <1>5, GetMessageTypes DEF GetBlock
  <2> QED
    BY <1>5, <2>1 DEF GetBlock, CacheTypeOK, DbTypeOK, prefetchVars
<1>6. CASE FetchBlock(f)
  BY <1>6 DEF FetchBlock, CacheTypeOK, Values, prefetchVars
<1>7. CASE FetchFails(f)
  BY <1>7 DEF FetchFails, CacheTypeOK, Values, prefetchVars
<1>8. CASE PutBlock(f)
  <2>1. DbTypeOK'
    BY <1>1, <1>8, PutMessageTypes DEF PutBlock, CacheTypeOK
  <2> QED
    BY <1>8, <2>1 DEF PutBlock, CacheTypeOK, DbTypeOK, prefetchVars
<1>9. CASE SendMsg(f)
  BY <1>9, CacheAssumption DEF SendMsg, CacheTypeOK, prefetchVars
<1>10. CASE Unreachable(f)
  BY <1>10, AnswerCutTypes DEF Unreachable, CacheTypeOK, prefetchVars
<1>11. CASE Respond(f)
  BY <1>11 DEF Respond, CacheTypeOK, Values, prefetchVars
<1>12. CASE HandlerDies(f)
  <2>1. DbTypeOK'
    BY <1>1, <1>12, CutShortTypes DEF HandlerDies, CacheTypeOK
  <2> QED
    BY <1>12, <2>1, AnswerCutTypes DEF HandlerDies, CacheTypeOK, DbTypeOK,
                                       prefetchVars
<1> QED
  BY <1>2, <1>3, <1>4, <1>5, <1>6, <1>7, <1>8, <1>9, <1>10, <1>11, <1>12
  DEF Handle

(* Every step of the prefetcher keeps the types.                           *)
LEMMA PrefetcherTypes ==
    ASSUME CacheTypeInv, Prefetcher \/ PrefetcherDies
    PROVE  CacheTypeInv'
<1> USE DEF CacheTypeInv
<1>1. DbTypeOK
  BY DEF CacheTypeOK, DbTypeOK
<1>2. CASE PrefetchAccept
  BY <1>2, CacheAssumption DEF PrefetchAccept, CacheTypeOK, fetchVars
<1>3. CASE LookUpRecentHashes
  BY <1>3, CacheAssumption DEF LookUpRecentHashes, CacheTypeOK, fetchVars
<1>4. CASE LookUpFails
  BY <1>4 DEF LookUpFails, CacheTypeOK, fetchVars
<1>5. CASE PickHash
  <2>1. DbTypeOK'
    BY <1>1, <1>5, GetMessageTypes DEF PickHash
  <2>2. Head(recent) \in Hashes /\ Tail(recent) \in Seq(Hashes)
    BY <1>5 DEF PickHash, CacheTypeOK
  <2>3. retrieve' \in Seq(Hashes)
    BY <1>5, <2>2 DEF PickHash, CacheTypeOK
  <2> QED
    BY <1>5, <2>1, <2>2, <2>3 DEF PickHash, CacheTypeOK, DbTypeOK, fetchVars
<1>6. CASE PickDone
  BY <1>6 DEF PickDone, CacheTypeOK, fetchVars
<1>7. CASE Prefetch
  BY <1>7 DEF Prefetch, CacheTypeOK, Values, fetchVars
<1>8. CASE PrefetchFails
  <2>1. Tail(retrieve) \in Seq(Hashes)
    BY <1>8 DEF PrefetchFails, CacheTypeOK
  <2> QED
    BY <1>8, <2>1 DEF PrefetchFails, CacheTypeOK, fetchVars
<1>9. CASE PrefetchPut
  <2>1. DbTypeOK'
    BY <1>1, <1>9, PutMessageTypes DEF PrefetchPut, CacheTypeOK
  <2>2. Tail(retrieve) \in Seq(Hashes)
    BY <1>9 DEF PrefetchPut, CacheTypeOK
  <2> QED
    BY <1>9, <2>1, <2>2 DEF PrefetchPut, CacheTypeOK, DbTypeOK, Values,
                            fetchVars
<1>10. CASE PrefetchDone
  BY <1>10 DEF PrefetchDone, CacheTypeOK, fetchVars
<1>11. CASE PrefetcherGone /\ DbTypeOK'
  BY <1>11, CacheAssumption DEF PrefetcherGone, CacheTypeOK, DbTypeOK,
                                Values, fetchVars
<1>12. CASE AcceptFails \/ PrefetcherExits
  BY <1>1, <1>11, <1>12 DEF AcceptFails, PrefetcherExits, DbTypeOK
<1>13. CASE PrefetcherDies
  <2>1. DbTypeOK'
    BY <1>1, <1>13, CutShortTypes DEF PrefetcherDies, CacheTypeOK
  <2> QED
    BY <1>11, <1>13, <2>1 DEF PrefetcherDies
<1> QED
  BY <1>2, <1>3, <1>4, <1>5, <1>6, <1>7, <1>8, <1>9, <1>10, <1>12, <1>13
  DEF Prefetcher

(* Every step keeps the types.                                             *)
LEMMA CacheTypesKept ==
    ASSUME CacheTypeInv, [CacheNext]_cacheVars
    PROVE  CacheTypeInv'
<1>1. CASE \E f \in Fetchers : \/ \E h \in Hashes : Accept(f, h)
                               \/ Reject(f) \/ Handle(f) \/ HandlerDies(f)
  BY <1>1, HandlerTypes
<1>2. CASE Prefetcher \/ PrefetcherDies
  BY <1>2, PrefetcherTypes
<1>3. CASE \E h \in Hashes : StoreToBlockServer(h)
  BY <1>3 DEF StoreToBlockServer, CacheTypeInv, CacheTypeOK, fetchVars,
              prefetchVars
<1>4. CASE StartAgain
  BY <1>4 DEF StartAgain, CacheTypeInv, CacheTypeOK, fetchVars, prefetchVars
<1>5. CASE UNCHANGED cacheVars
  BY <1>5 DEF CacheTypeInv, CacheTypeOK, cacheVars, fetchVars, prefetchVars
<1> QED
  BY <1>1, <1>2, <1>3, <1>4, <1>5 DEF CacheNext

(* The initial state is well typed.                                        *)
LEMMA CacheTypesInit == CacheInit => CacheTypeInv
  BY CacheAssumption DEF CacheInit, CacheTypeInv, CacheTypeOK, Values

(* The database, the handlers of cache_block_fetch and the prefetcher keep *)
(* their types, whatever fails.                                            *)
THEOREM CacheTypeCorrect == CacheSpec => []CacheTypeOK
<1>1. CacheTypeInv /\ [CacheNext]_cacheVars => CacheTypeInv'
  BY CacheTypesKept
<1>2. CacheTypeInv => CacheTypeOK
  BY DEF CacheTypeInv
<1> QED
  BY CacheTypesInit, <1>1, <1>2, PTL DEF CacheSpec
-----------------------------------------------------------------------------
(* What alreadyExists found.  Requests, LevelDB, handlers and the          *)
(* prefetcher may fail; leveldb_server may be killed by a closed socket,   *)
(* but does not die while it answers.                                      *)

FoundOK(f) ==
    /\ pc[f] \in {"exists", "get", "fetch", "put"} => hash[f] \in Hashes
    /\ pc[f] = "get" => db[hash[f]] # NoValue

FoundInv ==
    /\ CacheTypeInv
    /\ \A f \in Fetchers : FoundOK(f)

(* The cache never loses an entry: an entry is at most replaced.           *)
EntriesStay == \A h \in Hashes : db[h] # NoValue => db'[h] # NoValue

(* A get leaves the database alone.                                        *)
LEMMA GetMessageStays ==
    ASSUME NEW h, NEW ok, NEW v, GetMessage(h, ok, v)
    PROVE  EntriesStay
  BY DEF EntriesStay, GetMessage

(* A put, complete, failed or lost, removes no entry.                      *)
LEMMA PutMessageStays ==
    ASSUME DbTypeOK, NEW h, NEW v \in Values, PutMessage(h, v)
    PROVE  EntriesStay
  BY NoValueAssumption DEF EntriesStay, DbTypeOK, PutMessage, Values

(* A message cut short by the death of its sender removes no entry.        *)
LEMMA CutShortStays ==
    ASSUME DbTypeOK, NEW a, NEW p, NEW h, NEW v \in Values, CutShort(a, p, h, v)
    PROVE  EntriesStay
  BY NoValueAssumption DEF EntriesStay, DbTypeOK, CutShort, Values

(* No step of anybody removes an entry.                                    *)
LEMMA StepEntriesStay ==
    ASSUME CacheTypeInv, [CacheNext]_cacheVars
    PROVE  EntriesStay
<1>1. DbTypeOK
  BY DEF CacheTypeInv, CacheTypeOK, DbTypeOK
<1>2. UNCHANGED db => EntriesStay
  BY DEF EntriesStay
<1>3. ASSUME NEW f \in Fetchers,
             \/ \E h \in Hashes : Accept(f, h)
             \/ Reject(f) \/ Handle(f) \/ HandlerDies(f)
      PROVE  EntriesStay
  <2>1. body[f] \in Values
    BY DEF CacheTypeInv, CacheTypeOK
  <2>2. CASE AlreadyExists(f) \/ GetBlock(f)
    BY <2>2, GetMessageStays DEF AlreadyExists, GetBlock
  <2>3. CASE PutBlock(f)
    BY <1>1, <2>1, <2>3, PutMessageStays DEF PutBlock
  <2>4. CASE HandlerDies(f)
    BY <1>1, <2>1, <2>4, CutShortStays DEF HandlerDies
  <2> QED
    BY <1>2, <1>3, <2>2, <2>3, <2>4
    DEF Accept, Reject, Handle, FetchBlock, FetchFails, SendMsg, Unreachable,
        Respond
<1>4. CASE Prefetcher \/ PrefetcherDies
  <2>1. block \in Values
    BY DEF CacheTypeInv, CacheTypeOK
  <2>2. CASE PickHash
    BY <2>2, GetMessageStays DEF PickHash
  <2>3. CASE PrefetchPut
    BY <1>1, <2>1, <2>3, PutMessageStays DEF PrefetchPut
  <2>4. CASE PrefetcherDies
    BY <1>1, <2>1, <2>4, CutShortStays DEF PrefetcherDies
  <2> QED
    BY <1>2, <1>4, <2>2, <2>3, <2>4
    DEF Prefetcher, PrefetchAccept, LookUpRecentHashes, LookUpFails, PickDone,
        Prefetch, PrefetchFails, PrefetchDone, AcceptFails, PrefetcherExits
<1>5. CASE StartAgain \/ (\E h \in Hashes : StoreToBlockServer(h)) \/ UNCHANGED cacheVars
  BY <1>2, <1>5 DEF StartAgain, StoreToBlockServer, cacheVars
<1> QED
  BY <1>3, <1>4, <1>5 DEF CacheNext

(* A handler that does not move keeps what it found.                       *)
LEMMA FoundByOthers ==
    ASSUME FoundInv, EntriesStay, NEW g \in Fetchers,
           pc'[g] = pc[g], hash'[g] = hash[g]
    PROVE  FoundOK(g)'
  BY DEF FoundInv, FoundOK, EntriesStay

(* A handler reads again only what alreadyExists found.                    *)
LEMMA FoundByHandler ==
    ASSUME "server" \notin Faults, FoundInv, NEW f \in Fetchers,
           \/ \E h \in Hashes : Accept(f, h)
           \/ Reject(f) \/ Handle(f) \/ HandlerDies(f)
    PROVE  /\ FoundOK(f)'
           /\ \A g \in Fetchers \ {f} : pc'[g] = pc[g] /\ hash'[g] = hash[g]
<1> USE DEF FoundInv, CacheTypeInv, CacheTypeOK
<1>1. CASE \E h \in Hashes : Accept(f, h)
  BY <1>1 DEF Accept, FoundOK
<1>2. CASE AlreadyExists(f)
  <2>1. PICK ok \in BOOLEAN, v \in Values :
           /\ GetMessage(hash[f], ok, v)
           /\ pc' = [pc EXCEPT ![f] = IF ok THEN "get" ELSE "fetch"]
    BY <1>2 DEF AlreadyExists
  <2>2. UNCHANGED db /\ (ok => db[hash[f]] # NoValue)
    BY <2>1 DEF GetMessage
  <2> QED
    BY <1>2, <2>1, <2>2 DEF AlreadyExists, FoundOK
<1>3. CASE FetchBlock(f) \/ FetchFails(f)
  BY <1>3 DEF FetchBlock, FetchFails, FoundOK
<1>4. CASE \/ Reject(f) \/ GetBlock(f) \/ PutBlock(f) \/ SendMsg(f)
           \/ Unreachable(f) \/ Respond(f) \/ HandlerDies(f)
  BY <1>4 DEF Reject, GetBlock, PutBlock, SendMsg, Unreachable, Respond,
              HandlerDies, AnswerCut, FoundOK
<1> QED
  BY <1>1, <1>2, <1>3, <1>4 DEF Handle

(* Every step keeps what handlers have found.                              *)
LEMMA FoundInvKept ==
    ASSUME "server" \notin Faults, FoundInv, [CacheNext]_cacheVars
    PROVE  FoundInv'
<1>1. CacheTypeInv' /\ EntriesStay
  BY CacheTypesKept, StepEntriesStay DEF FoundInv
<1>2. ASSUME NEW f \in Fetchers,
             \/ \E h \in Hashes : Accept(f, h)
             \/ Reject(f) \/ Handle(f) \/ HandlerDies(f)
      PROVE  FoundInv'
  BY <1>1, <1>2, FoundByHandler, FoundByOthers DEF FoundInv
<1>3. CASE UNCHANGED <<pc, hash>>
  BY <1>1, <1>3, FoundByOthers DEF FoundInv
<1>4. CASE \/ Prefetcher \/ PrefetcherDies \/ StartAgain
           \/ (\E h \in Hashes : StoreToBlockServer(h)) \/ UNCHANGED cacheVars
  BY <1>3, <1>4
  DEF Prefetcher, PrefetchAccept, LookUpRecentHashes, LookUpFails, PickHash,
      PickDone, Prefetch, PrefetchFails, PrefetchPut, PrefetchDone, AcceptFails,
      PrefetcherExits, PrefetcherDies, PrefetcherGone, StartAgain,
      StoreToBlockServer, cacheVars, fetchVars
<1> QED
  BY <1>2, <1>4 DEF CacheNext

(* As long as leveldb_server does not die while it answers, a hash that    *)
(* alreadyExists found is still there when the second message reads it,    *)
(* whatever clients ask for, whichever requests, disk operations, handlers *)
(* or prefetchers fail, and whoever writes to the cache in between.        *)
THEOREM FoundBlocksStay ==
    ASSUME "server" \notin Faults
    PROVE  CacheSpec => []ExistsMeansCached
<1>1. CacheInit => FoundInv
  BY CacheTypesInit DEF CacheInit, FoundInv, FoundOK
<1>2. FoundInv /\ [CacheNext]_cacheVars => FoundInv'
  BY FoundInvKept
<1>3. FoundInv => ExistsMeansCached
  BY DEF FoundInv, FoundOK, ExistsMeansCached
<1> QED
  BY <1>1, <1>2, <1>3, PTL DEF CacheSpec
-----------------------------------------------------------------------------
(* Clients fetch stored blocks and nothing fails.                          *)

(* A get answers what is stored, and changes nothing.                      *)
LEMMA GetMessageExact ==
    ASSUME Faults = {}, NEW h, NEW ok \in BOOLEAN, NEW v, GetMessage(h, ok, v)
    PROVE  /\ ok <=> db[h] # NoValue
           /\ ok => v = db[h]
           /\ UNCHANGED <<db, server>>
  BY DEF GetMessage

(* A put stores its value, and leveldb_server goes on.                     *)
LEMMA PutMessageExact ==
    ASSUME Faults = {}, NEW h, NEW v, PutMessage(h, v), server = "up"
    PROVE  db' = [db EXCEPT ![h] = v] /\ server' = "up"
  BY DEF PutMessage

(* Storing a block under a hash disturbs no handler that does not move.    *)
LEMMA OthersKept ==
    ASSUME CacheInv, NEW g \in Fetchers,
           blocks \subseteq blocks',
           \/ UNCHANGED db
           \/ \E h \in Hashes : db' = [db EXCEPT ![h] = "block"],
           pc'[g] = pc[g], hash'[g] = hash[g],
           body'[g] = body[g], status'[g] = status[g]
    PROVE  FetcherOK(g)'
  BY DEF CacheInv, CacheTypeOK, FetcherOK

(* A step of a handler keeps the invariant: it gets blocks from the cache  *)
(* or the block server, and puts nothing else.                             *)
LEMMA HandlerInv ==
    ASSUME Faults = {}, AskStoredOnly, CacheInv, CacheTypeOK',
           NEW f \in Fetchers,
           \/ \E h \in Hashes : Accept(f, h)
           \/ Reject(f) \/ Handle(f) \/ HandlerDies(f)
    PROVE  CacheInv'
<1>1. ASSUME FetcherOK(f)', server' = "up",
             UNCHANGED <<ppc, retrieve, block>>,
             blocks' = blocks,
             \A g \in Fetchers \ {f} :
                 /\ pc'[g] = pc[g] /\ hash'[g] = hash[g]
                 /\ body'[g] = body[g] /\ status'[g] = status[g],
             \/ UNCHANGED db
             \/ \E h \in Hashes : db' = [db EXCEPT ![h] = "block"]
      PROVE  CacheInv'
  <2>1. \A g \in Fetchers : FetcherOK(g)'
    BY <1>1, OthersKept
  <2>2. \A h \in Hashes : db'[h] \in {NoValue, "block"}
    BY <1>1 DEF CacheInv, CacheTypeOK
  <2> QED
    BY <1>1, <2>1, <2>2 DEF CacheInv
<1> USE DEF prefetchVars
<1>2. CASE \E h \in Hashes : Accept(f, h)
  <2>1. FetcherOK(f)'
    BY <1>2 DEF Accept, CacheInv, CacheTypeOK, FetcherOK
  <2> QED
    BY <1>1, <1>2, <2>1 DEF Accept, CacheInv, CacheTypeOK
<1>3. CASE Reject(f)
  <2>1. FetcherOK(f)'
    BY <1>3 DEF Reject, CacheInv, CacheTypeOK, FetcherOK
  <2> QED
    BY <1>1, <1>3, <2>1 DEF Reject, CacheInv, CacheTypeOK
<1>4. CASE AlreadyExists(f)
  <2>1. PICK ok \in BOOLEAN, v \in Values :
           /\ GetMessage(hash[f], ok, v)
           /\ pc' = [pc EXCEPT ![f] = IF ok THEN "get" ELSE "fetch"]
    BY <1>4 DEF AlreadyExists
  <2>2. (ok <=> db[hash[f]] # NoValue) /\ UNCHANGED <<db, server>>
    BY <2>1, GetMessageExact
  <2>3. FetcherOK(f)'
    BY <1>4, <2>1, <2>2 DEF AlreadyExists, CacheInv, CacheTypeOK, FetcherOK
  <2> QED
    BY <1>1, <1>4, <2>2, <2>3 DEF AlreadyExists, CacheInv, CacheTypeOK
<1>5. CASE GetBlock(f)
  <2>1. PICK ok \in BOOLEAN, v \in Values :
           /\ GetMessage(hash[f], ok, v)
           /\ body' = [body EXCEPT ![f] = v]
    BY <1>5 DEF GetBlock
  <2>2. /\ ok <=> db[hash[f]] # NoValue
        /\ ok => v = db[hash[f]]
        /\ UNCHANGED <<db, server>>
    BY <2>1, GetMessageExact
  <2>3. db[hash[f]] = "block" /\ hash[f] \in Hashes
    BY <1>5 DEF GetBlock, CacheInv, FetcherOK
  <2>4. v = "block"
    BY <2>2, <2>3, NoValueAssumption
  <2>5. FetcherOK(f)'
    BY <1>5, <2>1, <2>2, <2>3, <2>4
    DEF GetBlock, CacheInv, CacheTypeOK, FetcherOK
  <2> QED
    BY <1>1, <1>5, <2>2, <2>5 DEF GetBlock, CacheInv, CacheTypeOK
<1>6. CASE FetchBlock(f)
  <2>1. FetcherOK(f)'
    BY <1>6 DEF FetchBlock, CacheInv, CacheTypeOK, FetcherOK
  <2> QED
    BY <1>1, <1>6, <2>1 DEF FetchBlock, CacheInv, CacheTypeOK
<1>7. CASE PutBlock(f)
  <2>1. body[f] = "block" /\ hash[f] \in Hashes
    BY <1>7 DEF PutBlock, CacheInv, FetcherOK
  <2>2. db' = [db EXCEPT ![hash[f]] = "block"] /\ server' = "up"
    BY <1>7, <2>1, PutMessageExact DEF PutBlock, CacheInv
  <2>3. FetcherOK(f)'
    BY <1>7, <2>1, <2>2 DEF PutBlock, CacheInv, CacheTypeOK, FetcherOK
  <2>4. \E h \in Hashes : db' = [db EXCEPT ![h] = "block"]
    BY <2>1, <2>2
  <2>5. /\ UNCHANGED <<ppc, retrieve, block>>
        /\ blocks' = blocks
        /\ \A g \in Fetchers \ {f} :
              /\ pc'[g] = pc[g] /\ hash'[g] = hash[g]
              /\ body'[g] = body[g] /\ status'[g] = status[g]
    BY <1>7 DEF PutBlock, CacheInv, CacheTypeOK
  <2> QED
    BY <1>1, <2>2, <2>3, <2>4, <2>5
<1>8. CASE SendMsg(f)
  <2>1. FetcherOK(f)'
    BY <1>8 DEF SendMsg, CacheInv, CacheTypeOK, FetcherOK
  <2> QED
    BY <1>1, <1>8, <2>1 DEF SendMsg, CacheInv, CacheTypeOK
<1>9. CASE Respond(f)
  <2>1. FetcherOK(f)'
    BY <1>9 DEF Respond, CacheInv, CacheTypeOK, FetcherOK
  <2> QED
    BY <1>1, <1>9, <2>1 DEF Respond, CacheInv, CacheTypeOK
<1>10. ~FetchFails(f) /\ ~Unreachable(f) /\ ~HandlerDies(f)
  BY DEF FetchFails, Unreachable, HandlerDies, CacheInv
<1> QED
  BY <1>2, <1>3, <1>4, <1>5, <1>6, <1>7, <1>8, <1>9, <1>10 DEF Handle

(* A step of the prefetcher keeps the invariant: it puts what the block    *)
(* server answered with 200.                                               *)
LEMMA PrefetcherInv ==
    ASSUME Faults = {}, CacheInv, CacheTypeOK', Prefetcher \/ PrefetcherDies
    PROVE  CacheInv'
<1>1. ASSUME server' = "up", UNCHANGED <<blocks, fetchVars>>,
             ppc' = "put" => retrieve' # <<>> /\ block' = "block",
             \/ UNCHANGED db
             \/ \E h \in Hashes : db' = [db EXCEPT ![h] = "block"]
      PROVE  CacheInv'
  <2>1. \A g \in Fetchers : FetcherOK(g)'
    BY <1>1, OthersKept DEF fetchVars
  <2>2. \A h \in Hashes : db'[h] \in {NoValue, "block"}
    BY <1>1 DEF CacheInv, CacheTypeOK
  <2> QED
    BY <1>1, <2>1, <2>2 DEF CacheInv
<1>2. CASE PrefetchAccept
  BY <1>1, <1>2 DEF PrefetchAccept, CacheInv
<1>3. CASE LookUpRecentHashes
  BY <1>1, <1>3 DEF LookUpRecentHashes, CacheInv
<1>4. CASE PickHash
  <2>1. UNCHANGED <<db, server>>
    BY <1>4, GetMessageExact DEF PickHash
  <2> QED
    BY <1>1, <1>4, <2>1 DEF PickHash, CacheInv
<1>5. CASE PickDone
  BY <1>1, <1>5 DEF PickDone, CacheInv
<1>6. CASE Prefetch
  BY <1>1, <1>6 DEF Prefetch, CacheInv
<1>7. CASE PrefetchFails
  BY <1>1, <1>7 DEF PrefetchFails, CacheInv
<1>8. CASE PrefetchPut
  <2>1. Head(retrieve) \in Hashes /\ block = "block"
    BY <1>8 DEF PrefetchPut, CacheInv, CacheTypeOK
  <2>2. db' = [db EXCEPT ![Head(retrieve)] = "block"] /\ server' = "up"
    BY <1>8, <2>1, PutMessageExact DEF PrefetchPut, CacheInv
  <2> QED
    BY <1>1, <1>8, <2>1, <2>2 DEF PrefetchPut
<1>9. CASE PrefetchDone
  BY <1>1, <1>9 DEF PrefetchDone, CacheInv
<1>10. CASE AcceptFails
  BY <1>1, <1>10 DEF AcceptFails, PrefetcherGone, CacheInv
<1>11. ~LookUpFails /\ ~PrefetcherExits /\ ~PrefetcherDies
  BY DEF LookUpFails, PrefetcherExits, PrefetcherDies, CacheInv
<1> QED
  BY <1>2, <1>3, <1>4, <1>5, <1>6, <1>7, <1>8, <1>9, <1>10, <1>11
  DEF Prefetcher

(* Every step keeps the invariant.                                         *)
LEMMA CacheInvKept ==
    ASSUME Faults = {}, AskStoredOnly, CacheInv, [CacheNext]_cacheVars
    PROVE  CacheInv'
<1>1. CacheTypeOK'
  BY CacheTypesKept DEF CacheInv, CacheTypeInv
<1>2. CASE \E f \in Fetchers : \/ \E h \in Hashes : Accept(f, h)
                               \/ Reject(f) \/ Handle(f) \/ HandlerDies(f)
  BY <1>1, <1>2, HandlerInv
<1>3. CASE Prefetcher \/ PrefetcherDies
  BY <1>1, <1>3, PrefetcherInv
<1>4. CASE \E h \in Hashes : StoreToBlockServer(h)
  <2>1. \A g \in Fetchers : FetcherOK(g)'
    BY <1>4, OthersKept DEF StoreToBlockServer, fetchVars
  <2> QED
    BY <1>1, <1>4, <2>1 DEF StoreToBlockServer, CacheInv, prefetchVars
<1>5. CASE StartAgain
  <2>1. \A g \in Fetchers : FetcherOK(g)'
    BY <1>5, OthersKept DEF StartAgain, fetchVars
  <2> QED
    BY <1>1, <1>5, <2>1 DEF StartAgain, CacheInv, prefetchVars
<1>6. CASE UNCHANGED cacheVars
  <2>1. \A g \in Fetchers : FetcherOK(g)'
    BY <1>6, OthersKept DEF cacheVars, fetchVars
  <2> QED
    BY <1>1, <1>6, <2>1 DEF cacheVars, CacheInv, prefetchVars
<1> QED
  BY <1>2, <1>3, <1>4, <1>5, <1>6 DEF CacheNext

(* If clients fetch only stored blocks and nothing fails, the cache keeps  *)
(* its invariant, although handlers and prefetcher fill it in any order.   *)
LEMMA CacheInvariant ==
    ASSUME Faults = {}, AskStoredOnly
    PROVE  CacheSpec => []CacheInv
<1>1. CacheInit => CacheInv
  BY CacheTypesInit DEF CacheInit, CacheInv, CacheTypeInv, FetcherOK
<1>2. CacheInv /\ [CacheNext]_cacheVars => CacheInv'
  BY CacheInvKept
<1> QED
  BY <1>1, <1>2, PTL DEF CacheSpec

(* Under these conditions an answer of cache_block_fetch with status 200   *)
(* is the block, whether it was cached or fetched.                         *)
THEOREM CacheCorrect ==
    ASSUME Faults = {}, AskStoredOnly
    PROVE  CacheSpec => []ServedBlockIsTheBlock
<1>1. CacheInv => ServedBlockIsTheBlock
  BY DEF CacheInv, FetcherOK, ServedBlockIsTheBlock
<1> QED
  BY <1>1, CacheInvariant, PTL

(* Under these conditions a block that was answered with 200 is cached.    *)
THEOREM ServedBlocksCached ==
    ASSUME Faults = {}, AskStoredOnly
    PROVE  CacheSpec => []ServedBlockIsCached
<1>1. CacheInv => ServedBlockIsCached
  BY NoValueAssumption DEF CacheInv, FetcherOK, ServedBlockIsCached
<1> QED
  BY <1>1, CacheInvariant, PTL
=============================================================================

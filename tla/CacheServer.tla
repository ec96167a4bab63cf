---------------------------- MODULE CacheServer ----------------------------
(***************************************************************************)
(* The cache server: handler processes of cache_block_fetch, the           *)
(* prefetcher, and leveldb_server, the one process that owns the cache     *)
(* database and serves get and put messages one after the other.           *)
(*                                                                         *)
(* A message to leveldb_server is one step: it serves no other connection  *)
(* between receiving a message and closing the connection.  The block      *)
(* server is the set of hashes it stores (see BlockServer).                *)
(***************************************************************************)
EXTENDS Naturals, Sequences

CONSTANTS
    Fetchers,         \* the handler processes of cache_block_fetch
    Hashes,
    RecentLists,      \* what recent_hashes may answer
    Backlog,          \* length of the prefetcher's listen queue
    MaxFiles,         \* sockets the prefetcher may have open
    AskStoredOnly,    \* clients fetch only blocks the block server has
    Faults,           \* "http": a request to another server fails;
                      \* "server": leveldb_server dies; "disk": LevelDB fails;
                      \* "crash": a handler or the prefetcher dies
    NoHash, NoValue

ASSUME CacheAssumption ==
    /\ RecentLists \subseteq Seq(Hashes)
    /\ Backlog \in Nat
    /\ MaxFiles \in Nat
    /\ AskStoredOnly \in BOOLEAN
    /\ Faults \subseteq {"http", "server", "disk", "crash"}
ASSUME NoValueAssumption ==
    NoValue \notin {"block", "error", "empty", "partial"}

VARIABLES
    blocks,     \* the hashes the block server stores
    db,         \* the cache database: what is stored under each hash
    server,     \* leveldb_server is "up" or "down"
    pc, hash, body, status,      \* each handler process
    queue,                       \* connections the prefetcher has to accept
    ppc, recent, retrieve, block, files \* the prefetcher; files counts the
                                 \* sockets it has accepted

fetchVars == <<pc, hash, body, status>>
prefetchVars == <<ppc, recent, retrieve, block, files>>
cacheVars == <<blocks, db, server, fetchVars, queue, prefetchVars>>

(* What is stored under a hash or sent for it: its block, the HTML page of *)
(* an error, nothing, or a block whose end is missing or zeroed.           *)
Values == {"block", "error", "empty", "partial"}

CacheInit ==
    /\ blocks = {}
    /\ db = [h \in Hashes |-> NoValue]
    /\ server = "up"
    /\ pc = [f \in Fetchers |-> "idle"]
    /\ hash = [f \in Fetchers |-> NoHash]
    /\ body = [f \in Fetchers |-> "empty"]
    /\ status = [f \in Fetchers |-> 0]
    /\ queue = 0
    /\ ppc = "accept"
    /\ recent = <<>>
    /\ retrieve = <<>>
    /\ block = "empty"
    /\ files = 0

-----------------------------------------------------------------------------
(* Messages to leveldb_server                                              *)

(* LevelDBHelper::get: ok is what it returns, v the data it fills in.  If  *)
(* the server dies before or while it answers, the receiver takes the      *)
(* zeroed rest of its buffer for the answer.                               *)
GetMessage(h, ok, v) ==
    /\ server = "up"
    /\ \/ /\ db[h] # NoValue
          /\ ok /\ v = db[h]
          /\ UNCHANGED server
       \/ /\ db[h] = NoValue \/ "disk" \in Faults
          /\ ~ok /\ v = "empty"
          /\ UNCHANGED server
       \/ /\ "server" \in Faults
          /\ ok /\ v \in {"empty", "partial"}
          /\ server' = "down"
    /\ UNCHANGED db

(* mutant of PutMessage: key and value in the wrong order                  *)
PutMessageSwapped(h, v) ==
    /\ server = "up"
    /\ db' = [db EXCEPT ![h] = h]
    /\ UNCHANGED server

(* LevelDBHelper::put: nobody acts on what it returns                      *)
PutMessage(h, v) ==
    /\ server = "up"
    /\ \/ UNCHANGED server
       \/ "server" \in Faults /\ server' = "down"
    /\ \/ db' = [db EXCEPT ![h] = v]
       \/ ("disk" \in Faults \/ server' = "down") /\ UNCHANGED db

(* The sender dies.  leveldb_server takes a message cut short for whole,   *)
(* and is itself killed (SIGPIPE) if it goes on answering a closed socket. *)
CutShort(asking, putting, h, v) ==
    \/ UNCHANGED <<db, server>>
    \/ /\ server = "up"
       /\ asking \/ putting
       /\ server' \in {"up", "down"}
       /\ \/ UNCHANGED db
          \/ putting /\ \E w \in {v, "partial"} : db' = [db EXCEPT ![h] = w]

-----------------------------------------------------------------------------
(* cache_block_fetch                                                       *)

Accept(f, h) ==
    /\ pc[f] = "idle"
    /\ AskStoredOnly => h \in blocks
    /\ pc' = [pc EXCEPT ![f] = "exists"]
    /\ hash' = [hash EXCEPT ![f] = h]
    /\ UNCHANGED <<blocks, db, server, body, status, queue, prefetchVars>>

(* no query string                                                         *)
Reject(f) ==
    /\ pc[f] = "idle"
    /\ pc' = [pc EXCEPT ![f] = "done"]
    /\ status' = [status EXCEPT ![f] = 400]
    /\ body' = [body EXCEPT ![f] = "error"]
    /\ UNCHANGED <<blocks, db, server, hash, queue, prefetchVars>>

(* mutant of AlreadyExists: get(...) != 0                                  *)
AlreadyExistsInverted(f) ==
    /\ pc[f] = "exists"
    /\ \E ok \in BOOLEAN, v \in Values :
          /\ GetMessage(hash[f], ok, v)
          /\ pc' = [pc EXCEPT ![f] = IF ok THEN "fetch" ELSE "get"]
    /\ UNCHANGED <<blocks, hash, body, status, queue, prefetchVars>>

(* alreadyExists throws the data away                                      *)
AlreadyExists(f) ==
    /\ pc[f] = "exists"
    /\ \E ok \in BOOLEAN, v \in Values :
          /\ GetMessage(hash[f], ok, v)
          /\ pc' = [pc EXCEPT ![f] = IF ok THEN "get" ELSE "fetch"]
    /\ UNCHANGED <<blocks, hash, body, status, queue, prefetchVars>>

(* 200 with whatever get filled in                                         *)
GetBlock(f) ==
    /\ pc[f] = "get"
    /\ \E ok \in BOOLEAN, v \in Values :
          /\ GetMessage(hash[f], ok, v)
          /\ body' = [body EXCEPT ![f] = v]
    /\ status' = [status EXCEPT ![f] = 200]
    /\ pc' = [pc EXCEPT ![f] = "prefetch"]
    /\ UNCHANGED <<blocks, hash, queue, prefetchVars>>

(* requestFromBlockServer, and its answer passed on                        *)
FetchBlock(f) ==
    /\ pc[f] = "fetch"
    /\ status' = [status EXCEPT ![f] = IF hash[f] \in blocks THEN 200 ELSE 400]
    /\ body' = [body EXCEPT ![f] =
                    IF hash[f] \in blocks THEN "block" ELSE "error"]
    /\ pc' = [pc EXCEPT ![f] = "put"]
    /\ UNCHANGED <<blocks, db, server, hash, queue, prefetchVars>>

(* The request fails; the empty status line becomes a 500, and what had    *)
(* arrived of the body is kept.                                            *)
FetchFails(f) ==
    /\ "http" \in Faults
    /\ pc[f] = "fetch"
    /\ status' = [status EXCEPT ![f] = 500]
    /\ \E v \in {"empty", "partial"} : body' = [body EXCEPT ![f] = v]
    /\ pc' = [pc EXCEPT ![f] = "put"]
    /\ UNCHANGED <<blocks, db, server, hash, queue, prefetchVars>>

(* mutant of PutBlock: the response is not saved                           *)
PutBlockSkipped(f) ==
    /\ pc[f] = "put"
    /\ pc' = [pc EXCEPT ![f] = "prefetch"]
    /\ UNCHANGED <<blocks, db, server, hash, body, status, queue,
                   prefetchVars>>

(* the response goes into the cache, whatever its status                   *)
PutBlock(f) ==
    /\ pc[f] = "put"
    /\ PutMessage(hash[f], body[f])
    /\ pc' = [pc EXCEPT ![f] = "prefetch"]
    /\ UNCHANGED <<blocks, hash, body, status, queue, prefetchVars>>

(* sendMsg: refused if there is no prefetcher, given up after a time if    *)
(* its queue is full                                                       *)
SendMsg(f) ==
    /\ pc[f] = "prefetch"
    /\ queue' = IF ppc # "dead" /\ queue < Backlog THEN queue + 1 ELSE queue
    /\ pc' = [pc EXCEPT ![f] = "done"]
    /\ UNCHANGED <<blocks, db, server, hash, body, status, prefetchVars>>

(* mutant of Unreachable: connect is tried again                           *)
UnreachableRetries(f) ==
    /\ pc[f] \in {"exists", "get", "put"}
    /\ server = "down"
    /\ UNCHANGED cacheVars

(* The process ends before its answer is complete: the web server answers  *)
(* 500 or, once the answer is in the output stream (before put), what has  *)
(* left of it.                                                             *)
AnswerCut(f) ==
    /\ pc' = [pc EXCEPT ![f] = "done"]
    /\ \/ /\ status' = [status EXCEPT ![f] = 500]
          /\ body' = [body EXCEPT ![f] = "empty"]
       \/ /\ pc[f] \in {"put", "prefetch"}
          /\ \E v \in {"empty", "partial", body[f]} : body' = [body EXCEPT ![f] = v]
          /\ UNCHANGED status

(* sendLocalMsg exits when it cannot connect to leveldb_server             *)
Unreachable(f) ==
    /\ pc[f] \in {"exists", "get", "put"}
    /\ server = "down"
    /\ AnswerCut(f)
    /\ UNCHANGED <<blocks, db, server, hash, queue, prefetchVars>>

(* the process is killed at any point                                      *)
HandlerDies(f) ==
    /\ "crash" \in Faults
    /\ pc[f] \notin {"idle", "done"}
    /\ AnswerCut(f)
    /\ CutShort(pc[f] \in {"exists", "get"}, pc[f] = "put", hash[f], body[f])
    /\ UNCHANGED <<blocks, hash, queue, prefetchVars>>

Respond(f) ==
    /\ pc[f] = "done"
    /\ pc' = [pc EXCEPT ![f] = "idle"]
    /\ hash' = [hash EXCEPT ![f] = NoHash]
    /\ body' = [body EXCEPT ![f] = "empty"]
    /\ status' = [status EXCEPT ![f] = 0]
    /\ UNCHANGED <<blocks, db, server, queue, prefetchVars>>

-----------------------------------------------------------------------------
(* The prefetcher                                                          *)

(* The accepted socket is never closed.                                    *)
PrefetchAccept ==
    /\ ppc = "accept"
    /\ queue > 0
    /\ files < MaxFiles
    /\ queue' = queue - 1
    /\ files' = files + 1
    /\ ppc' = "lookup"
    /\ UNCHANGED <<blocks, db, server, fetchVars, recent, retrieve, block>>

(* recent_hashes answered a list                                           *)
LookUpRecentHashes ==
    /\ ppc = "lookup"
    /\ \E l \in RecentLists : recent' = l
    /\ ppc' = "pick"
    /\ UNCHANGED <<blocks, db, server, fetchVars, queue, retrieve, block,
                   files>>

(* no answer, or one that is not JSON                                      *)
LookUpFails ==
    /\ "http" \in Faults
    /\ ppc = "lookup"
    /\ ppc' = "accept"
    /\ UNCHANGED <<blocks, db, server, fetchVars, queue, recent, retrieve,
                   block, files>>

PickHash ==
    /\ ppc = "pick"
    /\ recent # <<>>
    /\ \E ok \in BOOLEAN, v \in Values :
          /\ GetMessage(Head(recent), ok, v)
          /\ retrieve' = IF ok THEN retrieve ELSE Append(retrieve, Head(recent))
    /\ recent' = Tail(recent)
    /\ UNCHANGED <<blocks, fetchVars, queue, ppc, block, files>>

PickDone ==
    /\ ppc = "pick"
    /\ recent = <<>>
    /\ ppc' = "fetch"
    /\ UNCHANGED <<blocks, db, server, fetchVars, queue, recent, retrieve,
                   block, files>>

(* mutant of Prefetch: the status of the answer is not looked at           *)
PrefetchAnyAnswer ==
    /\ ppc = "fetch"
    /\ retrieve # <<>>
    /\ block' = IF Head(retrieve) \in blocks THEN "block" ELSE "error"
    /\ ppc' = "put"
    /\ UNCHANGED <<blocks, db, server, fetchVars, queue, recent, retrieve,
                   files>>

(* the block server answered 200                                           *)
Prefetch ==
    /\ ppc = "fetch"
    /\ retrieve # <<>>
    /\ Head(retrieve) \in blocks
    /\ block' = "block"
    /\ ppc' = "put"
    /\ UNCHANGED <<blocks, db, server, fetchVars, queue, recent, retrieve,
                   files>>

(* mutant of PrefetchFails: a hash that failed is tried again              *)
PrefetchRetries ==
    /\ ppc = "fetch"
    /\ retrieve # <<>>
    /\ Head(retrieve) \notin blocks \/ "http" \in Faults
    /\ UNCHANGED cacheVars

(* ... or anything else: the hash is left out                              *)
PrefetchFails ==
    /\ ppc = "fetch"
    /\ retrieve # <<>>
    /\ Head(retrieve) \notin blocks \/ "http" \in Faults
    /\ retrieve' = Tail(retrieve)
    /\ UNCHANGED <<blocks, db, server, fetchVars, queue, ppc, recent,
                   block, files>>

PrefetchPut ==
    /\ ppc = "put"
    /\ PutMessage(Head(retrieve), block)
    /\ retrieve' = Tail(retrieve)
    /\ block' = "empty"
    /\ ppc' = "fetch"
    /\ UNCHANGED <<blocks, fetchVars, queue, recent, files>>

PrefetchDone ==
    /\ ppc = "fetch"
    /\ retrieve = <<>>
    /\ ppc' = "accept"
    /\ UNCHANGED <<blocks, db, server, fetchVars, queue, recent, retrieve,
                   block, files>>

(* what is left of the prefetcher when its process is gone                 *)
PrefetcherGone ==
    /\ ppc' = "dead"
    /\ recent' = <<>>
    /\ retrieve' = <<>>
    /\ block' = "empty"
    /\ files' = 0
    /\ queue' = 0
    /\ UNCHANGED <<blocks, fetchVars>>

(* accept fails when there are too many open sockets                       *)
AcceptFails ==
    /\ ppc = "accept"
    /\ queue > 0
    /\ files = MaxFiles
    /\ PrefetcherGone
    /\ UNCHANGED <<db, server>>

(* sendLocalMsg cannot connect, and exits                                  *)
PrefetcherExits ==
    /\ ppc = "put" \/ (ppc = "pick" /\ recent # <<>>)
    /\ server = "down"
    /\ PrefetcherGone
    /\ UNCHANGED <<db, server>>

(* the process is killed at any point                                      *)
PrefetcherDies ==
    /\ "crash" \in Faults
    /\ ppc # "dead"
    /\ PrefetcherGone
    /\ CutShort(ppc = "pick" /\ recent # <<>>, ppc = "put",
                Head(retrieve), block)

-----------------------------------------------------------------------------
(* cache_block_store passes a block on to the block server; one that fails *)
(* leaves everything here as it is (Upload has what its client does then)  *)
StoreToBlockServer(h) ==
    /\ blocks' = blocks \cup {h}
    /\ UNCHANGED <<db, server, fetchVars, queue, prefetchVars>>

(* leveldb_server and the prefetcher are started again by hand             *)
StartAgain ==
    \/ /\ server = "down"
       /\ server' = "up"
       /\ UNCHANGED <<blocks, db, fetchVars, queue, prefetchVars>>
    \/ /\ ppc = "dead"
       /\ ppc' = "accept"
       /\ UNCHANGED <<blocks, db, server, fetchVars, queue, recent, retrieve,
                      block, files>>

Handle(f) ==
    \/ AlreadyExists(f) \/ GetBlock(f) \/ FetchBlock(f) \/ FetchFails(f)
    \/ PutBlock(f) \/ SendMsg(f) \/ Unreachable(f) \/ Respond(f)

Prefetcher ==
    \/ PrefetchAccept \/ LookUpRecentHashes \/ LookUpFails
    \/ PickHash \/ PickDone \/ Prefetch \/ PrefetchFails \/ PrefetchPut
    \/ PrefetchDone \/ AcceptFails \/ PrefetcherExits

CacheNext ==
    \/ \E f \in Fetchers :
          \/ \E h \in Hashes : Accept(f, h)
          \/ Reject(f)
          \/ Handle(f)
          \/ HandlerDies(f)
    \/ Prefetcher
    \/ PrefetcherDies
    \/ \E h \in Hashes : StoreToBlockServer(h)
    \/ StartAgain

CacheSpec == CacheInit /\ [][CacheNext]_cacheVars

(* The handlers and the prefetcher run, and the servers they ask answer.   *)
CacheFairSpec ==
    /\ CacheSpec
    /\ \A f \in Fetchers : WF_cacheVars(Handle(f))
    /\ WF_cacheVars(Prefetcher)

-----------------------------------------------------------------------------
(* Type invariant of the cache server.                                     *)
CacheTypeOK ==
    /\ blocks \subseteq Hashes
    /\ db \in [Hashes -> Values \cup {NoValue}]
    /\ server \in {"up", "down"}
    /\ pc \in [Fetchers -> {"idle", "exists", "get", "fetch", "put",
                            "prefetch", "done"}]
    /\ hash \in [Fetchers -> Hashes \cup {NoHash}]
    /\ body \in [Fetchers -> Values]
    /\ status \in [Fetchers -> {0, 200, 400, 500}]
    /\ queue \in 0 .. Backlog
    /\ ppc \in {"accept", "lookup", "pick", "fetch", "put", "dead"}
    /\ recent \in Seq(Hashes)
    /\ retrieve \in Seq(Hashes)
    /\ block \in Values
    /\ files \in 0 .. MaxFiles

(* docs/cache_api.md on cache_block_fetch: it "returns: binary block inside*)
(* response".  An answer with status 200 carries the block, from whichever *)
(* of the two processes that fill the cache it comes.                      *)
ServedBlockIsTheBlock ==
    \A f \in Fetchers :
        pc[f] = "done" /\ status[f] = 200 => body[f] = "block"

(* A block that was served is in the cache, whoever else has written there *)
(* since: the next fetch does not go to the block server.                  *)
ServedBlockIsCached ==
    \A f \in Fetchers :
        pc[f] = "done" /\ status[f] = 200 => db[hash[f]] = "block"

(* leveldb_helper.hpp on alreadyExists: "true if it exists, false if it    *)
(* does not".  A handler that goes on to get a block finds it there.       *)
ExistsMeansCached ==
    \A f \in Fetchers : pc[f] = "get" => db[hash[f]] # NoValue

(* Every fetch ends with an answer, or the death of its process, although  *)
(* leveldb_server serves all of them and the prefetcher one at a time.     *)
FetchEnds == \A f \in Fetchers : (pc[f] # "idle") ~> (pc[f] = "idle")

(* The prefetcher comes back for the next request, or is dead: a block the *)
(* block server does not have must not hold it up.                         *)
PrefetcherReturns == (ppc # "accept") ~> (ppc \in {"accept", "dead"})

-----------------------------------------------------------------------------
(* The inductive invariant, for clients that fetch stored blocks only.     *)

FetcherOK(f) ==
    /\ pc[f] \in {"exists", "get", "fetch", "put", "prefetch"} =>
          hash[f] \in Hashes
    /\ pc[f] \in {"exists", "get", "fetch"} => hash[f] \in blocks
    /\ pc[f] = "get" => db[hash[f]] = "block"
    /\ pc[f] = "put" => body[f] = "block"
    /\ pc[f] \in {"prefetch", "done"} /\ status[f] = 200 =>
          body[f] = "block" /\ hash[f] \in Hashes /\ db[hash[f]] = "block"

CacheInv ==
    /\ CacheTypeOK
    /\ server = "up"
    /\ \A h \in Hashes : db[h] \in {NoValue, "block"}
    /\ \A f \in Fetchers : FetcherOK(f)
    /\ ppc = "put" => retrieve # <<>> /\ block = "block"
=============================================================================

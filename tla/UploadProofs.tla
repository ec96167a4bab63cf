---------------------------- MODULE UploadProofs ----------------------------
(* Committed blocks are stored: proofs about uploads, for any number of    *)
(* clients, handler processes, users, files and blocks, provided the       *)
(* database answers ("db" \notin Faults).                                  *)
EXTENDS Upload, MetaserverProofs, SequenceTheorems

(* The three requests sync.py sends here are requests of the metaserver.   *)
LEMMA ClientRequests ==
    ASSUME NEW c \in Clients, cpc[c] \in {"query", "commit"} => up[c] \in Uploads
    PROVE  /\ \A f \in FileNames :
                [op |-> "file_delete", user |-> UserOf[c], file |-> f] \in FileRequests
           /\ cpc[c] = "query" =>
                [op |-> "block_query", user |-> UserOf[c], hashes |-> up[c].hashes]
                  \in QueryRequests
           /\ cpc[c] = "commit" =>
                [op |-> "file_commit", user |-> UserOf[c], file |-> up[c].file,
                 hashes |-> up[c].hashes, version |-> up[c].version] \in CommitRequests
<1>1. UserOf[c] \in Users
  BY UserOfAssumption
<1>2. cpc[c] \in {"query", "commit"} =>
        up[c].file \in FileNames /\ up[c].hashes \in BlockLists /\ up[c].version \in Versions
  BY DEF Uploads
<1> QED
  BY <1>1, <1>2 DEF FileRequests, QueryRequests, CommitRequests

(* Every step of the composition is a step of the metaserver or leaves the *)
(* metaserver alone.                                                       *)
LEMMA UploadStepIsMetaStep ==
    ASSUME \A c \in Clients : cpc[c] \in {"query", "commit"} => up[c] \in Uploads,
           [UploadNext]_upVars
    PROVE  [MetaNext]_metaVars
<1>1. ASSUME NEW c \in Clients, NEW w \in Workers,
             \/ SendQuery(c, w)
             \/ SendCommit(c, w)
             \/ \E f \in FileNames : SendDelete(c, w, f)
      PROVE  MetaNext
  <2>1. \E r \in Requests : Accept(w, r)
    BY <1>1, ClientRequests DEF SendQuery, SendCommit, SendDelete, Requests
  <2> QED
    BY <2>1 DEF MetaNext
<1>2. ASSUME NEW c \in Clients, NEW w \in Workers,
             QueryAnswered(c, w) \/ CommitAnswered(c, w) \/ DeleteAnswered(c, w)
      PROVE  MetaNext
  BY <1>2 DEF QueryAnswered, CommitAnswered, DeleteAnswered, MetaNext
<1>3. ASSUME NEW c \in Clients,
             \/ \E u \in Uploads : StartUpload(c, u)
             \/ StoreBlock(c) \/ StoreFails(c) \/ ClientDies(c)
      PROVE  UNCHANGED metaVars
  BY <1>3 DEF StartUpload, StoreBlock, StoreFails, ClientDies
<1>4. ASSUME NEW w \in Workers, WorkerStep(w) \/ DropReply(w) PROVE MetaNext
  BY <1>4 DEF WorkerStep, DropReply, MetaNext
<1>5. CASE UNCHANGED upVars
  BY <1>5 DEF upVars
<1> QED
  BY <1>1, <1>2, <1>3, <1>4, <1>5 DEF UploadNext, PatientNext, Send, Receive

-----------------------------------------------------------------------------
(* Steps of the clients alone: the metaserver does not move, blocks grow.  *)

(* A step of a client that leaves the metaserver alone and only adds       *)
(* blocks keeps the invariant if the client itself does.                   *)
LEMMA ClientStep ==
    ASSUME UploadInv, UNCHANGED metaVars, blocks \subseteq blocks',
           UploadTypeOK', AnswersMatchRequests', \A c \in Clients : ClientOK(c)'
    PROVE  UploadInv'
<1>1. MetaInv'
  BY DEF UploadInv, MetaInv, MetaTypeOK, WorkerOK, metaVars
<1>2. \A w \in Workers : WorkerBlocksOK(w)'
  BY DEF UploadInv, WorkerBlocksOK, metaVars
<1>3. CommittedBlocksStored'
  BY DEF UploadInv, CommittedBlocksStored, metaVars
<1> QED
  BY <1>1, <1>2, <1>3 DEF UploadInv

(* Calling upFile keeps the invariant.                                     *)
LEMMA StartUploadInv ==
    ASSUME UploadInv, NEW c \in Clients, NEW u \in Uploads, StartUpload(c, u)
    PROVE  UploadInv'
<1>1. UploadTypeOK'
  BY DEF UploadInv, UploadTypeOK, StartUpload
<1>2. AnswersMatchRequests'
  BY DEF UploadInv, UploadTypeOK, ClientOK, AnswersMatchRequests, StartUpload, metaVars
<1>3. ASSUME NEW d \in Clients PROVE ClientOK(d)'
  BY DEF UploadInv, UploadTypeOK, ClientOK, StartUpload
<1> QED
  BY <1>1, <1>2, <1>3, ClientStep DEF StartUpload

(* The block at the head of needed is stored: the rest still is needed.    *)
LEMMA HeadAndTail ==
    ASSUME NEW s \in Seq(Hashes), s # <<>>
    PROVE  /\ Head(s) \in Hashes
           /\ Tail(s) \in Seq(Hashes)
           /\ Range(s) \subseteq {Head(s)} \cup Range(Tail(s))
           /\ Len(s) = 1 => Range(s) \subseteq {Head(s)}
           /\ Len(s) # 1 => Tail(s) # <<>>
<1>1. Head(s) \in Hashes /\ Tail(s) \in Seq(Hashes) /\ Len(Tail(s)) = Len(s) - 1
  BY HeadTailProperties
<1>2. ASSUME NEW h \in Range(s) PROVE h \in {Head(s)} \cup Range(Tail(s))
  <2>1. PICK j \in 1 .. Len(s) : h = s[j]
    BY DEF Range
  <2>2. CASE j = 1
    BY <2>1, <2>2
  <2>3. CASE j # 1
    <3>1. j - 1 \in DOMAIN Tail(s) /\ Tail(s)[j - 1] = s[j]
      BY <2>3
    <3> QED
      BY <2>1, <3>1 DEF Range
  <2> QED
    BY <2>2, <2>3
<1>3. Len(s) = 1 => Range(s) \subseteq {Head(s)}
  BY DEF Range
<1>4. Len(s) # 1 => Tail(s) # <<>>
  BY <1>1
<1> QED
  BY <1>1, <1>2, <1>3, <1>4

(* Appending a hash adds it to the range.                                  *)
LEMMA AppendRange ==
    ASSUME NEW s \in Seq(Hashes), NEW h \in Hashes
    PROVE  Range(Append(s, h)) = Range(s) \cup {h}
<1> DEFINE t == Append(s, h)
<1>1. /\ t \in Seq(Hashes) /\ Len(t) = Len(s) + 1 /\ t[Len(s) + 1] = h
      /\ \A j \in 1 .. Len(s) : t[j] = s[j]
  OBVIOUS
<1>2. /\ DOMAIN t = 1 .. Len(s) + 1 /\ DOMAIN s = 1 .. Len(s) /\ Len(s) \in Nat
  BY <1>1
<1> HIDE DEF t
<1>3. ASSUME NEW x \in Range(t) PROVE x \in Range(s) \cup {h}
  BY <1>1, <1>2 DEF Range
<1>4. ASSUME NEW x \in Range(s) \cup {h} PROVE x \in Range(t)
  BY <1>1, <1>2 DEF Range
<1>5. Range(t) = Range(s) \cup {h}
  BY <1>3, <1>4
<1> QED
  BY <1>5 DEF t

(* Storing the next needed block keeps the invariant; after the last one   *)
(* every block of the file is stored.                                      *)
LEMMA StoreBlockInv ==
    ASSUME UploadInv, NEW c \in Clients, StoreBlock(c)
    PROVE  UploadInv'
<1>1. needed[c] \in Seq(Hashes) /\ needed[c] # <<>>
  BY DEF UploadInv, UploadTypeOK, ClientOK, StoreBlock
<1>2. UploadTypeOK'
  BY <1>1, HeadAndTail DEF UploadInv, UploadTypeOK, StoreBlock
<1>3. AnswersMatchRequests'
  BY DEF UploadInv, UploadTypeOK, ClientOK, AnswersMatchRequests, StoreBlock, metaVars
<1>4. ASSUME NEW d \in Clients PROVE ClientOK(d)'
  <2>1. CASE d # c
    BY <2>1 DEF UploadInv, UploadTypeOK, ClientOK, StoreBlock
  <2>2. CASE d = c
    BY <2>2, <1>1, HeadAndTail DEF UploadInv, UploadTypeOK, ClientOK, StoreBlock
  <2> QED
    BY <2>1, <2>2
<1> QED
  BY <1>2, <1>3, <1>4, ClientStep DEF StoreBlock

(* A failed block_store and the death of a client keep the invariant, with *)
(* or without the block stored.                                            *)
LEMMA LeaveInv ==
    ASSUME UploadInv, NEW c \in Clients, StoreFails(c) \/ ClientDies(c)
    PROVE  UploadInv'
<1>1. blocks \subseteq blocks' /\ blocks' \subseteq Hashes
  BY HeadAndTail DEF UploadInv, UploadTypeOK, ClientOK, StoreFails, ClientDies
<1>2. UploadTypeOK'
  <2>1. /\ LeaveUpFile(c)
        /\ server' \in [Clients -> Workers \cup {NoWorker}]
    BY DEF UploadInv, UploadTypeOK, StoreFails, ClientDies
  <2> QED
    BY <1>1, <2>1, <<>> \in Seq(Hashes) DEF UploadInv, UploadTypeOK, LeaveUpFile
<1>3. AnswersMatchRequests'
  BY DEF UploadInv, UploadTypeOK, ClientOK, AnswersMatchRequests, StoreFails, ClientDies,
         LeaveUpFile, metaVars
<1>4. ASSUME NEW d \in Clients PROVE ClientOK(d)'
  BY <1>1 DEF UploadInv, UploadTypeOK, ClientOK, StoreFails, ClientDies, LeaveUpFile
<1> QED
  BY <1>1, <1>2, <1>3, <1>4, ClientStep DEF StoreFails, ClientDies

-----------------------------------------------------------------------------
(* Requests: client c hands request r to worker w and goes to p.           *)

(* Handing a request of the client to an idle worker keeps the invariant.  *)
LEMMA SendInv ==
    ASSUME UploadInv, MetaInv', NEW c \in Clients, NEW w \in Workers,
           NEW r \in Requests, Accept(w, r), server[c] = NoWorker,
           r.user = UserOf[c],
           NEW p \in {"query", "commit", "delete"},
           cpc' = [cpc EXCEPT ![c] = p], server' = [server EXCEPT ![c] = w],
           UNCHANGED <<blocks, up, needed>>,
           p # "delete" => cpc[c] = p,
           p = "query" => r.op = "block_query" /\ r.hashes = up[c].hashes,
           p = "commit" => r.op = "file_commit" /\ r.hashes = up[c].hashes
                             /\ r.version = up[c].version,
           r.op = "file_commit" => Range(r.hashes) \subseteq blocks
    PROVE  UploadInv'
<1>1. UploadTypeOK'
  BY DEF UploadInv, UploadTypeOK
<1>2. pc[w] = "idle" /\ pc'[w] # "idle" /\ pc'[w] # "done" /\ req'[w] = r
  BY StatementOfRequest DEF Accept, MayServe, UploadInv, MetaInv, MetaTypeOK
<1>3. \A d \in Clients : server[d] # w
  BY <1>2, NoWorkerAssumption DEF UploadInv, AnswersMatchRequests
<1>4. \A x \in Workers \ {w} : pc'[x] = pc[x] /\ req'[x] = req[x]
  BY DEF Accept, UploadInv, MetaInv, MetaTypeOK
<1>5. AnswersMatchRequests'
  <2> SUFFICES ASSUME NEW d \in Clients, server'[d] # NoWorker
               PROVE  LET x == server'[d]
                      IN  /\ pc'[x] # "idle"
                          /\ req'[x].user = UserOf[d]
                          /\ cpc'[d] = "query" =>
                                /\ req'[x].op = "block_query"
                                /\ req'[x].hashes = up'[d].hashes
                          /\ cpc'[d] = "commit" =>
                                /\ req'[x].op = "file_commit"
                                /\ req'[x].hashes = up'[d].hashes
                                /\ req'[x].version = up'[d].version
                          /\ \A e \in Clients \ {d} : server'[e] # x
    BY DEF AnswersMatchRequests
  <2>1. CASE d = c
    BY <1>2, <1>3, <2>1 DEF UploadInv, UploadTypeOK
  <2>2. CASE d # c
    <3>1. server'[d] = server[d] /\ server[d] \in Workers \ {w} /\ cpc'[d] = cpc[d]
      BY <1>3, <2>2 DEF UploadInv, UploadTypeOK
    <3>2. \A e \in Clients \ {d} : server'[e] # server[d]
      BY <1>3, <2>2, <3>1 DEF UploadInv, UploadTypeOK, AnswersMatchRequests
    <3> QED
      BY <1>4, <3>1, <3>2 DEF UploadInv, AnswersMatchRequests
  <2> QED
    BY <2>1, <2>2
<1>6. ASSUME NEW d \in Clients PROVE ClientOK(d)'
  BY DEF UploadInv, UploadTypeOK, ClientOK
<1>7. ASSUME NEW x \in Workers PROVE WorkerBlocksOK(x)'
  <2>1. CASE x = w
    <3>1. pc'[w] \in {"select", "delete", "insert"} => r.op = "file_commit"
      BY StatementOfRequest DEF Accept, UploadInv, MetaInv, MetaTypeOK, CommitRequests
    <3>2. i'[w] = 0
      BY <1>2 DEF Accept, UploadInv, MetaInv, WorkerOK
    <3> QED
      BY <1>2, <2>1, <3>1, <3>2 DEF WorkerBlocksOK
  <2>2. CASE x # w
    BY <1>4, <2>2 DEF Accept, UploadInv, WorkerBlocksOK
  <2> QED
    BY <2>1, <2>2
<1>8. CommittedBlocksStored'
  BY DEF Accept, UploadInv, CommittedBlocksStored
<1> QED
  BY <1>1, <1>5, <1>6, <1>7, <1>8 DEF UploadInv

(* The three requests of sync.py are such requests.                        *)
LEMMA SendsInv ==
    ASSUME UploadInv, MetaInv', NEW c \in Clients, NEW w \in Workers,
           \/ SendQuery(c, w)
           \/ SendCommit(c, w)
           \/ \E f \in FileNames : SendDelete(c, w, f)
    PROVE  UploadInv'
<1>0. cpc[c] \in {"query", "commit"} => up[c] \in Uploads
  BY DEF UploadInv, ClientOK
<1>1. CASE SendQuery(c, w)
  <2> DEFINE r == [op |-> "block_query", user |-> UserOf[c], hashes |-> up[c].hashes]
  <2>1. /\ r \in Requests /\ r.user = UserOf[c]
        /\ r.op = "block_query" /\ r.hashes = up[c].hashes
    BY <1>1, <1>0, ClientRequests DEF SendQuery, Requests
  <2>2. /\ Accept(w, r) /\ server[c] = NoWorker /\ cpc[c] = "query"
        /\ cpc' = [cpc EXCEPT ![c] = "query"] /\ server' = [server EXCEPT ![c] = w]
        /\ UNCHANGED <<blocks, up, needed>>
    BY <1>1 DEF SendQuery, UploadInv, UploadTypeOK
  <2> HIDE DEF r
  <2> QED
    BY <2>1, <2>2, SendInv
<1>2. CASE SendCommit(c, w)
  <2> DEFINE r == [op |-> "file_commit", user |-> UserOf[c], file |-> up[c].file,
                   hashes |-> up[c].hashes, version |-> up[c].version]
  <2>1. /\ r \in Requests /\ r.user = UserOf[c] /\ r.op = "file_commit"
        /\ r.hashes = up[c].hashes /\ r.version = up[c].version
    BY <1>2, <1>0, ClientRequests DEF SendCommit, Requests
  <2>2. /\ Accept(w, r) /\ server[c] = NoWorker /\ cpc[c] = "commit"
        /\ cpc' = [cpc EXCEPT ![c] = "commit"] /\ server' = [server EXCEPT ![c] = w]
        /\ UNCHANGED <<blocks, up, needed>>
    BY <1>2 DEF SendCommit, UploadInv, UploadTypeOK
  <2>3. Range(up[c].hashes) \subseteq blocks
    BY <2>2 DEF UploadInv, ClientOK
  <2> HIDE DEF r
  <2> QED
    BY <2>1, <2>2, <2>3, SendInv
<1>3. ASSUME NEW f \in FileNames, SendDelete(c, w, f) PROVE UploadInv'
  <2> DEFINE r == [op |-> "file_delete", user |-> UserOf[c], file |-> f]
  <2>1. r \in Requests /\ r.user = UserOf[c] /\ r.op = "file_delete"
    BY <1>0, ClientRequests DEF Requests
  <2>2. /\ Accept(w, r) /\ server[c] = NoWorker
        /\ cpc' = [cpc EXCEPT ![c] = "delete"] /\ server' = [server EXCEPT ![c] = w]
        /\ UNCHANGED <<blocks, up, needed>>
    BY <1>3 DEF SendDelete, UploadInv, ClientOK
  <2> HIDE DEF r
  <2> QED
    BY <2>1, <2>2, SendInv
<1> QED
  BY <1>1, <1>2, <1>3

-----------------------------------------------------------------------------
(* Answers: worker w becomes idle, whoever waited for it stops waiting.    *)

(* A worker that answers leaves the invariant to the other clients.        *)
LEMMA RespondInv ==
    ASSUME UploadInv, MetaInv', NEW w \in Workers, Respond(w), UNCHANGED blocks,
           UploadTypeOK', \A c \in Clients : ClientOK(c)',
           \A c \in Clients : server'[c] # w,
           \A c \in Clients : server'[c] # NoWorker =>
               server'[c] = server[c] /\ cpc'[c] = cpc[c] /\ up'[c] = up[c]
    PROVE  UploadInv'
<1>1. \A x \in Workers \ {w} : pc'[x] = pc[x] /\ req'[x] = req[x] /\ i'[x] = i[x]
          /\ missing'[x] = missing[x] /\ reply'[x] = reply[x]
  BY DEF Respond, UploadInv, MetaInv, MetaTypeOK
<1>2. AnswersMatchRequests'
  <2> SUFFICES ASSUME NEW d \in Clients, server'[d] # NoWorker
               PROVE  LET x == server'[d]
                      IN  /\ pc'[x] # "idle"
                          /\ req'[x].user = UserOf[d]
                          /\ cpc'[d] = "query" =>
                                /\ req'[x].op = "block_query"
                                /\ req'[x].hashes = up'[d].hashes
                          /\ cpc'[d] = "commit" =>
                                /\ req'[x].op = "file_commit"
                                /\ req'[x].hashes = up'[d].hashes
                                /\ req'[x].version = up'[d].version
                          /\ \A e \in Clients \ {d} : server'[e] # x
    BY DEF AnswersMatchRequests
  <2>1. server'[d] = server[d] /\ server[d] \in Workers \ {w}
    BY DEF UploadTypeOK
  <2> QED
    BY <1>1, <2>1 DEF UploadInv, AnswersMatchRequests
<1>3. ASSUME NEW x \in Workers PROVE WorkerBlocksOK(x)'
  <2>1. CASE x = w
    BY <2>1 DEF Respond, UploadInv, MetaInv, MetaTypeOK, WorkerBlocksOK
  <2>2. CASE x # w
    BY <1>1, <2>2 DEF UploadInv, WorkerBlocksOK
  <2> QED
    BY <2>1, <2>2
<1>4. CommittedBlocksStored'
  BY DEF Respond, UploadInv, CommittedBlocksStored
<1> QED
  BY <1>2, <1>3, <1>4 DEF UploadInv

(* A client that reads its answer keeps the invariant: it goes on with the *)
(* blocks block_query named.                                               *)
LEMMA AnswersInv ==
    ASSUME UploadInv, MetaInv', NEW c \in Clients, NEW w \in Workers,
           QueryAnswered(c, w) \/ CommitAnswered(c, w) \/ DeleteAnswered(c, w)
    PROVE  UploadInv'
<1>1. /\ server[c] = w /\ server' = [server EXCEPT ![c] = NoWorker]
      /\ Respond(w) /\ UNCHANGED blocks
      /\ \A d \in Clients \ {c} : cpc'[d] = cpc[d] /\ up'[d] = up[d] /\ needed'[d] = needed[d]
  BY DEF QueryAnswered, CommitAnswered, DeleteAnswered, LeaveUpFile, UploadInv, UploadTypeOK
<1>2. /\ \A d \in Clients : server'[d] # w
      /\ \A d \in Clients : server'[d] # NoWorker => d # c /\ server'[d] = server[d]
  BY <1>1, NoWorkerAssumption DEF UploadInv, UploadTypeOK, AnswersMatchRequests
<1>3. CASE QueryAnswered(c, w) /\ reply[w].status = 200
  <2>1. /\ reply[w].needed \in Seq(Hashes)
        /\ Range(up[c].hashes) \subseteq blocks \cup Range(reply[w].needed)
    <3>1. pc[w] = "done" /\ req[w].op = "block_query" /\ req[w].hashes = up[c].hashes
      BY <1>3, NoWorkerAssumption DEF QueryAnswered, Respond, UploadInv, AnswersMatchRequests
    <3> QED
      BY <1>3, <3>1 DEF UploadInv, WorkerBlocksOK
  <2>2. /\ cpc' = [cpc EXCEPT ![c] = IF reply[w].needed = <<>> THEN "commit" ELSE "store"]
        /\ needed' = [needed EXCEPT ![c] = reply[w].needed]
        /\ up' = up /\ up[c] \in Uploads
    BY <1>3 DEF QueryAnswered, UploadInv, ClientOK
  <2>3. UploadTypeOK'
    BY <1>1, <2>1, <2>2 DEF UploadInv, UploadTypeOK
  <2>4. ASSUME NEW d \in Clients PROVE ClientOK(d)'
    <3>1. CASE d = c
      <4>1. /\ cpc'[c] = IF reply[w].needed = <<>> THEN "commit" ELSE "store"
            /\ needed'[c] = reply[w].needed /\ server'[c] = NoWorker /\ blocks' = blocks
        BY <1>1, <2>2 DEF UploadInv, UploadTypeOK
      <4>2. reply[w].needed = <<>> => Range(reply[w].needed) = {}
        BY DEF Range
      <4> QED
        BY <2>1, <2>2, <3>1, <4>1, <4>2 DEF ClientOK
    <3>2. CASE d # c
      BY <1>1, <3>2 DEF UploadInv, UploadTypeOK, ClientOK
    <3> QED
      BY <3>1, <3>2
  <2> QED
    BY <1>1, <1>2, <2>3, <2>4, RespondInv
<1>4. CASE ~(QueryAnswered(c, w) /\ reply[w].status = 200)
  <2>1. /\ cpc' = [cpc EXCEPT ![c] = "idle"]
        /\ up' = [up EXCEPT ![c] = NoUpload] \/ up' = up
        /\ needed' = [needed EXCEPT ![c] = <<>>] \/ needed' = needed
    BY <1>4 DEF QueryAnswered, CommitAnswered, DeleteAnswered, LeaveUpFile
  <2>2. UploadTypeOK'
    <3>1. up' \in [Clients -> Uploads \cup {NoUpload}]
      BY <2>1 DEF UploadInv, UploadTypeOK
    <3>2. needed' \in [Clients -> Seq(Hashes)]
      BY <2>1, <<>> \in Seq(Hashes) DEF UploadInv, UploadTypeOK
    <3> QED
      BY <1>1, <2>1, <3>1, <3>2 DEF UploadInv, UploadTypeOK
  <2>3. ASSUME NEW d \in Clients PROVE ClientOK(d)'
    BY <1>1, <2>1 DEF UploadInv, UploadTypeOK, ClientOK
  <2> QED
    BY <1>1, <1>2, <2>2, <2>3, RespondInv
<1> QED
  BY <1>3, <1>4

(* An answer nobody waits for keeps the invariant.                         *)
LEMMA DropReplyInv ==
    ASSUME UploadInv, MetaInv', NEW w \in Workers, DropReply(w)
    PROVE  UploadInv'
<1>1. UploadTypeOK' /\ \A c \in Clients : ClientOK(c)'
  BY DEF DropReply, clientVars, UploadInv, UploadTypeOK, ClientOK
<1> QED
  BY <1>1, RespondInv DEF DropReply, clientVars

-----------------------------------------------------------------------------
(* Steps of the workers                                                    *)

(* The blocks a worker relies on, after its own step.                      *)
LEMMA WorkBlocks ==
    ASSUME "db" \notin Faults, UploadInv, NEW w \in Workers, Work(w) \/ Crash(w),
           UNCHANGED blocks
    PROVE  WorkerBlocksOK(w)'
<1> USE DEF MetaInv, MetaTypeOK
<1>1. CASE VersionAccepted(w) \/ DeleteOldRows(w) \/ InsertRow(w)
  BY <1>1 DEF VersionAccepted, DeleteOldRows, InsertRow, UploadInv, WorkerBlocksOK
<1>2. CASE \/ VersionRefused(w) \/ CommitDone(w) \/ CommitFails(w)
           \/ ReadBlockList(w) \/ ReadFileList(w) \/ RemoveFile(w) \/ ReadRecentHashes(w)
  <2>1. pc'[w] = "done" /\ req[w].op # "block_query" /\ req' = req
    BY <1>2 DEF VersionRefused, CommitDone, CommitFails, ReadBlockList, ReadFileList,
                RemoveFile, ReadRecentHashes, Answer, UploadInv, WorkerOK,
                CommitRequests, FileRequests, ListRequests, RecentRequests
  <2> QED
    BY <2>1 DEF WorkerBlocksOK
<1>3. CASE FreeUninitialised(w) \/ RequestFails(w) \/ Crash(w)
  <2>1. pc'[w] = "done" /\ reply'[w].status # 200
    BY <1>3, ReplyStatus DEF FreeUninitialised, RequestFails, Crash, DiesBetween,
                             DiesAfterRemove, Answer, UploadInv
  <2> QED
    BY <2>1 DEF WorkerBlocksOK
<1>4. CASE QueryHash(w)
  <2> DEFINE h == req[w].hashes[i[w] + 1]
  <2>1. /\ req[w] \in QueryRequests /\ missing[w] \in Seq(Hashes) /\ i[w] \in Nat
        /\ i'[w] = i[w] + 1 /\ pc'[w] = "query" /\ req' = req
    BY <1>4 DEF QueryHash, UploadInv, WorkerOK
  <2>2. h \in Hashes
    BY <1>4, <2>1, HashesTyped DEF QueryHash
  <2>3. \A j \in 1 .. i[w] : req[w].hashes[j] \in blocks \cup Range(missing[w])
    BY <1>4 DEF QueryHash, UploadInv, WorkerBlocksOK
  <2>4. CASE InTable(h)
    <3>1. h \in blocks /\ missing' = missing
      BY <1>4, <2>4 DEF QueryHash, InTable, UploadInv, CommittedBlocksStored
    <3> QED
      BY <2>1, <2>3, <3>1 DEF WorkerBlocksOK
  <2>5. CASE ~InTable(h)
    <3>1. missing'[w] = Append(missing[w], h)
      BY <1>4, <2>5 DEF QueryHash, UploadInv
    <3>2. Range(missing'[w]) = Range(missing[w]) \cup {h}
      BY <2>1, <2>2, <3>1, AppendRange
    <3> QED
      BY <2>1, <2>3, <3>2 DEF WorkerBlocksOK
  <2> QED
    BY <2>4, <2>5
<1>5. CASE QueryDone(w)
  <2>1. /\ req[w] \in QueryRequests /\ missing[w] \in Seq(Hashes)
        /\ i[w] = Len(req[w].hashes) /\ pc'[w] = "done" /\ req' = req
        /\ reply'[w].needed = missing[w]
    BY <1>5 DEF QueryDone, Answer, QueryReply, UploadInv, WorkerOK
  <2>2. \A j \in 1 .. i[w] : req[w].hashes[j] \in blocks \cup Range(missing[w])
    BY <1>5 DEF QueryDone, UploadInv, WorkerBlocksOK
  <2>3. Range(req[w].hashes) \subseteq blocks \cup Range(missing[w])
    <3>1. DOMAIN req[w].hashes = 1 .. i[w]
      BY <2>1, HashesTyped
    <3> QED
      BY <2>2, <3>1 DEF Range
  <2> QED
    BY <2>1, <2>3 DEF WorkerBlocksOK
<1> QED
  BY <1>1, <1>2, <1>3, <1>4, <1>5 DEF Work, Serve, StatementFails, QueryFails

(* Rows appear only by InsertRow, which inserts a block of its request.    *)
LEMMA WorkCommitted ==
    ASSUME UploadInv, NEW w \in Workers, Work(w) \/ Crash(w), UNCHANGED blocks
    PROVE  CommittedBlocksStored'
<1> USE DEF MetaInv, MetaTypeOK
<1>1. CASE InsertRow(w)
  <2> DEFINE k == Key(req[w])
             row == NewRow(req[w], i[w])
  <2>1. req[w] \in CommitRequests /\ i[w] \in Nat /\ i[w] < Len(req[w].hashes)
    BY <1>1 DEF InsertRow, UploadInv, WorkerOK
  <2>2. row.hash \in blocks
    <3>1. i[w] + 1 \in DOMAIN req[w].hashes
      BY <2>1, HashesTyped
    <3>2. req[w].hashes[i[w] + 1] \in blocks
      BY <1>1, <3>1 DEF InsertRow, UploadInv, WorkerBlocksOK, Range
    <3> QED
      BY <3>2 DEF NewRow
  <2>3. k \in Keys /\ fileBlock[k] \in Seq(Row)
    BY <2>1 DEF UploadInv, CommitRequests, Key, Keys
  <2>4. /\ fileBlock'[k] = Append(fileBlock[k], row)
        /\ \A q \in Keys \ {k} : fileBlock'[q] = fileBlock[q]
    BY <1>1, <2>3 DEF InsertRow, UploadInv
  <2> HIDE DEF row, k
  <2>5. ASSUME NEW j \in DOMAIN fileBlock'[k] PROVE fileBlock'[k][j].hash \in blocks
    <3>1. \/ j \in DOMAIN fileBlock[k] /\ fileBlock'[k][j] = fileBlock[k][j]
          \/ fileBlock'[k][j] = row
      BY <2>3, <2>4
    <3> QED
      BY <2>2, <2>3, <3>1 DEF UploadInv, CommittedBlocksStored
  <2> QED
    BY <2>4, <2>5 DEF UploadInv, CommittedBlocksStored
<1>2. CASE DeleteOldRows(w) \/ RemoveFile(w) \/ DiesAfterRemove(w)
  <2>1. \A q \in Keys : fileBlock'[q] = fileBlock[q] \/ fileBlock'[q] = <<>>
    BY <1>2 DEF DeleteOldRows, RemoveFile, DiesAfterRemove, UploadInv
  <2>2. ASSUME NEW q \in Keys, NEW j \in DOMAIN fileBlock'[q]
        PROVE  fileBlock'[q][j].hash \in blocks
    <3>1. fileBlock'[q] # <<>>
      OBVIOUS
    <3> QED
      BY <2>1, <3>1 DEF UploadInv, CommittedBlocksStored
  <2> QED
    BY <2>2 DEF CommittedBlocksStored
<1>3. CASE UNCHANGED fileBlock
  BY <1>3 DEF UploadInv, CommittedBlocksStored
<1> QED
  BY <1>1, <1>2, <1>3 DEF Work, Serve, StatementFails, VersionAccepted, VersionRefused,
     CommitDone, CommitFails,
     QueryHash, QueryDone, FreeUninitialised, QueryFails, ReadBlockList, ReadFileList,
     ReadRecentHashes, RequestFails, Crash, DiesBetween

(* Every statement of a worker keeps the invariant if the database         *)
(* answers.                                                                *)
LEMMA WorkerStepInv ==
    ASSUME "db" \notin Faults, UploadInv, MetaInv', NEW w \in Workers, WorkerStep(w)
    PROVE  UploadInv'
<1>1. (Work(w) \/ Crash(w)) /\ UNCHANGED clientVars
  BY DEF WorkerStep
<1>2. UploadTypeOK' /\ \A c \in Clients : ClientOK(c)'
  BY <1>1 DEF clientVars, UploadInv, UploadTypeOK, ClientOK
<1>3. AnswersMatchRequests'
  <2>1. /\ req' = req /\ \A x \in Workers : pc[x] # "idle" => pc'[x] # "idle"
    BY <1>1, WorkFrame DEF UploadInv
  <2> QED
    BY <1>1, <2>1 DEF clientVars, UploadInv, UploadTypeOK, AnswersMatchRequests
<1>4. ASSUME NEW x \in Workers PROVE WorkerBlocksOK(x)'
  <2>1. CASE x = w
    BY <1>1, <2>1, WorkBlocks DEF clientVars
  <2>2. CASE x # w
    BY <1>1, <2>2, WorkFrame DEF clientVars, UploadInv, WorkerBlocksOK
  <2> QED
    BY <2>1, <2>2
<1>5. CommittedBlocksStored'
  BY <1>1, WorkCommitted DEF clientVars
<1> QED
  BY <1>2, <1>3, <1>4, <1>5 DEF UploadInv

-----------------------------------------------------------------------------
(* The empty system satisfies the invariant.                               *)
LEMMA UploadInitInv == UploadInit => UploadInv
<1> SUFFICES ASSUME UploadInit PROVE UploadInv
  OBVIOUS
<1>1. MetaInv
  BY MetaInitInv DEF UploadInit
<1>2. UploadTypeOK
  BY DEF UploadInit, UploadTypeOK
<1>3. AnswersMatchRequests /\ \A c \in Clients : ClientOK(c)
  BY DEF UploadInit, AnswersMatchRequests, ClientOK
<1>4. CommittedBlocksStored /\ \A w \in Workers : WorkerBlocksOK(w)
  BY DEF UploadInit, MetaInit, CommittedBlocksStored, WorkerBlocksOK
<1> QED
  BY <1>1, <1>2, <1>3, <1>4 DEF UploadInv

(* Every step of the composition keeps the invariant.                      *)
LEMMA UploadNextInv ==
    ASSUME "db" \notin Faults, UploadInv, [UploadNext]_upVars
    PROVE  UploadInv'
<1>1. MetaInv'
  BY UploadStepIsMetaStep, MetaNextInv DEF UploadInv, ClientOK
<1>2. CASE UNCHANGED upVars
  <2>1. UploadTypeOK' /\ AnswersMatchRequests' /\ \A c \in Clients : ClientOK(c)'
    BY <1>2 DEF upVars, metaVars, clientVars, UploadInv, UploadTypeOK,
                AnswersMatchRequests, ClientOK
  <2> QED
    BY <1>2, <2>1, ClientStep DEF upVars, clientVars
<1>3. CASE UploadNext
  BY <1>1, <1>3, StartUploadInv, StoreBlockInv, LeaveInv, SendsInv, AnswersInv,
     DropReplyInv, WorkerStepInv DEF UploadNext, PatientNext, Send, Receive
<1> QED
  BY <1>2, <1>3

(* As long as the database answers, every block of every committed row is  *)
(* on the block server, whatever clients and handlers die and however      *)
(* their requests overlap.                                                 *)
THEOREM CommittedStored ==
    ASSUME "db" \notin Faults
    PROVE  UploadSpec => []CommittedBlocksStored
<1>1. UploadInv /\ [UploadNext]_upVars => UploadInv'
  BY UploadNextInv
<1>2. UploadInv => CommittedBlocksStored
  BY DEF UploadInv
<1> QED
  BY <1>1, <1>2, UploadInitInv, PTL DEF UploadSpec

(* As long as the database answers, a 200 answer of block_query leaves out *)
(* only blocks the block server has.                                       *)
THEOREM QueryAnswersComplete ==
    ASSUME "db" \notin Faults
    PROVE  UploadSpec => []QueryNamesEveryMissingBlock
<1>1. UploadInv /\ [UploadNext]_upVars => UploadInv'
  BY UploadNextInv
<1>2. UploadInv => QueryNamesEveryMissingBlock
  BY DEF UploadInv, WorkerBlocksOK, QueryNamesEveryMissingBlock
<1> QED
  BY <1>1, <1>2, UploadInitInv, PTL DEF UploadSpec
=============================================================================

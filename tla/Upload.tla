------------------------------- MODULE Upload -------------------------------
(***************************************************************************)
(* How a file gets into balabox: upFile of client/sync.py asks block_query *)
(* which blocks are needed, sends those to the block server, and commits   *)
(* the block list.  Several clients do so at the same time, any of them    *)
(* may be killed between two steps (its last request is then served        *)
(* without it), and block_query counts the rows of all users, so one       *)
(* client relies on blocks that another one uploaded.                      *)
(*                                                                         *)
(* The block server is abstracted to the set of hashes it stores (see      *)
(* BlockServer); the metaserver is the one of module Metaserver.           *)
(***************************************************************************)
EXTENDS Metaserver, Functions

CONSTANTS Clients,            \* running copies of sync.py
          UserOf,             \* the user each of them is started for
          NoUpload, NoWorker  \* values of up and server of a client

ASSUME UserOfAssumption == UserOf \in [Clients -> Users]
ASSUME NoWorkerAssumption == NoWorker \notin Workers

VARIABLES
    blocks,  \* the hashes the block server stores
    cpc,     \* where each client is in upFile
    up,      \* the file, block list and version being uploaded
    needed,  \* the needed_blocks not yet sent
    server   \* the worker serving the client's outstanding request

clientVars == <<blocks, cpc, up, needed, server>>
upVars == <<metaVars, clientVars>>

Uploads == [file : FileNames, hashes : BlockLists, version : Versions]

UploadInit ==
    /\ MetaInit
    /\ blocks = {}
    /\ cpc = [c \in Clients |-> "idle"]
    /\ up = [c \in Clients |-> NoUpload]
    /\ needed = [c \in Clients |-> <<>>]
    /\ server = [c \in Clients |-> NoWorker]

-----------------------------------------------------------------------------
(* upFile returns, or the process is gone                                  *)
LeaveUpFile(c) ==
    /\ cpc' = [cpc EXCEPT ![c] = "idle"]
    /\ up' = [up EXCEPT ![c] = NoUpload]
    /\ needed' = [needed EXCEPT ![c] = <<>>]

(* The main loop calls upFile for a file whose blocks hash to u.hashes.    *)
StartUpload(c, u) ==
    /\ cpc[c] = "idle"
    /\ cpc' = [cpc EXCEPT ![c] = "query"]
    /\ up' = [up EXCEPT ![c] = u]
    /\ UNCHANGED <<metaVars, blocks, needed, server>>

(* getBlockQuery sends its request                                         *)
SendQuery(c, w) ==
    /\ cpc[c] = "query"
    /\ server[c] = NoWorker
    /\ Accept(w, [op |-> "block_query", user |-> UserOf[c],
                  hashes |-> up[c].hashes])
    /\ server' = [server EXCEPT ![c] = w]
    /\ UNCHANGED <<blocks, cpc, up, needed>>

(* ... and gets the answer: None (upFile returns False), nb false (commit  *)
(* at once) or the blocks to send                                          *)
QueryAnswered(c, w) ==
    /\ cpc[c] = "query"
    /\ server[c] = w
    /\ Respond(w)
    /\ server' = [server EXCEPT ![c] = NoWorker]
    /\ \/ /\ reply[w].status # 200
          /\ LeaveUpFile(c)
       \/ /\ reply[w].status = 200
          /\ cpc' = [cpc EXCEPT ![c] =
                        IF reply[w].needed = <<>> THEN "commit" ELSE "store"]
          /\ needed' = [needed EXCEPT ![c] = reply[w].needed]
          /\ UNCHANGED up
    /\ UNCHANGED blocks

(* mutant of StoreBlock: the loop sends the same block again               *)
StoreBlockAgain(c) ==
    /\ cpc[c] = "store"
    /\ blocks' = blocks \cup {Head(needed[c])}
    /\ cpc' = [cpc EXCEPT ![c] =
                  IF Len(needed[c]) = 1 THEN "commit" ELSE "store"]
    /\ UNCHANGED <<metaVars, up, needed, server>>

(* postBlockStore got "200 OK": the block is stored                        *)
StoreBlock(c) ==
    /\ cpc[c] = "store"
    /\ blocks' = blocks \cup {Head(needed[c])}
    /\ needed' = [needed EXCEPT ![c] = Tail(@)]
    /\ cpc' = [cpc EXCEPT ![c] =
                  IF Len(needed[c]) = 1 THEN "commit" ELSE "store"]
    /\ UNCHANGED <<metaVars, up, server>>

(* mutant of StoreFails: a failed block does not stop the upload           *)
StoreFailureIgnored(c) ==
    /\ cpc[c] = "store"
    /\ \/ UNCHANGED blocks
       \/ blocks' = blocks \cup {Head(needed[c])}
    /\ needed' = [needed EXCEPT ![c] = Tail(@)]
    /\ cpc' = [cpc EXCEPT ![c] =
                  IF Len(needed[c]) = 1 THEN "commit" ELSE "store"]
    /\ UNCHANGED <<metaVars, up, server>>

(* postBlockStore got anything else.  block_store may have stored the      *)
(* block and failed afterwards, or the answer may be lost.                 *)
StoreFails(c) ==
    /\ cpc[c] = "store"
    /\ \/ UNCHANGED blocks
       \/ blocks' = blocks \cup {Head(needed[c])}
    /\ LeaveUpFile(c)
    /\ UNCHANGED <<metaVars, server>>

(* postFileCommit                                                          *)
SendCommit(c, w) ==
    /\ cpc[c] = "commit"
    /\ server[c] = NoWorker
    /\ Accept(w, [op |-> "file_commit", user |-> UserOf[c], file |-> up[c].file,
                  hashes |-> up[c].hashes, version |-> up[c].version])
    /\ server' = [server EXCEPT ![c] = w]
    /\ UNCHANGED <<blocks, cpc, up, needed>>

CommitAnswered(c, w) ==
    /\ cpc[c] = "commit"
    /\ server[c] = w
    /\ Respond(w)
    /\ server' = [server EXCEPT ![c] = NoWorker]
    /\ LeaveUpFile(c)
    /\ UNCHANGED blocks

(* postFileDelete for a file the user removed                              *)
SendDelete(c, w, f) ==
    /\ cpc[c] = "idle"
    /\ Accept(w, [op |-> "file_delete", user |-> UserOf[c], file |-> f])
    /\ cpc' = [cpc EXCEPT ![c] = "delete"]
    /\ server' = [server EXCEPT ![c] = w]
    /\ UNCHANGED <<blocks, up, needed>>

DeleteAnswered(c, w) ==
    /\ cpc[c] = "delete"
    /\ server[c] = w
    /\ Respond(w)
    /\ cpc' = [cpc EXCEPT ![c] = "idle"]
    /\ server' = [server EXCEPT ![c] = NoWorker]
    /\ UNCHANGED <<blocks, up, needed>>

(* sync.py is killed; a request it sent is served all the same             *)
ClientDies(c) ==
    /\ cpc[c] # "idle"
    /\ LeaveUpFile(c)
    /\ server' = [server EXCEPT ![c] = NoWorker]
    /\ UNCHANGED <<metaVars, blocks>>

(* the answer to a client that is gone                                     *)
DropReply(w) ==
    /\ \A c \in Clients : server[c] # w
    /\ Respond(w)
    /\ UNCHANGED clientVars

WorkerStep(w) == (Work(w) \/ Crash(w)) /\ UNCHANGED clientVars

Send(c) ==
    \E w \in Workers : SendQuery(c, w) \/ SendCommit(c, w)

Receive(c) ==
    \/ \E w \in Workers : \/ QueryAnswered(c, w)
                          \/ CommitAnswered(c, w)
                          \/ DeleteAnswered(c, w)
    \/ StoreBlock(c)

(* every sync.py waits for the answers to its requests                     *)
PatientNext ==
    \/ \E c \in Clients :
          \/ \E u \in Uploads : StartUpload(c, u)
          \/ Send(c)
          \/ Receive(c)
          \/ StoreFails(c)
          \/ \E w \in Workers, f \in FileNames : SendDelete(c, w, f)
    \/ \E w \in Workers : WorkerStep(w) \/ DropReply(w)

UploadNext == PatientNext \/ \E c \in Clients : ClientDies(c)

UploadSpec == UploadInit /\ [][UploadNext]_upVars

PatientSpec == UploadInit /\ [][PatientNext]_upVars

(* A worker with a request runs, a client reads its answers, and requests  *)
(* wait for a free process in the queue of the web server's socket, which  *)
(* serves every one in turn (strong fairness of Send).                     *)
UploadFairSpec ==
    /\ UploadSpec
    /\ \A w \in Workers : /\ WF_upVars(Work(w) /\ UNCHANGED clientVars)
                          /\ WF_upVars(DropReply(w))
    /\ \A c \in Clients : SF_upVars(Send(c)) /\ WF_upVars(Receive(c))

-----------------------------------------------------------------------------
(* Every block a committed row names is on the block server: upFile sends  *)
(* a block before it commits, and block_query leaves out only blocks that  *)
(* an earlier commit of any user relied on.  No interleaving of uploads,   *)
(* deletes and killed clients breaks it.                                   *)
CommittedBlocksStored ==
    \A k \in Keys : \A j \in DOMAIN fileBlock[k] : fileBlock[k][j].hash \in blocks

(* docs/metadata_api.md: needed_blocks is "a list of SHA-256 block hashes  *)
(* that need to be uploaded to block server".  A block that block_query    *)
(* leaves out of a 200 answer is on the block server.                      *)
QueryNamesEveryMissingBlock ==
    \A w \in Workers :
        /\ pc[w] = "done"
        /\ req[w].op = "block_query"
        /\ reply[w].status = 200
        => Range(req[w].hashes) \subseteq blocks \cup Range(reply[w].needed)

(* upFile returns: no upload waits forever for an answer or for a worker.  *)
UploadEnds == \A c \in Clients : (cpc[c] # "idle") ~> (cpc[c] = "idle")

-----------------------------------------------------------------------------
(* The parts of the inductive invariant behind CommittedBlocksStored.      *)

(* Types of the client state.                                              *)
UploadTypeOK ==
    /\ blocks \subseteq Hashes
    /\ cpc \in [Clients -> {"idle", "query", "store", "commit", "delete"}]
    /\ up \in [Clients -> Uploads \cup {NoUpload}]
    /\ needed \in [Clients -> Seq(Hashes)]
    /\ server \in [Clients -> Workers \cup {NoWorker}]

(* A client that waits for an answer waits for a worker that is serving    *)
(* this very request, and for no worker that serves somebody else, also    *)
(* after clients were killed and the workers went on without them.         *)
AnswersMatchRequests ==
    \A c \in Clients : server[c] # NoWorker =>
        LET w == server[c]
        IN  /\ pc[w] # "idle"
            /\ req[w].user = UserOf[c]
            /\ cpc[c] = "query" =>
                  /\ req[w].op = "block_query"
                  /\ req[w].hashes = up[c].hashes
            /\ cpc[c] = "commit" =>
                  /\ req[w].op = "file_commit"
                  /\ req[w].hashes = up[c].hashes
                  /\ req[w].version = up[c].version
            /\ \A d \in Clients \ {c} : server[d] # w

(* What a client knows of the blocks of its file, at each place of upFile. *)
ClientOK(c) ==
    /\ cpc[c] \in {"query", "store", "commit"} => up[c] \in Uploads
    /\ cpc[c] \in {"idle", "store"} => server[c] = NoWorker
    /\ cpc[c] = "store" =>
          /\ needed[c] # <<>>
          /\ Range(up[c].hashes) \subseteq blocks \cup Range(needed[c])
    /\ cpc[c] = "commit" => Range(up[c].hashes) \subseteq blocks

(* A commit being served names stored blocks only; a query has found each  *)
(* hash it looked at either stored or missing.                             *)
WorkerBlocksOK(w) ==
    /\ pc[w] \in {"select", "delete", "insert"} =>
          Range(req[w].hashes) \subseteq blocks
    /\ pc[w] = "query" =>
          \A j \in 1 .. i[w] : req[w].hashes[j] \in blocks \cup Range(missing[w])
    /\ /\ pc[w] = "done"
       /\ req[w].op = "block_query"
       /\ reply[w].status = 200
       => /\ reply[w].needed \in Seq(Hashes)
          /\ Range(req[w].hashes) \subseteq blocks \cup Range(reply[w].needed)

(* Where clients are, what they upload and whom they wait for, whatever    *)
(* fails.                                                                  *)
UploaderInv ==
    /\ cpc \in [Clients -> {"idle", "query", "store", "commit", "delete"}]
    /\ up \in [Clients -> Uploads \cup {NoUpload}]
    /\ server \in [Clients -> Workers \cup {NoWorker}]
    /\ \A c \in Clients :
          /\ cpc[c] \in {"query", "store", "commit"} => up[c] \in Uploads
          /\ cpc[c] \in {"idle", "store"} => server[c] = NoWorker

(* Every request being served has a client that waits for its answer.      *)
ServedForAClient ==
    \A w \in Workers : pc[w] # "idle" =>
        \E c \in Clients : server[c] = w /\ req[w].user = UserOf[c]

UploadInv ==
    /\ MetaInv
    /\ UploadTypeOK
    /\ AnswersMatchRequests
    /\ \A c \in Clients : ClientOK(c)
    /\ \A w \in Workers : WorkerBlocksOK(w)
    /\ CommittedBlocksStored
=============================================================================

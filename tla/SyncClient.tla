----------------------------- MODULE SyncClient -----------------------------
(***************************************************************************)
(* sync.py on the machines of one user: for each file it compares what the *)
(* metaserver answers, the version kept in versions.json and the time of   *)
(* the last modification, and uploads, downloads, removes or deletes.      *)
(*                                                                         *)
(* The metaserver is the one of module Metaserver, statement by statement: *)
(* requests of machines that run at the same time, and those that killed   *)
(* runs of sync.py have left behind, are served at the same time.  Blocks  *)
(* are sent before the commit (Upload) and fetched from the cache server   *)
(* (CacheServer); here an upload reaches its commit or fails before it,    *)
(* and a download gets the blocks, a failure, or what a poisoned cache     *)
(* answers.                                                                *)
(***************************************************************************)
EXTENDS Metaserver

CONSTANTS
    Clients,          \* the machines
    User,             \* whose they are
    Contents,         \* the files users write
    ClientFaults,     \* "http": the web server answers with an error;
                      \* "timeout": it does so while a handler goes on;
                      \* "kill": sync.py dies, by a signal or an exception;
                      \* "power": the machine stops while cat writes a file;
                      \* "cache": a block is fetched with a wrong body
    TakeTurns,        \* TRUE: sync.py is started only where and when nothing
                      \* that an earlier run began is still going on
    MayRemove,        \* does the user remove files?
    EditWhileRunning, \* does the user touch files while sync.py runs?
    MaxEvents,        \* bound on what users and faults do in a behaviour
    NoWorker, NoFile, NoVersion, NoJob

ASSUME SyncAssumption ==
    /\ User \in Users
    /\ Contents \subseteq Seq(Hashes)
    /\ NoWorker \notin Workers
    /\ NoFile \notin Seq(Hashes)
    /\ NoVersion \notin Nat
    /\ ClientFaults \subseteq {"http", "timeout", "kill", "power", "cache"}
    /\ {TakeTurns, MayRemove, EditWhileRunning} \subseteq BOOLEAN
    /\ MaxEvents \in Nat

VARIABLES
    server,    \* the worker serving a machine's outstanding request
    local,     \* the blocks of each file in each machine's directory
    saved,     \* versions.json: the version of each file
    newer,     \* is a file's mtime later than the mod_time in versions.json?
    torn,      \* was sync.py killed while it rewrote versions.json?
    cpc,       \* where each sync.py is
    loop,      \* the part of the program: "local" files, "listed" files, or
               \* the --download "option"
    todo,      \* what is still to visit in the loop: <<file, version>>
    job,       \* the file being visited, and the block list and version that
               \* were answered, are uploaded or are downloaded
    unsynced,  \* does a file hold an edit that was never on the server?
    events     \* what users and faults have done so far

netVars == <<metaVars, server>>
diskVars == <<local, saved, newer, torn, unsynced>>
runVars == <<cpc, loop, todo, job>>
syncVars == <<netVars, diskVars, runVars, events>>

Files == FileNames

Job(f, b, v) == [file |-> f, blocks |-> b, version |-> v]

SyncInit ==
    /\ MetaInit
    /\ server = [c \in Clients |-> NoWorker]
    /\ local = [c \in Clients |-> [f \in Files |-> NoFile]]
    /\ saved = [c \in Clients |-> [f \in Files |-> NoVersion]]
    /\ newer = [c \in Clients |-> [f \in Files |-> FALSE]]
    /\ torn = [c \in Clients |-> FALSE]
    /\ cpc = [c \in Clients |-> "idle"]
    /\ loop = [c \in Clients |-> "local"]
    /\ todo = [c \in Clients |-> {}]
    /\ job = [c \in Clients |-> NoJob]
    /\ unsynced = [c \in Clients |-> [f \in Files |-> FALSE]]
    /\ events = 0

-----------------------------------------------------------------------------
(* What several steps have in common.                                      *)

(* the next statement is at p and the file visited stays                   *)
GoTo(c, p) ==
    /\ cpc' = [cpc EXCEPT ![c] = p]
    /\ UNCHANGED <<loop, todo, job>>

GoToWith(c, p, j) ==
    /\ cpc' = [cpc EXCEPT ![c] = p]
    /\ job' = [job EXCEPT ![c] = j]
    /\ UNCHANGED <<loop, todo>>

(* the program ends: at its last line, by sys.exit or by an exception      *)
Exit(c) ==
    /\ cpc' = [cpc EXCEPT ![c] = "idle"]
    /\ loop' = [loop EXCEPT ![c] = "local"]
    /\ todo' = [todo EXCEPT ![c] = {}]
    /\ job' = [job EXCEPT ![c] = NoJob]

(* continue with the next file, or exit when --download named the only one *)
Leave(c) ==
    IF loop[c] = "option" THEN Exit(c)
    ELSE GoToWith(c, "next", NoJob)

Event ==
    /\ events < MaxEvents
    /\ events' = events + 1

Name(c) == job[c].file
LocalOf(c) == local[c][Name(c)]
SavedOf(c) == saved[c][Name(c)]

-----------------------------------------------------------------------------
(* Requests to the metaserver.  requests.get and requests.post wait for    *)
(* the answer; the handler does not wait for them.                         *)

(* r is within the bounds of the model and a handler process takes it      *)
SendTo(c, w, r) ==
    /\ server[c] = NoWorker
    /\ r \in Requests
    /\ Accept(w, r)
    /\ server' = [server EXCEPT ![c] = w]
    /\ UNCHANGED <<diskVars, runVars, events>>

Answered(c, w) ==
    /\ server[c] = w
    /\ Respond(w)
    /\ server' = [server EXCEPT ![c] = NoWorker]

(* requestOK is false: the handler answered so; or the web server, which   *)
(* found no handler, or did not wait for it                                *)
RequestFailed(c) ==
    \/ \E w \in Workers : Answered(c, w) /\ reply[w].status # 200 /\ UNCHANGED events
    \/ /\ "http" \in ClientFaults /\ Event
       /\ server[c] = NoWorker
       /\ UNCHANGED netVars
    \/ /\ "timeout" \in ClientFaults /\ Event
       /\ server[c] # NoWorker
       /\ server' = [server EXCEPT ![c] = NoWorker]
       /\ UNCHANGED metaVars

FileRequest(c, o) == [op |-> o, user |-> User, file |-> Name(c)]

-----------------------------------------------------------------------------
(* The loops.                                                              *)

(* Nothing in sync.py or on the servers keeps two runs apart; TakeTurns is *)
(* what a careful user does.                                               *)
MayStart(c) ==
    /\ cpc[c] = "idle"
    /\ TakeTurns => /\ \A d \in Clients : cpc[d] = "idle"
                    /\ \A w \in Workers : pc[w] = "idle"

Start(c) ==
    /\ MayStart(c)
    /\ cpc' = [cpc EXCEPT ![c] = "next"]
    /\ todo' = [todo EXCEPT ![c] = {f \in Files : local[c][f] # NoFile} \X {0}]
    /\ UNCHANGED <<netVars, diskVars, loop, job, events>>

(* --download f                                                            *)
StartOption(c, f) ==
    /\ MayStart(c)
    /\ cpc' = [cpc EXCEPT ![c] = "ask"]
    /\ loop' = [loop EXCEPT ![c] = "option"]
    /\ job' = [job EXCEPT ![c] = Job(f, <<>>, 0)]
    /\ UNCHANGED <<netVars, diskVars, todo, events>>

Visit(c, e, p) ==
    /\ cpc[c] = "next"
    /\ e \in todo[c]
    /\ todo' = [todo EXCEPT ![c] = @ \ {e}]
    /\ cpc' = [cpc EXCEPT ![c] = p]
    /\ job' = [job EXCEPT ![c] = Job(e[1], <<>>, 0)]
    /\ UNCHANGED <<netVars, diskVars, loop, events>>

VisitLocal(c, e) == loop[c] = "local" /\ Visit(c, e, "ask")

(* a listed file that is not in the directory: downloaded if it never was  *)
(* here, deleted on the server if it was                                   *)
VisitListed(c, e) ==
    /\ loop[c] = "listed"
    /\ local[c][e[1]] = NoFile
    /\ ~torn[c]
    /\ Visit(c, e, IF saved[c][e[1]] = NoVersion THEN "ask" ELSE "delete")

SkipPresent(c, e) ==
    /\ loop[c] = "listed"
    /\ cpc[c] = "next"
    /\ e \in todo[c]
    /\ local[c][e[1]] # NoFile
    /\ todo' = [todo EXCEPT ![c] = @ \ {e}]
    /\ UNCHANGED <<netVars, diskVars, cpc, loop, job, events>>

LoopOver(c, l) == cpc[c] = "next" /\ loop[c] = l /\ todo[c] = {}

SendFileList(c, w) ==
    /\ LoopOver(c, "local")
    /\ SendTo(c, w, [op |-> "file_list", user |-> User])

FileListed(c, w) ==
    /\ LoopOver(c, "local")
    /\ Answered(c, w)
    /\ reply[w].status = 200
    /\ loop' = [loop EXCEPT ![c] = "listed"]
    /\ todo' = [todo EXCEPT ![c] = reply[w].files]
    /\ UNCHANGED <<diskVars, cpc, job, events>>

FileListFails(c) ==
    /\ LoopOver(c, "local")
    /\ RequestFailed(c)
    /\ Exit(c)
    /\ UNCHANGED diskVars

Finish(c) ==
    /\ LoopOver(c, "listed")
    /\ Exit(c)
    /\ UNCHANGED <<netVars, diskVars, events>>

(* json.load of a truncated versions.json raises ValueError                *)
VersionsUnreadable(c) ==
    /\ torn[c]
    /\ \/ /\ cpc[c] = "decide"
          /\ loop[c] = "option" => job[c].blocks # <<>>
       \/ /\ cpc[c] = "next"
          /\ loop[c] = "listed"
          /\ \E e \in todo[c] : local[c][e[1]] = NoFile
    /\ Exit(c)
    /\ UNCHANGED <<netVars, diskVars, events>>

-----------------------------------------------------------------------------
(* getBlockList                                                            *)

SendBlockList(c, w) ==
    /\ cpc[c] = "ask"
    /\ SendTo(c, w, FileRequest(c, "block_list"))

BlockListed(c, w) ==
    /\ cpc[c] = "ask"
    /\ Answered(c, w)
    /\ reply[w].status = 200
    /\ GoToWith(c, "decide", Job(Name(c), reply[w].blocks, reply[w].version))
    /\ UNCHANGED <<diskVars, events>>

BlockListFails(c) ==
    /\ cpc[c] = "ask"
    /\ RequestFailed(c)
    /\ Leave(c)
    /\ UNCHANGED diskVars

-----------------------------------------------------------------------------
(* What to do with the file visited.                                       *)

Deciding(c) == cpc[c] = "decide" /\ ~torn[c]

(* "block_list": null                                                      *)
Gone(c) == job[c].blocks = <<>>
Known(c) == SavedOf(c) # NoVersion
Modified(c) == newer[c][Name(c)]
Behind(c) == job[c].version > SavedOf(c)

(* --download of a file the server does not have: sys.exit                 *)
NothingThere(c) ==
    /\ cpc[c] = "decide"
    /\ loop[c] = "option"
    /\ Gone(c)
    /\ Exit(c)
    /\ UNCHANGED <<netVars, diskVars, events>>

(* mutant of UploadVersion: the saved version, even if there is none       *)
SavedIfAny(c) ==
    IF Known(c) /\ Behind(c) THEN job[c].version + 1 ELSE SavedOf(c)

(* mutant of UploadVersion: always the successor of the saved version      *)
NextSaved(c) == IF Known(c) THEN SavedOf(c) + 1 ELSE 0

UploadVersion(c) ==
    IF ~Known(c) THEN 0
    ELSE (IF Behind(c) THEN job[c].version ELSE SavedOf(c)) + 1

DecideUpload(c) ==
    /\ Deciding(c)
    /\ loop[c] = "local"
    /\ IF Known(c) THEN ~Gone(c) /\ LocalOf(c) # NoFile /\ Modified(c)
                   ELSE Gone(c)
    /\ GoToWith(c, "split", Job(Name(c), <<>>, UploadVersion(c)))
    /\ UNCHANGED <<netVars, diskVars, events>>

(* mutant of WantsDownload: the modification time is not looked at         *)
WantsWheneverBehind(c) ==
    \/ loop[c] = "local" /\ (Known(c) => LocalOf(c) # NoFile /\ Behind(c))
    \/ loop[c] = "listed"
    \/ loop[c] = "option" /\ (Known(c) => LocalOf(c) = NoFile)

WantsDownload(c) ==
    \/ /\ loop[c] = "local"
       /\ Known(c) => LocalOf(c) # NoFile /\ ~Modified(c) /\ Behind(c)
    \/ loop[c] = "listed"
    \/ loop[c] = "option" /\ (Known(c) => LocalOf(c) = NoFile)

DecideDownload(c) ==
    /\ Deciding(c)
    /\ ~Gone(c)
    /\ WantsDownload(c)
    /\ GoTo(c, "download")
    /\ UNCHANGED <<netVars, diskVars, events>>

(* "already in sync", and --download of a file modified here               *)
AlreadyInSync(c) ==
    /\ Deciding(c)
    /\ loop[c] \in {"local", "option"}
    /\ ~Gone(c) /\ Known(c) /\ LocalOf(c) # NoFile
    /\ \/ ~Modified(c) /\ ~Behind(c)
       \/ Modified(c) /\ loop[c] = "option"
    /\ Leave(c)
    /\ UNCHANGED <<netVars, diskVars, events>>

SetLocal(c, b, isNewer, isUnsynced) ==
    /\ local' = [local EXCEPT ![c][Name(c)] = b]
    /\ newer' = [newer EXCEPT ![c][Name(c)] = isNewer]
    /\ unsynced' = [unsynced EXCEPT ![c][Name(c)] = isUnsynced]
    /\ UNCHANGED <<saved, torn>>

(* The server has no such file any more: os.remove, whatever was modified  *)
RemoveLocal(c) ==
    /\ Deciding(c)
    /\ loop[c] = "local"
    /\ Gone(c) /\ Known(c) /\ LocalOf(c) # NoFile
    /\ SetLocal(c, NoFile, FALSE, FALSE)
    /\ GoTo(c, "forget")
    /\ UNCHANGED <<netVars, events>>

(* os.stat or os.remove of a file the user removed meanwhile; downFile of  *)
(* the block list None; the undefined name fi after --download             *)
DecideRaises(c) ==
    /\ Deciding(c)
    /\ \/ loop[c] = "local" /\ Known(c) /\ LocalOf(c) = NoFile
       \/ loop[c] = "listed" /\ Gone(c)
       \/ /\ loop[c] = "option"
          /\ ~Gone(c) /\ Known(c) /\ LocalOf(c) # NoFile
          /\ ~Modified(c) /\ Behind(c)
    /\ Exit(c)
    /\ UNCHANGED <<netVars, diskVars, events>>

-----------------------------------------------------------------------------
(* upFile                                                                  *)

(* split takes the file as it is now; without the file there are no blocks *)
Split(c) ==
    /\ cpc[c] = "split"
    /\ LET b == IF LocalOf(c) = NoFile THEN <<>> ELSE LocalOf(c)
       IN  GoToWith(c, "commit", Job(Name(c), b, job[c].version))
    /\ UNCHANGED <<netVars, diskVars, events>>

(* block_query and the block stores of Upload are done: postFileCommit     *)
SendCommit(c, w) ==
    /\ cpc[c] = "commit"
    /\ SendTo(c, w, [op |-> "file_commit", user |-> User, file |-> Name(c),
                     hashes |-> job[c].blocks, version |-> job[c].version])

CommitAnswered(c, w) ==
    /\ cpc[c] = "commit"
    /\ Answered(c, w)
    /\ reply[w].status = 200
    /\ GoTo(c, "save")
    /\ UNCHANGED <<diskVars, events>>

(* mutant of UploadFails: the answer to file_commit is not looked at       *)
RefusalIgnored(c) ==
    /\ cpc[c] = "commit"
    /\ RequestFailed(c)
    /\ GoTo(c, "save")
    /\ UNCHANGED diskVars

(* mutant of UploadFails: the same commit is sent again                    *)
RefusalRetried(c) ==
    /\ cpc[c] = "commit"
    /\ RequestFailed(c)
    /\ GoTo(c, "commit")
    /\ UNCHANGED diskVars

(* A request before the commit fails, or the commit is refused ("Old       *)
(* client version.") or fails.                                             *)
UploadFails(c) ==
    /\ cpc[c] = "commit"
    /\ RequestFailed(c)
    /\ Leave(c)
    /\ UNCHANGED diskVars

-----------------------------------------------------------------------------
(* downFile, addToVersionFile, file_delete                                 *)

(* all blocks are fetched and cat has written the file                     *)
Download(c) ==
    /\ cpc[c] = "download"
    /\ SetLocal(c, job[c].blocks, TRUE, FALSE)
    /\ GoTo(c, "save")
    /\ UNCHANGED <<netVars, events>>

(* getBlockFetch accepts any body of a 200 answer: the cache server may    *)
(* answer with the beginning of a block or with nothing (PoisonedCache)    *)
DownloadPoisoned(c) ==
    /\ "cache" \in ClientFaults
    /\ Event
    /\ cpc[c] = "download"
    /\ \E n \in 0 .. Len(job[c].blocks) : \E b \in [1 .. n -> Hashes] :
          SetLocal(c, b, TRUE, FALSE)
    /\ GoTo(c, "save")
    /\ UNCHANGED netVars

FetchFails ==
    /\ {"http", "cache"} \cap ClientFaults # {}
    /\ Event

(* mutant of DownloadFails: the blocks fetched so far are put together     *)
DownloadFirstBlocks(c) ==
    /\ cpc[c] = "download"
    /\ FetchFails
    /\ SetLocal(c, SubSeq(job[c].blocks, 1, Len(job[c].blocks) - 1), TRUE, FALSE)
    /\ GoTo(c, "save")
    /\ UNCHANGED netVars

DownloadFails(c) ==
    /\ cpc[c] = "download"
    /\ FetchFails
    /\ Leave(c)
    /\ UNCHANGED <<netVars, diskVars>>

(* the machine stops while cat writes over the file in place               *)
PowerLoss(c) ==
    /\ "power" \in ClientFaults
    /\ Event
    /\ cpc[c] = "download"
    /\ \E n \in 0 .. Len(job[c].blocks) - 1 :
          SetLocal(c, SubSeq(job[c].blocks, 1, n), TRUE, FALSE)
    /\ Exit(c)
    /\ UNCHANGED netVars

(* After --download of a known file the name meta_version is undefined.    *)
SaveRaises(c) == loop[c] = "option" /\ Known(c)

(* addToVersionFile: the time recorded is the present                      *)
Save(c) ==
    /\ cpc[c] = "save"
    /\ IF SaveRaises(c)
       THEN Exit(c) /\ UNCHANGED <<saved, newer>>
       ELSE /\ saved' = [saved EXCEPT ![c][Name(c)] = job[c].version]
            /\ newer' = [newer EXCEPT ![c][Name(c)] = FALSE]
            /\ Leave(c)
    /\ UNCHANGED <<netVars, local, torn, unsynced, events>>

(* file_delete of a file the user removed; it carries no version           *)
SendDelete(c, w) ==
    /\ cpc[c] = "delete"
    /\ SendTo(c, w, FileRequest(c, "file_delete"))

DeleteAnswered(c, w) ==
    /\ cpc[c] = "delete"
    /\ Answered(c, w)
    /\ reply[w].status = 200
    /\ GoTo(c, "forget")
    /\ UNCHANGED <<diskVars, events>>

(* None["is_delete"] raises TypeError                                      *)
DeleteFails(c) ==
    /\ cpc[c] = "delete"
    /\ RequestFailed(c)
    /\ Exit(c)
    /\ UNCHANGED diskVars

(* versions.json is rewritten without the file                             *)
ForgetVersion(c) ==
    /\ cpc[c] = "forget"
    /\ saved' = [saved EXCEPT ![c][Name(c)] = NoVersion]
    /\ Leave(c)
    /\ UNCHANGED <<netVars, local, newer, torn, unsynced, events>>

-----------------------------------------------------------------------------
(* sync.py dies.  A request it sent is served all the same, a cat it       *)
(* started runs to its end; versions.json is left truncated if it was open *)
Dies(c) ==
    /\ "kill" \in ClientFaults
    /\ Event
    /\ cpc[c] # "idle"
    /\ \/ UNCHANGED torn
       \/ /\ cpc[c] \in {"save", "forget"}
          /\ ~SaveRaises(c)
          /\ torn' = [torn EXCEPT ![c] = TRUE]
    /\ Exit(c)
    /\ server' = [server EXCEPT ![c] = NoWorker]
    /\ UNCHANGED <<metaVars, local, saved, newer, unsynced>>

-----------------------------------------------------------------------------
(* The user.  At least a second passes between a sync and the next change, *)
(* so that the change has a later modification time.                       *)

MayTouch(c) == (cpc[c] = "idle" \/ EditWhileRunning) /\ Event

Edit(c, f, b) ==
    /\ MayTouch(c)
    /\ local' = [local EXCEPT ![c][f] = b]
    /\ newer' = [newer EXCEPT ![c][f] = TRUE]
    /\ unsynced' = [unsynced EXCEPT ![c][f] = TRUE]
    /\ UNCHANGED <<netVars, saved, torn, runVars>>

Remove(c, f) ==
    /\ MayRemove
    /\ MayTouch(c)
    /\ local[c][f] # NoFile
    /\ local' = [local EXCEPT ![c][f] = NoFile]
    /\ newer' = [newer EXCEPT ![c][f] = FALSE]
    /\ unsynced' = [unsynced EXCEPT ![c][f] = FALSE]
    /\ UNCHANGED <<netVars, saved, torn, runVars>>

(* an unreadable versions.json is removed by hand; sync.py makes a new one *)
RemoveVersions(c) ==
    /\ cpc[c] = "idle"
    /\ torn[c]
    /\ torn' = [torn EXCEPT ![c] = FALSE]
    /\ saved' = [saved EXCEPT ![c] = [f \in Files |-> NoVersion]]
    /\ UNCHANGED <<netVars, local, newer, unsynced, runVars, events>>

-----------------------------------------------------------------------------
(* The metaserver.                                                         *)

(* the step of w is the INSERT of a commit's last row                      *)
LastRow(w) ==
    /\ pc[w] = "insert"
    /\ i'[w] = i[w] + 1
    /\ i'[w] = Len(req[w].hashes)

(* An edit that is the content of a complete commit is synced.             *)
WorkerStep(w) ==
    /\ \/ Serve(w) /\ UNCHANGED events
       \/ (StatementFails(w) \/ Crash(w)) /\ Event
    /\ unsynced' = [c \in Clients |-> [f \in Files |->
                       /\ unsynced[c][f]
                       /\ ~(LastRow(w) /\ f = req[w].file
                                       /\ local[c][f] = req[w].hashes)]]
    /\ UNCHANGED <<server, local, saved, newer, torn, runVars>>

(* the answer to a client that is gone                                     *)
DropReply(w) ==
    /\ \A c \in Clients : server[c] # w
    /\ Respond(w)
    /\ UNCHANGED <<server, diskVars, runVars, events>>

-----------------------------------------------------------------------------
Send(c) ==
    \E w \in Workers : \/ SendFileList(c, w) \/ SendBlockList(c, w)
                       \/ SendCommit(c, w) \/ SendDelete(c, w)

(* the answers of handlers                                                 *)
Receive(c) ==
    \/ \E w \in Workers : \/ FileListed(c, w) \/ BlockListed(c, w)
                          \/ CommitAnswered(c, w) \/ DeleteAnswered(c, w)
    \/ FileListFails(c) \/ BlockListFails(c) \/ UploadFails(c) \/ DeleteFails(c)

(* the steps sync.py takes by itself                                       *)
Step(c) ==
    \/ \E e \in todo[c] : VisitLocal(c, e) \/ VisitListed(c, e) \/ SkipPresent(c, e)
    \/ Finish(c) \/ VersionsUnreadable(c)
    \/ NothingThere(c) \/ DecideUpload(c) \/ DecideDownload(c)
    \/ AlreadyInSync(c) \/ RemoveLocal(c) \/ DecideRaises(c)
    \/ Split(c) \/ Download(c) \/ Save(c) \/ ForgetVersion(c)

Mishap(c) ==
    DownloadPoisoned(c) \/ DownloadFails(c) \/ PowerLoss(c) \/ Dies(c)

UserDoes(c) ==
    \/ Start(c) \/ RemoveVersions(c)
    \/ \E f \in Files :
          \/ StartOption(c, f)
          \/ Remove(c, f)
          \/ \E b \in Contents : Edit(c, f, b)

SyncNext ==
    \/ \E c \in Clients : Send(c) \/ Receive(c) \/ Step(c) \/ Mishap(c) \/ UserDoes(c)
    \/ \E w \in Workers : WorkerStep(w) \/ DropReply(w)

SyncSpec == SyncInit /\ [][SyncNext]_syncVars

(* A running sync.py goes on and reads its answers, a handler with a       *)
(* request runs, and requests wait for a free process in the queue of the  *)
(* web server's socket, which serves every one in turn (strong fairness of *)
(* Send).  Nothing makes users start sync.py or edit.                      *)
SyncFairSpec ==
    /\ SyncSpec
    /\ \A w \in Workers : /\ WF_syncVars(UNCHANGED events /\ WorkerStep(w))
                          /\ WF_syncVars(DropReply(w))
    /\ \A c \in Clients : /\ SF_syncVars(Send(c))
                          /\ WF_syncVars(UNCHANGED events /\ (Receive(c) \/ Step(c)))

-----------------------------------------------------------------------------
Jobs == [file : Files, blocks : Seq(Hashes), version : Nat]

(* Type invariant of the metaserver and of the machines.                   *)
SyncTypeOK ==
    /\ MetaTypeOK
    /\ server \in [Clients -> Workers \cup {NoWorker}]
    /\ local \in [Clients -> [Files -> Seq(Hashes) \cup {NoFile}]]
    /\ saved \in [Clients -> [Files -> Nat \cup {NoVersion}]]
    /\ newer \in [Clients -> [Files -> BOOLEAN]]
    /\ torn \in [Clients -> BOOLEAN]
    /\ cpc \in [Clients -> {"idle", "next", "ask", "decide", "split", "commit",
                            "download", "save", "delete", "forget"}]
    /\ loop \in [Clients -> {"local", "listed", "option"}]
    /\ todo \in [Clients -> SUBSET (Files \X Nat)]
    /\ job \in [Clients -> Jobs \cup {NoJob}]
    /\ unsynced \in [Clients -> [Files -> BOOLEAN]]
    /\ events \in Nat

RowsAt(f) == fileBlock[<<User, f>>]
OnServer(f) == FileOfRows(RowsAt(f))

(* "already in sync" is true: a file that was not modified since the sync  *)
(* recorded in versions.json, and whose recorded version is not older than *)
(* the server's, is the file on the server.  Machines that take turns and  *)
(* are killed at any step, with a commit under way, do not break it; two   *)
(* that run at once do (both commits of one version are acknowledged).     *)
InSyncMeansSame ==
    \A c \in Clients, f \in Files :
        /\ cpc[c] = "idle"
        /\ saved[c][f] # NoVersion /\ ~torn[c] /\ ~newer[c][f]
        /\ RowsAt(f) # <<>> /\ OnServer(f).version <= saved[c][f]
        => local[c][f] = OnServer(f).blocks

(* A file modified since the last sync is uploaded: as long as machines    *)
(* take turns and no statement of a commit fails, sync.py does not remove  *)
(* it or write over it while its content was never on the server.  (A file *)
(* that versions.json does not know is replaced by the server's.)          *)
EditsKept ==
    [][\A c \in Clients, f \in Files :
          /\ unsynced[c][f] /\ saved[c][f] # NoVersion
          /\ local'[c][f] # local[c][f]
          => Remove(c, f) \/ \E b \in Contents : Edit(c, f, b)
      ]_syncVars

(* no handler replaces the rows of f                                       *)
AtRest(f) == Inserting(<<User, f>>) = {}

(* Directories hold only files that a user has written, whole, and so does *)
(* the server when no commit is under way: machines that take turns, fail  *)
(* to download or are killed never leave the beginning of a file, which    *)
(* would then be uploaded as a new version.                                *)
NoMangledFile ==
    /\ \A c \in Clients, f \in Files : local[c][f] \in Contents \cup {NoFile}
    /\ \A f \in Files :
          AtRest(f) /\ RowsAt(f) # <<>> => OnServer(f).blocks \in Contents

(* If users keep running sync.py, in turns, all directories come to hold   *)
(* what the server holds: machines do not overwrite each other's files for *)
(* ever.                                                                   *)
Converges ==
    (\A c \in Clients : []<><<Start(c)>>_syncVars) =>
        <>[](\A c \in Clients, f \in Files :
                ~torn[c] => local[c][f] = IF RowsAt(f) = <<>> THEN NoFile
                                          ELSE OnServer(f).blocks)

(* Every run of sync.py ends, whatever users, failures and other machines  *)
(* do meanwhile.                                                           *)
SyncEnds == \A c \in Clients : (cpc[c] # "idle") ~> (cpc[c] = "idle")
=============================================================================

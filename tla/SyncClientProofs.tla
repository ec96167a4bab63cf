-------------------------- MODULE SyncClientProofs --------------------------
(* Theorems about SyncClient, for any number of machines, files, contents  *)
(* and handler processes.                                                  *)
EXTENDS SyncClient, FileStoreProofs

-----------------------------------------------------------------------------
(* Types, under every fault and overlap                                    *)

(* A successful answer of block_list or file_list has its fields.          *)
AnswerOK(w) ==
    pc[w] = "done" /\ reply[w].status = 200 =>
        /\ req[w].op = "block_list" =>
              reply[w].blocks \in Seq(Hashes) /\ reply[w].version \in Nat
        /\ req[w].op = "file_list" => reply[w].files \in SUBSET (FileNames \X Nat)

(* A visit has a file.                                                     *)
VisitOK(c) == cpc[c] \notin {"idle", "next"} => job[c] \in Jobs

CommitRequest(c) == [op |-> "file_commit", user |-> User, file |-> Name(c),
                     hashes |-> job[c].blocks, version |-> job[c].version]

(* r is the request that sync.py sends where it is                         *)
Asked(c, r) ==
    \/ /\ cpc[c] = "next" /\ loop[c] = "local" /\ todo[c] = {}
       /\ r = [op |-> "file_list", user |-> User]
    \/ cpc[c] = "ask" /\ r = FileRequest(c, "block_list")
    \/ cpc[c] = "commit" /\ r = CommitRequest(c)
    \/ cpc[c] = "delete" /\ r = FileRequest(c, "file_delete")

(* The worker that serves a machine has the request the machine waits for, *)
(* and serves no other machine.                                            *)
WaitOK(c) ==
    server[c] # NoWorker => /\ pc[server[c]] # "idle"
                            /\ Asked(c, req[server[c]])

Unshared ==
    \A c, d \in Clients : c # d /\ server[c] = server[d] => server[c] = NoWorker

NetTyped ==
    /\ MetaInv
    /\ \A w \in Workers : AnswerOK(w)
    /\ server \in [Clients -> Workers \cup {NoWorker}]

DiskTyped ==
    /\ local \in [Clients -> [Files -> Seq(Hashes) \cup {NoFile}]]
    /\ saved \in [Clients -> [Files -> Nat \cup {NoVersion}]]
    /\ newer \in [Clients -> [Files -> BOOLEAN]]
    /\ torn \in [Clients -> BOOLEAN]
    /\ unsynced \in [Clients -> [Files -> BOOLEAN]]

RunTyped ==
    /\ cpc \in [Clients -> {"idle", "next", "ask", "decide", "split", "commit",
                            "download", "save", "delete", "forget"}]
    /\ loop \in [Clients -> {"local", "listed", "option"}]
    /\ todo \in [Clients -> SUBSET (Files \X Nat)]
    /\ job \in [Clients -> Jobs \cup {NoJob}]
    /\ \A c \in Clients : VisitOK(c)

SyncTypeInv ==
    /\ NetTyped /\ DiskTyped /\ RunTyped
    /\ \A c \in Clients : WaitOK(c)
    /\ Unshared
    /\ events \in Nat

(* The invariant contains the type invariant.                              *)
LEMMA TypeParts == SyncTypeInv => SyncTypeOK
BY DEF SyncTypeInv, SyncTypeOK, NetTyped, DiskTyped, RunTyped, MetaInv

(* Every answer a handler writes has the fields of its program.            *)
LEMMA AnswersTyped ==
    ASSUME MetaInv, \A w \in Workers : AnswerOK(w), [MetaNext]_metaVars
    PROVE  \A w \in Workers : AnswerOK(w)'
<1>1. ASSUME NEW x \in Workers, UNCHANGED <<pc[x], req[x], reply[x]>>
      PROVE  AnswerOK(x)'
  <2>1. AnswerOK(x) /\ pc'[x] = pc[x] /\ req'[x] = req[x] /\ reply'[x] = reply[x]
    BY <1>1
  <2> QED BY <2>1 DEF AnswerOK
<1>2. ASSUME NEW w \in Workers, Work(w) \/ Crash(w)
      PROVE  \A x \in Workers : AnswerOK(x)'
  <2>1. /\ req' = req
        /\ \A x \in Workers \ {w} : UNCHANGED <<pc[x], req[x], reply[x]>>
    BY <1>2, WorkFrame
  <2>2. AnswerOK(w)'
    <3>1. CASE ReadBlockList(w)
      <4>1. pc[w] = "blockList" /\ req[w] \in FileRequests /\ req[w].op = "block_list"
        BY <3>1 DEF ReadBlockList, MetaInv, WorkerOK
      <4>2. Key(req[w]) \in Keys /\ fileBlock[Key(req[w])] \in Seq(Row)
        BY <4>1 DEF FileRequests, Key, Keys, MetaInv, MetaTypeOK
      <4> DEFINE rows == fileBlock[Key(req[w])]
      <4>3. PICK s \in Ordered(rows) : reply'[w] = BlockListAnswer(rows, s)
        BY <3>1 DEF ReadBlockList, Answer, MetaInv, MetaTypeOK
      <4>4. reply'[w].blocks \in Seq(Hashes) /\ reply'[w].version \in Nat
        BY <4>2, <4>3, BlockListAnswerTyped
      <4> QED BY <2>1, <4>1, <4>4 DEF AnswerOK
    <3>2. CASE ReadFileList(w)
      <4>1. pc[w] = "fileList" /\ req[w] \in ListRequests
        BY <3>2 DEF ReadFileList, MetaInv, WorkerOK
      <4>2. req[w].user \in Users /\ req[w].op = "file_list"
        BY <4>1 DEF ListRequests
      <4>3. FilesOf(req[w].user) \in SUBSET (FileNames \X Nat)
        BY <4>2, FilesOfTyped DEF MetaInv, MetaTypeOK
      <4>4. reply'[w] = FilesReply(FilesOf(req[w].user))
        BY <3>2 DEF ReadFileList, Answer, MetaInv, MetaTypeOK
      <4>5. reply'[w].files = FilesOf(req[w].user)
        BY <4>4 DEF FilesReply
      <4> QED BY <2>1, <4>2, <4>3, <4>5 DEF AnswerOK
    <3>3. CASE RequestFails(w) \/ Crash(w)
      <4>1. reply'[w] \in {ErrorReply, CrashReply}
        BY <3>3 DEF RequestFails, Crash, DiesBetween, DiesAfterRemove, Answer,
           MetaInv, MetaTypeOK
      <4> QED BY <4>1, ReplyStatus DEF AnswerOK
    <3>4. CASE Work(w) /\ ~ReadBlockList(w) /\ ~ReadFileList(w) /\ ~RequestFails(w)
      <4>1. pc[w] \in {"select", "delete", "insert", "query", "remove", "recent"}
        BY <3>4 DEF Work, Serve, StatementFails, VersionAccepted, VersionRefused,
           DeleteOldRows, InsertRow, CommitDone, QueryHash, QueryDone,
           FreeUninitialised, RemoveFile, ReadRecentHashes, CommitFails, QueryFails
      <4>2. req[w].op \notin {"block_list", "file_list"}
        BY <4>1 DEF MetaInv, WorkerOK, CommitRequests, QueryRequests, RecentRequests
      <4> QED BY <2>1, <4>2 DEF AnswerOK
    <3> QED BY <1>2, <3>1, <3>2, <3>3, <3>4
  <2> QED BY <1>1, <2>1, <2>2
<1>3. ASSUME NEW w \in Workers, NEW r \in Requests, Accept(w, r) \/ Reject(w, r)
      PROVE  \A x \in Workers : AnswerOK(x)'
  <2>1. \A x \in Workers \ {w} : UNCHANGED <<pc[x], req[x], reply[x]>>
    BY <1>3 DEF Accept, Reject, Answer, MetaInv, MetaTypeOK
  <2>2. pc'[w] # "done" \/ reply'[w] = ErrorReply
    BY <1>3, StatementOfRequest DEF Accept, Reject, Answer, MetaInv, MetaTypeOK
  <2>3. AnswerOK(w)'
    BY <2>2, ReplyStatus DEF AnswerOK
  <2> QED BY <1>1, <2>1, <2>3
<1>4. ASSUME NEW w \in Workers, Respond(w)
      PROVE  \A x \in Workers : AnswerOK(x)'
  <2>1. /\ \A x \in Workers \ {w} : UNCHANGED <<pc[x], req[x], reply[x]>>
        /\ pc'[w] = "idle"
    BY <1>4 DEF Respond, MetaInv, MetaTypeOK
  <2> QED BY <1>1, <2>1 DEF AnswerOK
<1>5. CASE UNCHANGED metaVars
  BY <1>1, <1>5 DEF metaVars
<1> QED BY <1>2, <1>3, <1>4, <1>5 DEF MetaNext

-----------------------------------------------------------------------------
(* The forms of a machine's step                                           *)

ClientStep(c) == Send(c) \/ Receive(c) \/ Step(c) \/ Mishap(c) \/ UserDoes(c)

(* the steps that end a visit or the run of sync.py                        *)
Ending(c) ==
    \/ FileListFails(c) \/ Finish(c) \/ VersionsUnreadable(c) \/ BlockListFails(c)
    \/ NothingThere(c) \/ AlreadyInSync(c) \/ DecideRaises(c) \/ UploadFails(c)
    \/ DownloadFails(c) \/ PowerLoss(c) \/ Save(c) \/ DeleteFails(c)
    \/ ForgetVersion(c) \/ Dies(c)

(* the steps of the loops                                                  *)
Looping(c) ==
    \/ Start(c)
    \/ \E f \in Files : StartOption(c, f)
    \/ \E e \in todo[c] : VisitLocal(c, e) \/ VisitListed(c, e) \/ SkipPresent(c, e)
    \/ \E w \in Workers : FileListed(c, w)

(* the steps that go on with the file visited                              *)
Visiting(c) ==
    \/ \E w \in Workers : BlockListed(c, w) \/ CommitAnswered(c, w) \/ DeleteAnswered(c, w)
    \/ DecideUpload(c) \/ DecideDownload(c) \/ RemoveLocal(c) \/ Split(c)
    \/ Download(c) \/ DownloadPoisoned(c)

(* what the user does to files, and requests                               *)
Touching(c) ==
    \/ RemoveVersions(c)
    \/ \E f \in Files : Remove(c, f) \/ \E b \in Contents : Edit(c, f, b)

(* A machine's step is of one of these kinds.                              *)
LEMMA Kinds ==
    ASSUME NEW c \in Clients
    PROVE  ClientStep(c) <=> \/ Ending(c) \/ Looping(c) \/ Visiting(c)
                             \/ Touching(c) \/ Send(c)
BY DEF ClientStep, Receive, Step, Mishap, UserDoes, Ending, Looping, Visiting, Touching

RunKept(c) == \A d \in Clients \ {c} : UNCHANGED <<cpc[d], loop[d], todo[d], job[d]>>

DiskKept(c) ==
    \A d \in Clients \ {c} :
        UNCHANGED <<local[d], saved[d], newer[d], torn[d], unsynced[d]>>

(* Steps that end a visit or a run do so by Exit or Leave.                 *)
LEMMA EndingEnds ==
    ASSUME NEW c \in Clients, Ending(c)
    PROVE  (Exit(c) \/ Leave(c)) /\ cpc[c] # "idle"
<1>1. CASE FileListFails(c) \/ Finish(c) \/ VersionsUnreadable(c) \/ BlockListFails(c)
           \/ NothingThere(c) \/ AlreadyInSync(c) \/ DecideRaises(c)
  BY <1>1 DEF FileListFails, Finish, VersionsUnreadable, BlockListFails,
     NothingThere, AlreadyInSync, DecideRaises, LoopOver, Deciding
<1>2. CASE UploadFails(c) \/ DownloadFails(c) \/ PowerLoss(c) \/ Save(c)
           \/ DeleteFails(c) \/ ForgetVersion(c) \/ Dies(c)
  BY <1>2 DEF UploadFails, DownloadFails, PowerLoss, Save, DeleteFails,
     ForgetVersion, Dies
<1> QED BY <1>1, <1>2 DEF Ending

(* After Exit or Leave the machine is between files or not running.        *)
LEMMA EndingTyped ==
    ASSUME RunTyped, NEW c \in Clients, Exit(c) \/ Leave(c)
    PROVE  /\ RunTyped' /\ RunKept(c)
           /\ cpc'[c] \in {"idle", "next"}
           /\ todo'[c] = {} \/ (loop'[c] = loop[c] /\ todo'[c] = todo[c])
<1>1. CASE Exit(c)
  BY <1>1 DEF RunTyped, VisitOK, RunKept, Exit
<1>2. CASE Leave(c)
  BY <1>1, <1>2 DEF RunTyped, VisitOK, RunKept, Leave, GoToWith
<1> QED BY <1>1, <1>2

(* Going on with the same or another job keeps the part of the run.        *)
LEMMA GoToTyped ==
    ASSUME RunTyped, NEW c \in Clients,
           NEW p \in {"ask", "decide", "split", "commit", "download", "save",
                      "delete", "forget"},
           \/ GoTo(c, p) /\ cpc[c] \notin {"idle", "next"}
           \/ \E j \in Jobs : GoToWith(c, p, j)
    PROVE  RunTyped' /\ RunKept(c) /\ cpc'[c] = p /\ UNCHANGED <<loop, todo>>
BY DEF RunTyped, VisitOK, RunKept, GoTo, GoToWith

(* The steps of the loops keep the part of the run.                        *)
LEMMA LoopingTyped ==
    ASSUME SyncTypeInv, NEW c \in Clients, Looping(c)
    PROVE  RunTyped' /\ RunKept(c)
<1>0. RunTyped
  BY DEF SyncTypeInv
<1>1. \A f \in Files : Job(f, <<>>, 0) \in Jobs
  BY DEF Job, Jobs
<1>2. CASE Start(c)
  BY <1>0, <1>2 DEF Start, RunTyped, VisitOK, RunKept
<1>3. ASSUME NEW f \in Files, StartOption(c, f) PROVE RunTyped' /\ RunKept(c)
  BY <1>0, <1>1, <1>3 DEF StartOption, RunTyped, VisitOK, RunKept
<1>4. ASSUME NEW e \in todo[c], VisitLocal(c, e) \/ VisitListed(c, e)
      PROVE  RunTyped' /\ RunKept(c)
  <2>1. e[1] \in Files
    BY <1>0 DEF RunTyped
  <2>2. PICK p \in {"ask", "delete"} : Visit(c, e, p)
    BY <1>4 DEF VisitLocal, VisitListed
  <2> QED BY <1>0, <1>1, <2>1, <2>2 DEF Visit, RunTyped, VisitOK, RunKept
<1>5. ASSUME NEW e \in todo[c], SkipPresent(c, e) PROVE RunTyped' /\ RunKept(c)
  BY <1>0, <1>5 DEF SkipPresent, RunTyped, VisitOK, RunKept
<1>6. ASSUME NEW w \in Workers, FileListed(c, w) PROVE RunTyped' /\ RunKept(c)
  <2>1. server[c] = w /\ server[c] # NoWorker /\ cpc[c] = "next"
    BY <1>6, SyncAssumption DEF FileListed, Answered, LoopOver
  <2>2. req[w] = [op |-> "file_list", user |-> User]
    BY <2>1 DEF SyncTypeInv, WaitOK, Asked
  <2>3. reply[w].files \in SUBSET (FileNames \X Nat)
    BY <1>6, <2>2 DEF FileListed, Answered, Respond, SyncTypeInv, NetTyped, AnswerOK
  <2> QED BY <1>0, <1>6, <2>3 DEF FileListed, RunTyped, VisitOK, RunKept, Files
<1> QED BY <1>2, <1>3, <1>4, <1>5, <1>6 DEF Looping

(* The job of a visit has its fields.                                      *)
LEMMA JobTyped ==
    ASSUME SyncTypeInv, NEW c \in Clients, cpc[c] \notin {"idle", "next"}
    PROVE  /\ job[c] \in Jobs /\ Name(c) \in Files
           /\ job[c].blocks \in Seq(Hashes) /\ job[c].version \in Nat
           /\ SavedOf(c) \in Nat \cup {NoVersion}
           /\ LocalOf(c) \in Seq(Hashes) \cup {NoFile}
<1>1. job[c] \in Jobs /\ Name(c) \in Files /\ job[c].blocks \in Seq(Hashes)
      /\ job[c].version \in Nat
  BY DEF SyncTypeInv, RunTyped, VisitOK, Name, Jobs
<1> QED BY <1>1 DEF SyncTypeInv, DiskTyped, SavedOf, LocalOf

(* where a step goes on with a visit                                       *)
LEMMA VisitingTyped ==
    ASSUME SyncTypeInv, NEW c \in Clients, Visiting(c)
    PROVE  RunTyped' /\ RunKept(c) /\ cpc[c] \notin {"idle", "next"}
<1>0. RunTyped
  BY DEF SyncTypeInv
<1>1. ASSUME NEW w \in Workers, BlockListed(c, w)
      PROVE  RunTyped' /\ RunKept(c) /\ cpc[c] \notin {"idle", "next"}
  <2>1. server[c] = w /\ server[c] # NoWorker /\ cpc[c] = "ask"
    BY <1>1, SyncAssumption DEF BlockListed, Answered
  <2>2. req[w].op = "block_list"
    <3>1. req[w] = FileRequest(c, "block_list")
      BY <2>1 DEF SyncTypeInv, WaitOK, Asked
    <3> QED BY <3>1 DEF FileRequest
  <2>3. reply[w].blocks \in Seq(Hashes) /\ reply[w].version \in Nat
    BY <1>1, <2>2 DEF BlockListed, Answered, Respond, SyncTypeInv, NetTyped, AnswerOK
  <2>4. Job(Name(c), reply[w].blocks, reply[w].version) \in Jobs
    BY <2>1, <2>3, JobTyped DEF Job, Jobs
  <2> QED BY <1>0, <1>1, <2>1, <2>4, GoToTyped DEF BlockListed
<1>2. CASE DecideUpload(c)
  <2>1. cpc[c] = "decide"
    BY <1>2 DEF DecideUpload, Deciding
  <2>2. UploadVersion(c) \in Nat
    <3>1. job[c].version \in Nat /\ (Known(c) => SavedOf(c) \in Nat)
      BY <2>1, JobTyped DEF Known
    <3>2. CASE Known(c)
      BY <3>1, <3>2 DEF UploadVersion
    <3>3. CASE ~Known(c)
      BY <3>3 DEF UploadVersion
    <3> QED BY <3>2, <3>3
  <2>3. Job(Name(c), <<>>, UploadVersion(c)) \in Jobs
    BY <2>1, <2>2, JobTyped DEF Job, Jobs
  <2> QED BY <1>0, <1>2, <2>1, <2>3, GoToTyped DEF DecideUpload
<1>3. CASE Split(c)
  <2> DEFINE b == IF LocalOf(c) = NoFile THEN <<>> ELSE LocalOf(c)
  <2>1. cpc[c] = "split" /\ GoToWith(c, "commit", Job(Name(c), b, job[c].version))
    BY <1>3 DEF Split
  <2>2. Job(Name(c), b, job[c].version) \in Jobs
    BY <2>1, JobTyped DEF Job, Jobs
  <2> QED BY <1>0, <2>1, <2>2, GoToTyped
<1>4. ASSUME \/ DecideDownload(c) \/ RemoveLocal(c) \/ Download(c) \/ DownloadPoisoned(c)
             \/ \E w \in Workers : CommitAnswered(c, w) \/ DeleteAnswered(c, w)
      PROVE  RunTyped' /\ RunKept(c) /\ cpc[c] \notin {"idle", "next"}
  <2>1. PICK p \in {"download", "forget", "save"} :
            GoTo(c, p) /\ cpc[c] \notin {"idle", "next"}
    BY <1>4 DEF DecideDownload, RemoveLocal, Download, DownloadPoisoned,
       CommitAnswered, DeleteAnswered, Deciding
  <2> QED BY <1>0, <2>1, GoToTyped
<1> QED BY <1>1, <1>2, <1>3, <1>4 DEF Visiting

(* Every step of a machine keeps the part of the run, and other runs.      *)
LEMMA RunStep ==
    ASSUME SyncTypeInv, NEW c \in Clients, ClientStep(c)
    PROVE  RunTyped' /\ RunKept(c)
<1>0. RunTyped
  BY DEF SyncTypeInv
<1>1. CASE Touching(c) \/ Send(c)
  <2>1. UNCHANGED runVars
    BY <1>1 DEF Touching, RemoveVersions, Remove, Edit, Send, SendFileList,
       SendBlockList, SendCommit, SendDelete, SendTo
  <2> QED BY <1>0, <2>1 DEF runVars, RunTyped, VisitOK, RunKept
<1> QED BY <1>0, <1>1, Kinds, EndingEnds, EndingTyped, LoopingTyped, VisitingTyped

(* Every step of a machine keeps the part of the disk, and other disks.    *)
LEMMA DiskStep ==
    ASSUME SyncTypeInv, NEW c \in Clients, ClientStep(c)
    PROVE  DiskTyped' /\ DiskKept(c)
<1>0. DiskTyped
  BY DEF SyncTypeInv
<1>1. CASE UNCHANGED diskVars
  BY <1>0, <1>1 DEF diskVars, DiskTyped, DiskKept
<1>2. ASSUME NEW f \in Files, NEW b \in Seq(Hashes) \cup {NoFile},
             NEW n \in BOOLEAN, NEW u \in BOOLEAN,
             local' = [local EXCEPT ![c][f] = b],
             newer' = [newer EXCEPT ![c][f] = n],
             unsynced' = [unsynced EXCEPT ![c][f] = u],
             UNCHANGED <<saved, torn>>
      PROVE  DiskTyped' /\ DiskKept(c)
  BY <1>0, <1>2 DEF DiskTyped, DiskKept
<1>3. ASSUME Download(c) \/ DownloadPoisoned(c) \/ PowerLoss(c) \/ RemoveLocal(c)
      PROVE  DiskTyped' /\ DiskKept(c)
  <2>1. Name(c) \in Files /\ job[c].blocks \in Seq(Hashes)
    BY <1>3, JobTyped DEF Download, DownloadPoisoned, PowerLoss, RemoveLocal, Deciding
  <2>2. PICK b \in Seq(Hashes) \cup {NoFile}, n \in BOOLEAN : SetLocal(c, b, n, FALSE)
    <3>1. CASE Download(c) \/ RemoveLocal(c)
      BY <2>1, <3>1 DEF Download, RemoveLocal
    <3>2. CASE DownloadPoisoned(c)
      <4>1. PICK n \in 0 .. Len(job[c].blocks) : \E b \in [1 .. n -> Hashes] :
                SetLocal(c, b, TRUE, FALSE)
        BY <3>2 DEF DownloadPoisoned
      <4>2. PICK b \in [1 .. n -> Hashes] : SetLocal(c, b, TRUE, FALSE)
        BY <4>1
      <4>3. b \in Seq(Hashes)
        BY <2>1
      <4> QED BY <4>2, <4>3
    <3>3. CASE PowerLoss(c)
      <4>1. PICK n \in 0 .. Len(job[c].blocks) - 1 :
                SetLocal(c, SubSeq(job[c].blocks, 1, n), TRUE, FALSE)
        BY <3>3 DEF PowerLoss
      <4>2. SubSeq(job[c].blocks, 1, n) \in Seq(Hashes)
        BY <2>1
      <4> QED BY <4>1, <4>2
    <3> QED BY <1>3, <3>1, <3>2, <3>3
  <2> QED BY <1>2, <2>1, <2>2 DEF SetLocal
<1>4. CASE Save(c)
  <2>1. Name(c) \in Files /\ job[c].version \in Nat
    BY <1>4, JobTyped DEF Save
  <2>2. UNCHANGED <<local, torn, unsynced>>
    BY <1>4 DEF Save
  <2>3. CASE SaveRaises(c)
    BY <1>0, <1>4, <2>3 DEF Save, DiskTyped, DiskKept
  <2>4. CASE ~SaveRaises(c)
    <3>1. /\ saved' = [saved EXCEPT ![c][Name(c)] = job[c].version]
          /\ newer' = [newer EXCEPT ![c][Name(c)] = FALSE]
      BY <1>4, <2>4 DEF Save
    <3> QED BY <1>0, <2>1, <2>2, <3>1 DEF DiskTyped, DiskKept
  <2> QED BY <2>3, <2>4
<1>5. CASE ForgetVersion(c)
  <2>1. Name(c) \in Files
    BY <1>5, JobTyped DEF ForgetVersion
  <2> QED BY <1>0, <1>5, <2>1 DEF ForgetVersion, DiskTyped, DiskKept
<1>6. CASE Dies(c)
  BY <1>0, <1>6 DEF Dies, DiskTyped, DiskKept
<1>7. CASE Touching(c)
  <2>1. ASSUME NEW f \in Files, NEW b \in Contents, Edit(c, f, b)
        PROVE  DiskTyped' /\ DiskKept(c)
    BY <1>2, <2>1, SyncAssumption DEF Edit
  <2>2. ASSUME NEW f \in Files, Remove(c, f) PROVE DiskTyped' /\ DiskKept(c)
    BY <1>2, <2>2 DEF Remove
  <2>3. CASE RemoveVersions(c)
    BY <1>0, <2>3 DEF RemoveVersions, DiskTyped, DiskKept
  <2> QED BY <1>7, <2>1, <2>2, <2>3 DEF Touching
<1>8. CASE Ending(c)
  <2>1. \/ UNCHANGED diskVars \/ PowerLoss(c) \/ Save(c) \/ ForgetVersion(c) \/ Dies(c)
    BY <1>8 DEF Ending, FileListFails, Finish, VersionsUnreadable, BlockListFails,
       NothingThere, AlreadyInSync, DecideRaises, UploadFails, DownloadFails, DeleteFails
  <2> QED BY <1>1, <1>3, <1>4, <1>5, <1>6, <2>1
<1>9. CASE Looping(c) \/ Send(c)
  <2>1. UNCHANGED diskVars
    BY <1>9 DEF Looping, Start, StartOption, VisitLocal, VisitListed, Visit,
       SkipPresent, FileListed, Send, SendFileList, SendBlockList, SendCommit,
       SendDelete, SendTo
  <2> QED BY <1>1, <2>1
<1>10. CASE Visiting(c)
  <2>1. \/ UNCHANGED diskVars \/ Download(c) \/ DownloadPoisoned(c) \/ RemoveLocal(c)
    BY <1>10 DEF Visiting, BlockListed, CommitAnswered, DeleteAnswered,
       DecideUpload, DecideDownload, Split
  <2> QED BY <1>1, <1>3, <2>1
<1> QED BY <1>7, <1>8, <1>9, <1>10, Kinds

(* How a machine's step touches the metaserver: not at all, by sending a   *)
(* request, by reading an answer, or by no longer waiting for one.         *)
Quiet(c) == UNCHANGED netVars /\ (server[c] = NoWorker \/ UNCHANGED runVars)
Asks(c) == \E w \in Workers, r \in Requests : SendTo(c, w, r) /\ Asked(c, r)
Hears(c) == \E w \in Workers : Answered(c, w)
GivesUp(c) == UNCHANGED metaVars /\ server' = [server EXCEPT ![c] = NoWorker]

(* A machine that is not waiting for an answer has no worker.              *)
LEMMA NotWaiting ==
    ASSUME SyncTypeInv, NEW c \in Clients,
           \/ cpc[c] \in {"idle", "decide", "split", "download", "save", "forget"}
           \/ cpc[c] = "next" /\ (loop[c] # "local" \/ todo[c] # {})
    PROVE  server[c] = NoWorker
BY DEF SyncTypeInv, WaitOK, Asked

(* Every step of a machine is one of the four.                             *)
LEMMA NetForms ==
    ASSUME SyncTypeInv, NEW c \in Clients, ClientStep(c)
    PROVE  \/ Quiet(c) \/ Asks(c) \/ Hears(c)
           \/ GivesUp(c) /\ (Dies(c) \/ "timeout" \in ClientFaults)
<1>1. CASE Send(c)
  <2>1. PICK w \in Workers : \/ SendFileList(c, w) \/ SendBlockList(c, w)
                             \/ SendCommit(c, w) \/ SendDelete(c, w)
    BY <1>1 DEF Send
  <2>2. \E r : SendTo(c, w, r) /\ Asked(c, r)
    BY <2>1 DEF SendFileList, SendBlockList, SendCommit, SendDelete, Asked,
       LoopOver, CommitRequest
  <2>3. \A r : SendTo(c, w, r) => r \in Requests
    BY DEF SendTo
  <2> QED BY <2>2, <2>3 DEF Asks
<1>2. CASE Touching(c)
  BY <1>2 DEF Touching, RemoveVersions, Remove, Edit, Quiet
<1>3. CASE Looping(c)
  <2>1. CASE \E w \in Workers : FileListed(c, w)
    BY <2>1 DEF FileListed, Hears
  <2>2. CASE Start(c) \/ \E f \in Files : StartOption(c, f)
    BY <2>2, NotWaiting DEF Start, StartOption, MayStart, Quiet
  <2>3. ASSUME NEW e \in todo[c],
               VisitLocal(c, e) \/ VisitListed(c, e) \/ SkipPresent(c, e)
        PROVE  Quiet(c)
    BY <2>3, NotWaiting DEF VisitLocal, VisitListed, Visit, SkipPresent, Quiet
  <2> QED BY <1>3, <2>1, <2>2, <2>3 DEF Looping
<1>4. CASE Visiting(c)
  <2>1. CASE \E w \in Workers : \/ BlockListed(c, w) \/ CommitAnswered(c, w)
                                 \/ DeleteAnswered(c, w)
    BY <2>1 DEF BlockListed, CommitAnswered, DeleteAnswered, Hears
  <2>2. CASE \/ DecideUpload(c) \/ DecideDownload(c) \/ RemoveLocal(c) \/ Split(c)
             \/ Download(c) \/ DownloadPoisoned(c)
    BY <2>2, NotWaiting DEF DecideUpload, DecideDownload, RemoveLocal, Split,
       Download, DownloadPoisoned, Deciding, Quiet
  <2> QED BY <1>4, <2>1, <2>2 DEF Visiting
<1>5. CASE Ending(c)
  <2>1. CASE FileListFails(c) \/ BlockListFails(c) \/ UploadFails(c) \/ DeleteFails(c)
    BY <2>1 DEF FileListFails, BlockListFails, UploadFails, DeleteFails,
       RequestFailed, Hears, GivesUp, Quiet
  <2>2. CASE \/ Finish(c) \/ VersionsUnreadable(c) \/ NothingThere(c)
             \/ AlreadyInSync(c) \/ DecideRaises(c) \/ DownloadFails(c)
             \/ PowerLoss(c) \/ Save(c) \/ ForgetVersion(c)
    BY <2>2, NotWaiting DEF Finish, VersionsUnreadable, NothingThere, LoopOver,
       AlreadyInSync, DecideRaises, DownloadFails, PowerLoss, Save, ForgetVersion,
       Deciding, Quiet
  <2>3. CASE Dies(c)
    BY <2>3 DEF Dies, GivesUp
  <2> QED BY <1>5, <2>1, <2>2, <2>3 DEF Ending
<1> QED BY <1>1, <1>2, <1>3, <1>4, <1>5, Kinds

(* Every step is a step of the metaserver, or leaves it alone.             *)
LEMMA StepOfMetaserver ==
    ASSUME SyncTypeInv, [SyncNext]_syncVars
    PROVE  [MetaNext]_metaVars
<1>1. ASSUME NEW c \in Clients, ClientStep(c) PROVE [MetaNext]_metaVars
  BY <1>1, NetForms DEF Quiet, Asks, Hears, GivesUp, netVars, SendTo, Answered, MetaNext
<1>2. ASSUME NEW w \in Workers, WorkerStep(w) \/ DropReply(w)
      PROVE  [MetaNext]_metaVars
  BY <1>2 DEF WorkerStep, DropReply, MetaNext, Work
<1>3. CASE UNCHANGED syncVars
  BY <1>3 DEF syncVars, netVars
<1> QED BY <1>1, <1>2, <1>3 DEF SyncNext, ClientStep

(* Other machines keep their workers, and these their requests.            *)
LEMMA OthersWait ==
    ASSUME SyncTypeInv, NEW c \in Clients, ClientStep(c)
    PROVE  /\ server' \in [Clients -> Workers \cup {NoWorker}]
           /\ \A d \in Clients \ {c} :
                 /\ server'[d] = server[d]
                 /\ server[d] # NoWorker =>
                       /\ server'[c] # server[d]
                       /\ pc'[server[d]] # "idle"
                       /\ req'[server[d]] = req[server[d]]
<1>0. /\ server \in [Clients -> Workers \cup {NoWorker}]
      /\ pc \in [Workers -> {"idle", "select", "delete", "insert", "query",
                              "blockList", "fileList", "remove", "recent", "done"}]
      /\ req \in [Workers -> Requests \cup {NoRequest}]
  BY DEF SyncTypeInv, NetTyped, MetaInv, MetaTypeOK
<1>1. \A d \in Clients \ {c} : server[d] # NoWorker =>
          server[d] \in Workers /\ pc[server[d]] # "idle" /\ server[c] # server[d]
  BY <1>0 DEF SyncTypeInv, WaitOK, Unshared
<1>2. CASE Quiet(c) \/ GivesUp(c)
  BY <1>0, <1>1, <1>2 DEF Quiet, GivesUp, netVars, metaVars
<1>3. CASE Asks(c)
  <2>1. PICK w \in Workers, r \in Requests : SendTo(c, w, r)
    BY <1>3 DEF Asks
  <2>2. pc[w] = "idle" /\ server' = [server EXCEPT ![c] = w]
    BY <2>1 DEF SendTo, Accept, MayServe
  <2>3. \A x \in Workers \ {w} : pc'[x] = pc[x] /\ req'[x] = req[x]
    BY <1>0, <2>1 DEF SendTo, Accept
  <2> QED BY <1>0, <1>1, <2>2, <2>3
<1>4. CASE Hears(c)
  <2>1. PICK w \in Workers : Answered(c, w)
    BY <1>4 DEF Hears
  <2>2. \A x \in Workers \ {w} : pc'[x] = pc[x] /\ req'[x] = req[x]
    BY <1>0, <2>1 DEF Answered, Respond
  <2>3. server[c] = w /\ server' = [server EXCEPT ![c] = NoWorker]
    BY <2>1 DEF Answered
  <2> QED BY <1>0, <1>1, <2>2, <2>3
<1> QED BY <1>2, <1>3, <1>4, NetForms

(* A machine's step keeps who waits for what.                              *)
LEMMA WaitStep ==
    ASSUME SyncTypeInv, NEW c \in Clients, ClientStep(c)
    PROVE  (\A d \in Clients : WaitOK(d)') /\ Unshared'
<1>0. RunKept(c) /\ server \in [Clients -> Workers \cup {NoWorker}]
  BY RunStep DEF SyncTypeInv, NetTyped
<1>1. ASSUME NEW d \in Clients \ {c} PROVE WaitOK(d)'
  <2>1. UNCHANGED <<cpc[d], loop[d], todo[d], job[d]>>
    BY <1>0 DEF RunKept
  <2>2. ASSUME NEW r, Asked(d, r) PROVE Asked(d, r)'
    BY <2>1, <2>2 DEF Asked, FileRequest, CommitRequest, Name
  <2>3. CASE server[d] = NoWorker
    BY <2>3, OthersWait DEF WaitOK
  <2>4. CASE server[d] # NoWorker
    <3>1. Asked(d, req[server[d]])'
      <4>1. Asked(d, req[server[d]])
        BY <2>4 DEF SyncTypeInv, WaitOK
      <4>2. req'[server'[d]] = req[server[d]]
        BY <2>4, OthersWait
      <4> QED BY <2>2, <4>1, <4>2
    <3> QED BY <2>4, <3>1, OthersWait DEF WaitOK
  <2> QED BY <2>3, <2>4
<1>2. WaitOK(c)'
  <2>1. CASE Quiet(c)
    <3>1. CASE server[c] = NoWorker
      BY <2>1, <3>1 DEF Quiet, netVars, WaitOK
    <3>2. CASE UNCHANGED runVars
      <4>1. UNCHANGED <<cpc, loop, todo, job, server, pc, req>>
        BY <2>1, <3>2 DEF Quiet, netVars, metaVars, runVars
      <4>2. WaitOK(c)
        BY DEF SyncTypeInv
      <4> QED BY <4>1, <4>2 DEF WaitOK, Asked, FileRequest, CommitRequest, Name
    <3> QED BY <2>1, <3>1, <3>2 DEF Quiet
  <2>2. CASE Asks(c)
    <3>1. PICK w \in Workers, r \in Requests : SendTo(c, w, r) /\ Asked(c, r)
      BY <2>2 DEF Asks
    <3>2. server'[c] = w /\ pc'[w] = FirstStatement[r.op] /\ req'[w] = r
      BY <1>0, <3>1 DEF SendTo, Accept, SyncTypeInv, NetTyped, MetaInv, MetaTypeOK
    <3>3. pc'[w] # "idle"
      BY <3>1, <3>2, StatementOfRequest DEF SendTo, Accept
    <3>4. UNCHANGED <<cpc, loop, todo, job>>
      BY <3>1 DEF SendTo, runVars
    <3>5. Asked(c, req[server[c]])'
      BY <3>1, <3>2, <3>4 DEF Asked, FileRequest, CommitRequest, Name
    <3> QED BY <3>2, <3>3, <3>5 DEF WaitOK
  <2>3. CASE Hears(c) \/ GivesUp(c)
    BY <1>0, <2>3 DEF Hears, Answered, GivesUp, WaitOK
  <2> QED BY <2>1, <2>2, <2>3, NetForms
<1>3. Unshared'
  <2>1. ASSUME NEW d \in Clients, NEW e \in Clients, d # e, server'[d] = server'[e]
        PROVE  server'[d] = NoWorker
    <3>1. CASE d # c /\ e # c
      BY <2>1, <3>1, OthersWait DEF SyncTypeInv, Unshared
    <3>2. CASE d = c \/ e = c
      BY <2>1, <3>2, OthersWait
    <3> QED BY <3>1, <3>2
  <2> QED BY <2>1 DEF Unshared
<1> QED BY <1>1, <1>2, <1>3

(* A handler that works, or whose answer nobody reads, leaves the machines *)
(* alone, but for the marks of edits.                                      *)
LEMMA WorkerTyped ==
    ASSUME SyncTypeInv, NEW w \in Workers, WorkerStep(w) \/ DropReply(w)
    PROVE  /\ UNCHANGED <<server, local, saved, newer, torn, runVars>>
           /\ DiskTyped'
           /\ (\A c \in Clients : WaitOK(c)') /\ Unshared' /\ events' \in Nat
<1>0. /\ server \in [Clients -> Workers \cup {NoWorker}] /\ MetaInv
      /\ DiskTyped /\ events \in Nat
  BY DEF SyncTypeInv, NetTyped
<1>1. UNCHANGED <<server, local, saved, newer, torn, runVars>>
  BY DEF WorkerStep, DropReply, diskVars
<1>2. DiskTyped'
  <2>1. CASE WorkerStep(w)
    <3>1. unsynced' \in [Clients -> [Files -> BOOLEAN]]
      BY <1>0, <2>1 DEF WorkerStep, DiskTyped
    <3> QED BY <1>0, <1>1, <3>1 DEF DiskTyped
  <2>2. CASE DropReply(w)
    BY <1>0, <2>2 DEF DropReply, diskVars, DiskTyped
  <2> QED BY <2>1, <2>2
<1>3. ASSUME NEW x \in Workers, pc[x] # "idle", WorkerStep(w) \/ x # w
      PROVE  pc'[x] # "idle" /\ req'[x] = req[x]
  <2>1. CASE WorkerStep(w)
    <3>1. Work(w) \/ Crash(w)
      BY <2>1 DEF WorkerStep, Work
    <3> QED BY <1>0, <1>3, <3>1, WorkFrame
  <2>2. CASE DropReply(w) /\ x # w
    BY <1>0, <1>3, <2>2 DEF DropReply, Respond, MetaInv, MetaTypeOK
  <2> QED BY <1>3, <2>1, <2>2
<1>4. ASSUME NEW c \in Clients PROVE WaitOK(c)'
  <2>1. WaitOK(c)
    BY DEF SyncTypeInv
  <2>2. server[c] # NoWorker =>
            pc'[server[c]] # "idle" /\ req'[server[c]] = req[server[c]]
    BY <1>0, <1>3, <2>1 DEF WaitOK, DropReply
  <2>3. UNCHANGED <<server, cpc, loop, todo, job>>
    BY <1>1 DEF runVars
  <2> QED BY <2>1, <2>2, <2>3 DEF WaitOK, Asked, FileRequest, CommitRequest, Name
<1>5. Unshared' /\ events' \in Nat
  BY <1>0, <1>1 DEF SyncTypeInv, Unshared, WorkerStep, DropReply, Event
<1> QED BY <1>1, <1>2, <1>4, <1>5

(* The count of events stays a number.                                     *)
LEMMA EventTyped ==
    ASSUME SyncTypeInv, NEW c \in Clients, ClientStep(c)
    PROVE  events' \in Nat
<1>0. events \in Nat
  BY DEF SyncTypeInv
<1>1. Event \/ UNCHANGED events
  <2>1. CASE Ending(c)
    BY <2>1 DEF Ending, FileListFails, Finish, VersionsUnreadable, BlockListFails,
       NothingThere, AlreadyInSync, DecideRaises, UploadFails, DownloadFails,
       PowerLoss, Save, DeleteFails, ForgetVersion, Dies, RequestFailed, FetchFails
  <2>2. CASE Looping(c)
    BY <2>2 DEF Looping, Start, StartOption, VisitLocal, VisitListed, Visit,
       SkipPresent, FileListed
  <2>3. CASE Visiting(c)
    BY <2>3 DEF Visiting, BlockListed, CommitAnswered, DeleteAnswered,
       DecideUpload, DecideDownload, RemoveLocal, Split, Download, DownloadPoisoned
  <2>4. CASE Touching(c) \/ Send(c)
    BY <2>4 DEF Touching, RemoveVersions, Remove, Edit, MayTouch, Send,
       SendFileList, SendBlockList, SendCommit, SendDelete, SendTo
  <2> QED BY <2>1, <2>2, <2>3, <2>4, Kinds
<1> QED BY <1>0, <1>1 DEF Event

(* Every step keeps the types.                                             *)
LEMMA TypeStep ==
    ASSUME SyncTypeInv, [SyncNext]_syncVars
    PROVE  SyncTypeInv'
<1>1. MetaInv' /\ \A w \in Workers : AnswerOK(w)'
  BY StepOfMetaserver, MetaNextInv, AnswersTyped DEF SyncTypeInv, NetTyped
<1>2. ASSUME NEW c \in Clients, ClientStep(c) PROVE SyncTypeInv'
  BY <1>1, <1>2, OthersWait, WaitStep, RunStep, DiskStep, EventTyped
     DEF SyncTypeInv, NetTyped
<1>3. ASSUME NEW w \in Workers, WorkerStep(w) \/ DropReply(w) PROVE SyncTypeInv'
  <2>1. RunTyped' /\ server' \in [Clients -> Workers \cup {NoWorker}]
    BY <1>3, WorkerTyped DEF SyncTypeInv, NetTyped, RunTyped, VisitOK, runVars
  <2> QED BY <1>1, <1>3, <2>1, WorkerTyped DEF SyncTypeInv, NetTyped
<1>4. CASE UNCHANGED syncVars
  <2> USE <1>4 DEF syncVars, netVars, metaVars, diskVars, runVars
  <2>1. RunTyped' /\ DiskTyped' /\ NetTyped'
    BY <1>1 DEF SyncTypeInv, NetTyped, RunTyped, VisitOK, DiskTyped
  <2>2. (\A c \in Clients : WaitOK(c)') /\ Unshared'
    BY DEF SyncTypeInv, WaitOK, Asked, FileRequest, CommitRequest, Name, Unshared
  <2> QED BY <2>1, <2>2 DEF SyncTypeInv
<1> QED BY <1>2, <1>3, <1>4 DEF SyncNext, ClientStep

(* The empty system is well typed.                                         *)
LEMMA TypeInit == SyncInit => SyncTypeInv
<1> SUFFICES ASSUME SyncInit PROVE SyncTypeInv
  OBVIOUS
<1>1. NetTyped
  BY MetaInitInv DEF SyncInit, MetaInit, NetTyped, AnswerOK
<1>2. DiskTyped /\ RunTyped
  BY DEF SyncInit, DiskTyped, RunTyped, VisitOK
<1>3. (\A c \in Clients : WaitOK(c)) /\ Unshared /\ events \in Nat
  BY DEF SyncInit, WaitOK, Unshared
<1> QED BY <1>1, <1>2, <1>3 DEF SyncTypeInv

(* The metaserver and the machines keep their types, with any number of    *)
(* machines, files and handler processes, at once or in turns, and under   *)
(* every fault: what sync.py takes from an answer is what the handler of   *)
(* that request has put there.                                             *)
THEOREM SyncTypeCorrect == SyncSpec => []SyncTypeOK
<1>1. SyncSpec => []SyncTypeInv
  BY TypeInit, TypeStep, PTL DEF SyncSpec
<1> QED BY <1>1, TypeParts, PTL

-----------------------------------------------------------------------------
(* Machines that take turns                                                *)

(* The user starts sync.py only when nothing of an earlier run goes on,    *)
(* and the web server waits for its handlers.                              *)
Turns == TakeTurns /\ "timeout" \notin ClientFaults

(* One machine runs at a time and one handler serves at a time: the one    *)
(* that the machine waits for, or one that a killed run has left behind.   *)
TurnInv ==
    /\ \A c, d \in Clients : cpc[c] # "idle" /\ cpc[d] # "idle" => c = d
    /\ \A w, x \in Workers : pc[w] # "idle" /\ pc[x] # "idle" => w = x
    /\ \A c \in Clients, w \in Workers :
          cpc[c] # "idle" /\ pc[w] # "idle" => server[c] = w

(* A run begins only with Start or with the option --download.             *)
LEMMA Starting ==
    ASSUME SyncTypeInv, NEW c \in Clients, ClientStep(c), cpc[c] = "idle",
           cpc'[c] # "idle"
    PROVE  MayStart(c)
<1>1. ~Ending(c) /\ ~Visiting(c)
  BY EndingEnds, VisitingTyped
<1>2. ~Touching(c) /\ ~Send(c)
  BY DEF Touching, RemoveVersions, Remove, Edit, Send, SendFileList, SendBlockList,
     SendCommit, SendDelete, SendTo, runVars
<1>3. Looping(c)
  BY <1>1, <1>2, Kinds
<1> QED BY <1>3 DEF Looping, Start, StartOption, VisitLocal, VisitListed, Visit,
    SkipPresent, FileListed, LoopOver

(* Every step keeps turns.                                                 *)
LEMMA TurnStep ==
    ASSUME Turns, SyncTypeInv, TurnInv, [SyncNext]_syncVars
    PROVE  TurnInv'
<1>0. /\ server \in [Clients -> Workers \cup {NoWorker}] /\ MetaInv
      /\ pc \in [Workers -> {"idle", "select", "delete", "insert", "query",
                              "blockList", "fileList", "remove", "recent", "done"}]
      /\ NoWorker \notin Workers
  BY SyncAssumption DEF SyncTypeInv, NetTyped, MetaInv, MetaTypeOK
<1>1. ASSUME NEW c \in Clients, ClientStep(c) PROVE TurnInv'
  <2>0. \A d \in Clients \ {c} : cpc'[d] = cpc[d] /\ server'[d] = server[d]
    BY <1>1, RunStep, OthersWait DEF RunKept
  <2>1. cpc'[c] # "idle" => \/ cpc[c] # "idle"
                            \/ /\ \A d \in Clients : cpc[d] = "idle"
                               /\ \A w \in Workers : pc[w] = "idle"
    BY <1>1, Starting DEF MayStart, Turns
  <2>2. \A d, e \in Clients : cpc'[d] # "idle" /\ cpc'[e] # "idle" => d = e
    BY <2>0, <2>1 DEF TurnInv
  <2>3. CASE Quiet(c)
    BY <2>0, <2>1, <2>2, <2>3 DEF Quiet, netVars, metaVars, TurnInv
  <2>4. CASE Asks(c)
    <3>1. PICK w \in Workers, r \in Requests : SendTo(c, w, r) /\ Asked(c, r)
      BY <2>4 DEF Asks
    <3>2. server[c] = NoWorker /\ cpc[c] # "idle"
      BY <3>1 DEF SendTo, Asked
    <3>3. \A x \in Workers : pc[x] = "idle"
      BY <1>0, <3>2 DEF TurnInv
    <3>4. \A x \in Workers \ {w} : pc'[x] = "idle"
      BY <1>0, <3>1, <3>3 DEF SendTo, Accept
    <3>5. server'[c] = w
      BY <1>0, <3>1 DEF SendTo
    <3>6. \A d \in Clients \ {c} : cpc'[d] = "idle"
      BY <2>0, <3>2 DEF TurnInv
    <3> QED BY <2>2, <3>4, <3>5, <3>6 DEF TurnInv
  <2>5. CASE Hears(c)
    <3>1. PICK w \in Workers : Answered(c, w)
      BY <2>5 DEF Hears
    <3>2. pc[w] = "done" /\ pc' = [pc EXCEPT ![w] = "idle"]
      BY <3>1 DEF Answered, Respond
    <3>3. \A x \in Workers : pc'[x] = "idle"
      BY <1>0, <3>2 DEF TurnInv
    <3> QED BY <2>2, <3>3 DEF TurnInv
  <2>6. CASE GivesUp(c) /\ Dies(c)
    <3>1. cpc[c] # "idle" /\ cpc'[c] = "idle" /\ UNCHANGED pc
      BY <2>6 DEF GivesUp, metaVars, Dies, Exit, SyncTypeInv, RunTyped
    <3>2. \A d \in Clients : cpc'[d] = "idle"
      BY <2>0, <3>1 DEF TurnInv
    <3> QED BY <3>1, <3>2 DEF TurnInv
  <2> QED BY <1>1, <2>3, <2>4, <2>5, <2>6, NetForms DEF Turns
<1>2. ASSUME NEW w \in Workers, WorkerStep(w) \/ DropReply(w) PROVE TurnInv'
  <2>1. UNCHANGED <<server, cpc>>
    BY <1>2, WorkerTyped DEF runVars
  <2>2. \A x \in Workers : pc'[x] # "idle" => pc[x] # "idle"
    <3>1. CASE WorkerStep(w)
      BY <1>0, <3>1, WorkFrame DEF WorkerStep, Work
    <3>2. CASE DropReply(w)
      BY <1>0, <3>2 DEF DropReply, Respond
    <3> QED BY <1>2, <3>1, <3>2
  <2> QED BY <2>1, <2>2 DEF TurnInv
<1>3. CASE UNCHANGED syncVars
  BY <1>3 DEF syncVars, netVars, metaVars, runVars, TurnInv
<1> QED BY <1>1, <1>2, <1>3 DEF SyncNext, ClientStep

(* what holds while machines take turns                                    *)
OrderInv == SyncTypeInv /\ TurnInv /\ SerialInv

(* Every step keeps it.                                                    *)
LEMMA OrderStep ==
    ASSUME Turns, OrderInv, [SyncNext]_syncVars
    PROVE  OrderInv'
<1>1. SyncTypeInv' /\ TurnInv'
  BY TypeStep, TurnStep DEF OrderInv
<1>2. Serialised'
  BY <1>1 DEF TurnInv, Serialised
<1>3. SerialInv'
  BY <1>2, StepOfMetaserver, SerialNextInv DEF OrderInv, SyncTypeInv, NetTyped
<1> QED BY <1>1, <1>3 DEF OrderInv

(* The empty system satisfies it.                                          *)
LEMMA OrderInit == SyncInit => OrderInv
BY TypeInit, SerialInitInv DEF SyncInit, MetaInit, OrderInv, TurnInv

(* With machines that take turns, killed at any step and restarted when    *)
(* their last request is done, and whatever statements and handlers fail,  *)
(* the metaserver is the versioned register of FileStore: taking turns is  *)
(* enough for the requests of a user to be served one at a time.           *)
THEOREM TurnsGiveFileStore ==
    ASSUME Turns
    PROVE  SyncSpec => ImplementsFileStore
<1>1. SyncSpec => []OrderInv
  BY OrderInit, OrderStep, PTL DEF SyncSpec
<1>2. OrderInv /\ OrderInv' /\ [SyncNext]_syncVars => [FS!Next]_(FS!fsVars)
  BY StepOfMetaserver, NextImplements DEF OrderInv, SyncTypeInv, NetTyped
<1>3. SyncInit => FS!Init
  BY InitImplements DEF SyncInit
<1> QED BY <1>1, <1>2, <1>3, PTL DEF SyncSpec, ImplementsFileStore, FS!Spec

-----------------------------------------------------------------------------
(* What steps do to the files on the server                                *)

(* the user's file f as the register of FileStore has it                   *)
Current(f) == fileBar[<<User, f>>]

(* A machine's step, or the end of an unattended request, changes no file. *)
LEMMA ClientKeepsFiles ==
    ASSUME SyncTypeInv,
           \/ \E c \in Clients : ClientStep(c)
           \/ \E w \in Workers : DropReply(w)
    PROVE  UNCHANGED fileBar
<1>0. MetaInv
  BY DEF SyncTypeInv, NetTyped
<1>1. ASSUME UNCHANGED metaVars PROVE UNCHANGED fileBar
  BY <1>1, SameTableSameFiles DEF metaVars, FS!fsVars
<1>2. ASSUME NEW w \in Workers, Respond(w) PROVE UNCHANGED fileBar
  BY <1>0, <1>2, RespondForgets DEF FS!Forget
<1>3. ASSUME NEW w \in Workers, NEW r \in Requests, Accept(w, r)
      PROVE  UNCHANGED fileBar
  BY <1>0, <1>3, TakeStutters DEF FS!fsVars
<1>4. ASSUME NEW c \in Clients, ClientStep(c) PROVE UNCHANGED fileBar
  BY <1>1, <1>2, <1>3, <1>4, NetForms DEF Quiet, Asks, Hears, GivesUp, netVars,
     SendTo, Answered
<1> QED BY <1>2, <1>4 DEF DropReply

(* A machine's step touches a worker only to give it a request or to take  *)
(* its answer.                                                             *)
LEMMA ClientWorkers ==
    ASSUME SyncTypeInv, NEW c \in Clients, ClientStep(c), NEW x \in Workers
    PROVE  \/ UNCHANGED <<pc[x], req[x], i[x], reply[x]>>
           \/ pc'[x] = "idle" /\ server[c] = x
           \/ /\ pc[x] = "idle" /\ pc'[x] \notin {"idle", "delete", "insert", "done"}
              /\ server[c] = NoWorker /\ Asked(c, req'[x])
              /\ UNCHANGED <<diskVars, runVars>>
<1>0. MetaInv
  BY DEF SyncTypeInv, NetTyped
<1>1. CASE Quiet(c) \/ GivesUp(c)
  BY <1>1 DEF Quiet, GivesUp, netVars, metaVars
<1>2. CASE Hears(c)
  BY <1>0, <1>2 DEF Hears, Answered, Respond, MetaInv, MetaTypeOK
<1>3. CASE Asks(c)
  <2>1. PICK w \in Workers, r \in Requests : SendTo(c, w, r) /\ Asked(c, r)
    BY <1>3 DEF Asks
  <2>2. Accept(w, r) /\ server[c] = NoWorker /\ UNCHANGED <<diskVars, runVars>>
    BY <2>1 DEF SendTo
  <2>3. CASE x = w
    <3>1. pc[x] = "idle" /\ pc'[x] = FirstStatement[r.op] /\ req'[x] = r
      BY <1>0, <2>2, <2>3 DEF Accept, MayServe, MetaInv, MetaTypeOK
    <3>2. pc'[x] \notin {"idle", "delete", "insert", "done"}
      BY <2>2, <3>1, StatementOfRequest DEF Accept
    <3> QED BY <2>1, <2>2, <3>1, <3>2
  <2>4. CASE x # w
    BY <1>0, <2>2, <2>4 DEF Accept, MetaInv, MetaTypeOK
  <2> QED BY <2>3, <2>4
<1> QED BY <1>1, <1>2, <1>3, NetForms

(* w shows the file that is stored                                         *)
Shown(w) ==
    /\ pc[w] = "done" /\ reply[w].status = 200 /\ req[w].op = "block_list"
    => /\ reply[w].blocks = fileBar[Key(req[w])].blocks
       /\ reply[w].version = fileBar[Key(req[w])].version

(* a commit of w is stored, or about to be acknowledged                    *)
Written(w) ==
    \/ pc[w] = "insert" /\ i[w] = Len(req[w].hashes)
    \/ pc[w] = "done" /\ reply[w].status = 200

(* nothing that w does changes a file, and its answer is true              *)
Harmless(w) ==
    /\ UNCHANGED fileBar
    /\ Shown(w)'
    /\ pc'[w] = "insert" => pc[w] = "insert"
    /\ req[w].op = "file_commit" /\ Written(w)' =>
          pc[w] = "insert" /\ (LastRow(w) \/ i[w] = Len(req[w].hashes))

(* Without failures a worker replaces a file, deletes one, or is harmless. *)
LEMMA WorkerEffect ==
    ASSUME Faults = {}, OrderInv, OrderInv', NEW w \in Workers, WorkerStep(w)
    PROVE  \/ /\ pc[w] = "delete" /\ pc'[w] = "insert" /\ i'[w] = 0
              /\ FS!Commit(Key(req[w]), req[w].version, req[w].hashes)
           \/ /\ req[w].op = "file_delete" /\ pc'[w] = "done"
              /\ fileBar' = [fileBar EXCEPT ![Key(req[w])] = FS!Absent]
           \/ Harmless(w)
<1>0. MetaInv /\ SerialInv /\ SerialInv'
  BY DEF OrderInv, SyncTypeInv, NetTyped
<1>1. Serve(w) /\ UNCHANGED req
  <2>1. Serve(w)
    BY DEF WorkerStep, StatementFails, CommitFails, QueryFails, RequestFails, Crash,
       DiesBetween, DiesAfterRemove
  <2> QED BY <1>0, <2>1, WorkFrame DEF Work
<1>2. ASSUME NEW r, Answer(w, r), pc[w] \in {"select", "query", "fileList", "recent"},
             UNCHANGED fileBlock, req[w].op # "file_commit" \/ r.status # 200
      PROVE  Harmless(w)
  <2>1. req[w].op # "block_list"
    BY <1>0, <1>2 DEF MetaInv, WorkerOK, CommitRequests, QueryRequests,
       ListRequests, RecentRequests
  <2>2. UNCHANGED fileBar
    BY <1>0, <1>1, <1>2, <2>1, AnswerStutters DEF FS!fsVars
  <2>3. pc'[w] = "done" /\ reply'[w] = r
    BY <1>0, <1>2 DEF Answer, MetaInv, MetaTypeOK
  <2> QED BY <1>1, <1>2, <2>1, <2>2, <2>3 DEF Harmless, Shown, Written
<1>3. CASE VersionAccepted(w)
  <2>1. /\ pc[w] = "select" /\ pc'[w] = "delete" /\ UNCHANGED fileBlock
        /\ \A x \in Workers \ {w} : pc'[x] = pc[x] /\ req'[x] = req[x]
    BY <1>0, <1>1, <1>3 DEF VersionAccepted, MetaInv, MetaTypeOK
  <2>2. UNCHANGED fileBar
    BY <2>1, FilesKept
  <2> QED BY <2>1, <2>2 DEF Harmless, Shown, Written
<1>4. CASE VersionRefused(w)
  BY <1>2, <1>4, ReplyStatus DEF VersionRefused
<1>5. CASE DeleteOldRows(w)
  <2>1. pc[w] = "delete" /\ pc'[w] = "insert" /\ i'[w] = 0
    BY <1>0, <1>5 DEF DeleteOldRows, MetaInv, MetaTypeOK, WorkerOK
  <2> QED BY <1>0, <1>5, <2>1, DeleteCommits
<1>6. CASE InsertRow(w)
  <2>1. UNCHANGED fileBar
    BY <1>0, <1>6, InsertStutters DEF FS!fsVars
  <2>2. pc[w] = "insert" /\ pc'[w] = "insert" /\ i'[w] = i[w] + 1
    BY <1>0, <1>6 DEF InsertRow, MetaInv, MetaTypeOK
  <2> QED BY <1>1, <2>1, <2>2 DEF Harmless, Shown, Written, LastRow
<1>7. CASE CommitDone(w)
  <2> DEFINE k == Key(req[w])
             r == req[w]
  <2>1. /\ pc[w] = "insert" /\ i[w] = Len(r.hashes) /\ r \in CommitRequests /\ k \in Keys
        /\ r.hashes \in Seq(Hashes) /\ Len(r.hashes) \in Nat /\ r.op = "file_commit"
    BY <1>0, <1>7, HashesTyped
       DEF CommitDone, MetaInv, WorkerOK, CommitRequests, Key, Keys
  <2>2. Answer(w, CommitReply(TRUE)) /\ UNCHANGED <<fileBlock, req>>
        /\ (i[w] < Len(req[w].hashes) => Faults # {})
    <3>1. ~(i[w] < Len(r.hashes))
      BY <2>1
    <3> QED BY <1>7, <3>1 DEF CommitDone
  <2>3. fileBar' = [fileBar EXCEPT ![k] =
                        FS!Stored(fileBar[k].version,
                                  SubSeq(fileBar[k].blocks, 1, i[w]))]
    BY <1>0, <2>1, <2>2, AnswerSettles DEF FS!Settle
  <2>4. fileBar[k] = FileOfRequest(r) /\ fileBar[k].blocks = r.hashes
    BY <1>0, <2>1, FileWhileInserting, RequestIsStored DEF SerialInv
  <2>5. SubSeq(r.hashes, 1, i[w]) = r.hashes
    BY <2>1
  <2>6. FS!Stored(FileOfRequest(r).version, r.hashes) = FileOfRequest(r)
    BY <2>1, RequestIsStored, AbsentFile DEF FileOfRequest, FS!Stored
  <2>7. fileBar' = [fileBar EXCEPT ![k] = fileBar[k]]
    BY <2>3, <2>4, <2>5, <2>6
  <2>8. UNCHANGED fileBar
    BY <2>7, BarsAreFunctions
  <2>9. pc'[w] = "done"
    BY <1>0, <2>2 DEF Answer, MetaInv, MetaTypeOK
  <2> QED BY <1>1, <2>1, <2>8, <2>9 DEF Harmless, Shown
<1>8. CASE QueryHash(w)
  <2>1. UNCHANGED <<fileBlock, pc, req, reply>> /\ pc[w] = "query"
    BY <1>8 DEF QueryHash
  <2>2. UNCHANGED fileBar
    BY <2>1, SameTableSameFiles DEF FS!fsVars
  <2> QED BY <2>1, <2>2 DEF Harmless, Shown, Written
<1>9. CASE QueryDone(w) \/ FreeUninitialised(w) \/ ReadFileList(w) \/ ReadRecentHashes(w)
  <2>1. /\ pc[w] \in {"query", "fileList", "recent"} /\ UNCHANGED fileBlock
        /\ \E r : Answer(w, r)
    BY <1>9 DEF QueryDone, FreeUninitialised, ReadFileList, ReadRecentHashes
  <2>2. req[w].op # "file_commit"
    BY <1>0, <2>1 DEF MetaInv, WorkerOK, QueryRequests, ListRequests, RecentRequests
  <2> QED BY <1>2, <2>1, <2>2
<1>10. CASE ReadBlockList(w)
  <2> DEFINE k == Key(req[w])
             f == FileOfRows(fileBlock[k])
  <2>1. pc[w] = "blockList" /\ req[w].op = "block_list" /\ k \in Keys
        /\ UNCHANGED fileBlock
    <3>1. pc[w] = "blockList" /\ UNCHANGED fileBlock
      BY <1>10 DEF ReadBlockList
    <3>2. req[w] \in FileRequests /\ req[w].op = "block_list"
      BY <1>0, <3>1 DEF MetaInv, WorkerOK
    <3>3. k \in Keys
      BY <3>2 DEF FileRequests, Key, Keys
    <3> QED BY <3>1, <3>2, <3>3
  <2>2. PICK s \in Ordered(fileBlock[k]) : Answer(w, BlockListAnswer(fileBlock[k], s))
    BY <1>10 DEF ReadBlockList
  <2>3. Answer(w, ListReply(f.blocks, f.version))
    BY <1>0, <2>1, <2>2, AnswerIsFile DEF SerialInv
  <2>4. /\ pc'[w] = "done" /\ reply'[w] = ListReply(f.blocks, f.version)
        /\ \A x \in Workers \ {w} : pc'[x] = pc[x] /\ req'[x] = req[x]
    BY <1>0, <1>1, <2>3 DEF Answer, MetaInv, MetaTypeOK
  <2>5. fileBar[k] = f
    <3>1. \A x \in Workers : ~(pc[x] = "insert" /\ Key(req[x]) = k)
      BY <2>1 DEF OrderInv, TurnInv
    <3> QED BY <2>1, <3>1, FileAtRest
  <2>6. UNCHANGED fileBar
    BY <2>1, <2>4, FilesKept
  <2>7. reply'[w].blocks = f.blocks /\ reply'[w].version = f.version
    BY <2>4 DEF ListReply
  <2> QED BY <1>1, <2>1, <2>4, <2>5, <2>6, <2>7 DEF Harmless, Shown
<1>11. CASE RemoveFile(w)
  <2>1. req[w].op = "file_delete" /\ pc'[w] = "done"
    BY <1>0, <1>11 DEF RemoveFile, Answer, MetaInv, MetaTypeOK, WorkerOK
  <2> QED BY <1>0, <1>11, <2>1, RemoveDeletes DEF FS!Delete
<1> QED BY <1>1, <1>3, <1>4, <1>5, <1>6, <1>7, <1>8, <1>9, <1>10, <1>11 DEF Serve

-----------------------------------------------------------------------------
(* Whole files.  Users may remove, empty and edit files at any time, also  *)
(* while sync.py runs, requests fail and sync.py is killed at any step,    *)
(* with a commit under way; but machines take turns, statements and        *)
(* handlers do not fail, machines do not stop in the middle of a write,    *)
(* and the cache answers with the blocks asked for.                        *)
Orderly ==
    /\ Turns
    /\ Faults = {}
    /\ {"power", "cache"} \cap ClientFaults = {}

WholeFiles == \A f \in Files : Current(f) # FS!Absent => Current(f).blocks \in Contents

CommitsWhole(w) ==
    pc[w] # "idle" /\ req[w].op = "file_commit" =>
        req[w].hashes \in Contents \cup {<<>>}

(* What sync.py has read or holds in memory is a whole file or no file.    *)
HoldsWhole(c) ==
    /\ cpc[c] \in {"decide", "commit"} => job[c].blocks \in Contents \cup {<<>>}
    /\ cpc[c] = "download" => job[c].blocks \in Contents

WholeInv ==
    /\ OrderInv
    /\ WholeFiles
    /\ \A w \in Workers : Shown(w) /\ CommitsWhole(w)
    /\ \A c \in Clients, f \in Files : local[c][f] \in Contents \cup {NoFile}
    /\ \A c \in Clients : HoldsWhole(c)

(* The steps of a machine that write a file.                               *)
LEMMA WritesLocal ==
    ASSUME NEW c \in Clients, ClientStep(c)
    PROVE  \/ UNCHANGED local
           \/ Download(c) \/ DownloadPoisoned(c) \/ PowerLoss(c) \/ RemoveLocal(c)
           \/ \E f \in Files : Remove(c, f) \/ \E b \in Contents : Edit(c, f, b)
<1>1. CASE Ending(c)
  BY <1>1 DEF Ending, FileListFails, Finish, VersionsUnreadable, BlockListFails,
     NothingThere, AlreadyInSync, DecideRaises, UploadFails, DownloadFails,
     Save, DeleteFails, ForgetVersion, Dies, diskVars
<1>2. CASE Looping(c) \/ Send(c)
  BY <1>2 DEF Looping, Start, StartOption, VisitLocal, VisitListed, Visit,
     SkipPresent, FileListed, Send, SendFileList, SendBlockList, SendCommit,
     SendDelete, SendTo, diskVars
<1>3. CASE Visiting(c)
  BY <1>3 DEF Visiting, BlockListed, CommitAnswered, DeleteAnswered, DecideUpload,
     DecideDownload, Split, diskVars
<1>4. CASE Touching(c)
  BY <1>4 DEF Touching, RemoveVersions
<1> QED BY <1>1, <1>2, <1>3, <1>4, Kinds

(* block_list shows a machine the file that is stored.                     *)
LEMMA ListedIsCurrent ==
    ASSUME SyncTypeInv, NEW c \in Clients, NEW w \in Workers, BlockListed(c, w),
           Shown(w)
    PROVE  /\ cpc[c] = "ask" /\ cpc'[c] = "decide" /\ Name(c) \in Files
           /\ job'[c] = Job(Name(c), Current(Name(c)).blocks, Current(Name(c)).version)
<1>1. cpc[c] = "ask" /\ server[c] = w /\ server[c] # NoWorker
      /\ pc[w] = "done" /\ reply[w].status = 200
  BY SyncAssumption DEF BlockListed, Answered, Respond
<1>2. req[w] = FileRequest(c, "block_list")
  BY <1>1 DEF SyncTypeInv, WaitOK, Asked
<1>3. req[w].op = "block_list" /\ Key(req[w]) = <<User, Name(c)>>
  BY <1>2 DEF FileRequest, Key
<1>4. reply[w].blocks = Current(Name(c)).blocks /\ reply[w].version = Current(Name(c)).version
  BY <1>1, <1>3 DEF Shown, Current
<1>5. cpc'[c] = "decide" /\ job'[c] = Job(Name(c), reply[w].blocks, reply[w].version)
  BY DEF BlockListed, GoToWith, SyncTypeInv, RunTyped
<1>6. Name(c) \in Files
  BY <1>1, JobTyped
<1> QED BY <1>1, <1>4, <1>5, <1>6

(* What a machine holds stays whole.                                       *)
LEMMA HoldsWholeStep ==
    ASSUME WholeInv, NEW c \in Clients, ClientStep(c)
    PROVE  HoldsWhole(c)'
<1>0. SyncTypeInv /\ HoldsWhole(c) /\ RunTyped
  BY DEF WholeInv, OrderInv, SyncTypeInv
<1>1. CASE Ending(c)
  BY <1>0, <1>1, EndingEnds, EndingTyped DEF HoldsWhole
<1>2. CASE Touching(c) \/ Send(c)
  <2>1. UNCHANGED <<cpc, job>>
    BY <1>2 DEF Touching, RemoveVersions, Remove, Edit, Send, SendFileList,
       SendBlockList, SendCommit, SendDelete, SendTo, runVars
  <2> QED BY <1>0, <2>1 DEF HoldsWhole
<1>3. CASE Looping(c)
  <2>1. cpc'[c] \in {"next", "ask", "delete"}
    <3>1. CASE Start(c) \/ \E f \in Files : StartOption(c, f)
      BY <1>0, <3>1 DEF Start, StartOption, RunTyped
    <3>2. ASSUME NEW e \in todo[c], VisitLocal(c, e) \/ VisitListed(c, e)
          PROVE  cpc'[c] \in {"next", "ask", "delete"}
      BY <1>0, <3>2 DEF VisitLocal, VisitListed, Visit, RunTyped
    <3>3. CASE \/ \E e \in todo[c] : SkipPresent(c, e)
               \/ \E w \in Workers : FileListed(c, w)
      BY <3>3 DEF SkipPresent, FileListed, LoopOver
    <3> QED BY <1>3, <3>1, <3>2, <3>3 DEF Looping
  <2> QED BY <2>1 DEF HoldsWhole
<1>4. ASSUME NEW w \in Workers, BlockListed(c, w) PROVE HoldsWhole(c)'
  <2>1. cpc'[c] = "decide" /\ Name(c) \in Files
        /\ job'[c] = Job(Name(c), Current(Name(c)).blocks, Current(Name(c)).version)
    BY <1>0, <1>4, ListedIsCurrent DEF WholeInv
  <2>2. Current(Name(c)).blocks \in Contents \cup {<<>>}
    BY <2>1 DEF WholeInv, WholeFiles, FS!Absent
  <2> QED BY <2>1, <2>2 DEF HoldsWhole, Job
<1>5. CASE DecideDownload(c)
  BY <1>0, <1>5 DEF DecideDownload, Deciding, Gone, GoTo, HoldsWhole, RunTyped
<1>6. CASE Split(c)
  <2> DEFINE b == IF LocalOf(c) = NoFile THEN <<>> ELSE LocalOf(c)
  <2>1. cpc[c] = "split" /\ cpc'[c] = "commit" /\ job'[c] = Job(Name(c), b, job[c].version)
    BY <1>0, <1>6 DEF Split, GoToWith, RunTyped
  <2>2. b \in Contents \cup {<<>>}
    BY <1>0, <2>1, JobTyped DEF WholeInv, LocalOf
  <2> QED BY <2>1, <2>2 DEF HoldsWhole, Job
<1>7. CASE \/ DecideUpload(c) \/ RemoveLocal(c) \/ Download(c) \/ DownloadPoisoned(c)
           \/ \E w \in Workers : CommitAnswered(c, w) \/ DeleteAnswered(c, w)
  <2>1. \E p \in {"split", "forget", "save"} : cpc' = [cpc EXCEPT ![c] = p]
    BY <1>7 DEF DecideUpload, RemoveLocal, Download, DownloadPoisoned,
       CommitAnswered, DeleteAnswered, GoTo, GoToWith
  <2>2. cpc'[c] \in {"split", "forget", "save"}
    BY <1>0, <2>1 DEF RunTyped
  <2> QED BY <2>2 DEF HoldsWhole
<1> QED BY <1>1, <1>2, <1>3, <1>4, <1>5, <1>6, <1>7, Kinds DEF Visiting

(* What a machine writes to its directory is whole.                        *)
LEMMA LocalWhole ==
    ASSUME Orderly, WholeInv, NEW c \in Clients, ClientStep(c)
    PROVE  \A d \in Clients, f \in Files : local'[d][f] \in Contents \cup {NoFile}
<1>0. SyncTypeInv /\ local \in [Clients -> [Files -> Seq(Hashes) \cup {NoFile}]]
  BY DEF WholeInv, OrderInv, SyncTypeInv, DiskTyped
<1>1. ASSUME NEW f \in Files, NEW b \in Contents \cup {NoFile},
             local' = [local EXCEPT ![c][f] = b]
      PROVE  \A d \in Clients, g \in Files : local'[d][g] \in Contents \cup {NoFile}
  BY <1>0, <1>1 DEF WholeInv
<1>2. CASE UNCHANGED local
  BY <1>2 DEF WholeInv
<1>3. CASE Download(c)
  <2>1. Name(c) \in Files /\ job[c].blocks \in Contents
    BY <1>0, <1>3, JobTyped DEF Download, WholeInv, HoldsWhole
  <2> QED BY <1>1, <1>3, <2>1 DEF Download, SetLocal
<1>4. CASE RemoveLocal(c)
  <2>1. Name(c) \in Files
    BY <1>0, <1>4, JobTyped DEF RemoveLocal, Deciding
  <2> QED BY <1>1, <1>4, <2>1 DEF RemoveLocal, SetLocal
<1>5. ASSUME NEW f \in Files, Remove(c, f) \/ \E b \in Contents : Edit(c, f, b)
      PROVE  \A d \in Clients, g \in Files : local'[d][g] \in Contents \cup {NoFile}
  BY <1>1, <1>5 DEF Remove, Edit
<1>6. ~DownloadPoisoned(c) /\ ~PowerLoss(c)
  BY DEF Orderly, DownloadPoisoned, PowerLoss
<1> QED BY <1>2, <1>3, <1>4, <1>5, <1>6, WritesLocal

(* A request sent, or not, keeps what workers show and commit.             *)
LEMMA ClientKeepsWorkers ==
    ASSUME WholeInv, NEW c \in Clients, ClientStep(c), NEW x \in Workers
    PROVE  Shown(x)' /\ CommitsWhole(x)'
<1>0. SyncTypeInv /\ Shown(x) /\ CommitsWhole(x) /\ HoldsWhole(c)
  BY DEF WholeInv, OrderInv
<1>1. CASE UNCHANGED <<pc[x], req[x], i[x], reply[x]>>
  <2>1. pc'[x] = pc[x] /\ req'[x] = req[x] /\ reply'[x] = reply[x]
        /\ UNCHANGED fileBar
    BY <1>0, <1>1, ClientKeepsFiles
  <2>2. Key(req[x])' = Key(req[x])
    BY <2>1 DEF Key
  <2> QED BY <1>0, <2>1, <2>2 DEF Shown, CommitsWhole
<1>2. CASE pc'[x] = "idle"
  BY <1>2 DEF Shown, CommitsWhole
<1>3. CASE pc'[x] \notin {"idle", "delete", "insert", "done"} /\ Asked(c, req'[x])
  <2>1. ASSUME req'[x].op = "file_commit" PROVE req'[x].hashes \in Contents \cup {<<>>}
    <3>1. cpc[c] = "commit" /\ req'[x] = CommitRequest(c)
      BY <1>3, <2>1 DEF Asked, FileRequest
    <3> QED BY <1>0, <3>1 DEF CommitRequest, HoldsWhole
  <2> QED BY <1>3, <2>1 DEF Shown, CommitsWhole
<1> QED BY <1>0, <1>1, <1>2, <1>3, ClientWorkers

(* Every step keeps files whole.                                           *)
LEMMA WholeStep ==
    ASSUME Orderly, WholeInv, [SyncNext]_syncVars
    PROVE  WholeInv'
<1>0. OrderInv /\ OrderInv' /\ SyncTypeInv /\ MetaInv
  BY OrderStep DEF WholeInv, Orderly, OrderInv, SyncTypeInv, NetTyped
<1>1. ASSUME NEW c \in Clients, ClientStep(c) PROVE WholeInv'
  <2>1. WholeFiles'
    BY <1>0, <1>1, ClientKeepsFiles DEF WholeInv, WholeFiles, Current
  <2>2. ASSUME NEW d \in Clients PROVE HoldsWhole(d)'
    <3>1. CASE d = c
      BY <1>1, <3>1, HoldsWholeStep
    <3>2. CASE d # c
      <4>1. cpc'[d] = cpc[d] /\ job'[d] = job[d]
        BY <1>0, <1>1, <3>2, RunStep DEF RunKept
      <4> QED BY <4>1 DEF WholeInv, HoldsWhole
    <3> QED BY <3>1, <3>2
  <2> QED BY <1>0, <1>1, <2>1, <2>2, LocalWhole, ClientKeepsWorkers DEF WholeInv
<1>2. ASSUME NEW w \in Workers, WorkerStep(w) \/ DropReply(w) PROVE WholeInv'
  <2>1. UNCHANGED <<local, cpc, job>>
    BY <1>0, <1>2, WorkerTyped DEF runVars
  <2>2. (\A c \in Clients, f \in Files : local'[c][f] \in Contents \cup {NoFile})
        /\ \A c \in Clients : HoldsWhole(c)'
    BY <2>1 DEF WholeInv, HoldsWhole
  <2>3. CASE DropReply(w)
    <3>1. /\ UNCHANGED fileBar
          /\ \A x \in Workers \ {w} : UNCHANGED <<pc[x], req[x], reply[x]>>
          /\ pc'[w] = "idle"
      BY <1>0, <2>3, ClientKeepsFiles DEF DropReply, Respond, MetaInv, MetaTypeOK
    <3>2. \A x \in Workers : Shown(x)' /\ CommitsWhole(x)'
      BY <3>1 DEF WholeInv, Shown, CommitsWhole, Key
    <3> QED BY <1>0, <2>2, <3>1, <3>2 DEF WholeInv, WholeFiles, Current
  <2>4. CASE WorkerStep(w)
    <3>1. /\ pc[w] # "idle" /\ req' = req /\ pc'[w] # "idle"
          /\ \A x \in Workers \ {w} : pc'[x] = pc[x]
      BY <1>0, <2>4, WorkFrame DEF WorkerStep, Work
    <3>2. \A x \in Workers \ {w} : pc'[x] = "idle"
      BY <1>0, <3>1 DEF OrderInv, TurnInv
    <3>3. \A x \in Workers : CommitsWhole(x)'
      BY <3>1 DEF WholeInv, CommitsWhole
    <3>4. \A x \in Workers \ {w} : Shown(x)'
      BY <3>2 DEF Shown
    <3>5. CASE Harmless(w)
      BY <1>0, <2>2, <3>3, <3>4, <3>5 DEF Harmless, WholeInv, WholeFiles, Current
    <3>6. CASE /\ req[w].op = "file_delete"
               /\ fileBar' = [fileBar EXCEPT ![Key(req[w])] = FS!Absent]
      <4>1. \A f \in Files : Current(f)' = Current(f) \/ Current(f)' = FS!Absent
        <5>1. \A f \in Files : <<User, f>> \in Keys
          BY SyncAssumption DEF Keys, Files
        <5> QED BY <3>6, <5>1, BarsAreFunctions DEF Current
      <4>2. Shown(w)'
        BY <3>1, <3>6 DEF Shown
      <4> QED BY <1>0, <2>2, <3>3, <3>4, <4>1, <4>2 DEF WholeInv, WholeFiles
    <3>7. CASE /\ pc[w] = "delete" /\ pc'[w] = "insert"
               /\ FS!Commit(Key(req[w]), req[w].version, req[w].hashes)
      <4> DEFINE new == FS!Stored(req[w].version, req[w].hashes)
      <4>1. req[w].op = "file_commit"
        BY <1>0, <3>7 DEF MetaInv, WorkerOK, CommitRequests
      <4>2. new = FS!Absent \/ new.blocks \in Contents
        BY <3>1, <4>1 DEF WholeInv, CommitsWhole, FS!Stored
      <4>3. \A f \in Files : Current(f)' = Current(f) \/ Current(f)' = new
        <5>1. \A f \in Files : <<User, f>> \in Keys
          BY SyncAssumption DEF Keys, Files
        <5>2. fileBar' = [fileBar EXCEPT ![Key(req[w])] = new]
          BY <3>7 DEF FS!Commit
        <5> QED BY <5>1, <5>2, BarsAreFunctions DEF Current
      <4>4. Shown(w)'
        BY <3>7 DEF Shown
      <4> QED BY <1>0, <2>2, <3>3, <3>4, <4>2, <4>3, <4>4 DEF WholeInv, WholeFiles
    <3> QED BY <1>0, <2>4, <3>5, <3>6, <3>7, WorkerEffect DEF Orderly
  <2> QED BY <1>2, <2>3, <2>4
<1>3. CASE UNCHANGED syncVars
  <2>1. UNCHANGED <<fileBlock, pc, req, reply, local, cpc, job>>
    BY <1>3 DEF syncVars, netVars, metaVars, diskVars, runVars
  <2>2. UNCHANGED fileBar
    BY <2>1, SameTableSameFiles DEF FS!fsVars
  <2> QED BY <1>0, <2>1, <2>2
      DEF WholeInv, WholeFiles, Current, Shown, CommitsWhole, HoldsWhole, Key
<1> QED BY <1>1, <1>2, <1>3 DEF SyncNext, ClientStep

(* No file is there at first.                                              *)
LEMMA InitCurrent ==
    ASSUME SyncInit PROVE \A f \in Files : Current(f) = FS!Absent
<1>1. \A f \in Files : <<User, f>> \in Keys
  BY SyncAssumption DEF Keys, Files
<1>2. fileBar = [k \in Keys |-> FS!Absent]
  BY InitImplements DEF SyncInit, FS!Init
<1> QED BY <1>1, <1>2 DEF Current

(* The empty system holds no files.                                        *)
LEMMA WholeInit == SyncInit => WholeInv
<1> SUFFICES ASSUME SyncInit PROVE WholeInv
  OBVIOUS
<1>1. WholeFiles
  BY InitCurrent DEF WholeFiles
<1>2. \A w \in Workers : Shown(w) /\ CommitsWhole(w)
  BY DEF SyncInit, MetaInit, Shown, CommitsWhole
<1>3. /\ \A c \in Clients, f \in Files : local[c][f] \in Contents \cup {NoFile}
      /\ \A c \in Clients : HoldsWhole(c)
  BY DEF SyncInit, HoldsWhole
<1> QED BY <1>1, <1>2, <1>3, OrderInit DEF WholeInv

(* A file whose rows no handler replaces is what the rows are.             *)
LEMMA CurrentAtRest ==
    ASSUME NEW f \in Files, AtRest(f)
    PROVE  Current(f) = OnServer(f)
<1>1. <<User, f>> \in Keys
  BY SyncAssumption DEF Keys, Files
<1>2. \A x \in Workers : ~(pc[x] = "insert" /\ Key(req[x]) = <<User, f>>)
  BY DEF AtRest, Inserting
<1> QED BY <1>1, <1>2, FileAtRest DEF Current, OnServer, RowsAt

(* If machines take turns, no beginning of a file is ever kept by downFile *)
(* or stored by the server: failed downloads, clients killed in the middle *)
(* of a commit, and users who remove, empty or edit files while sync.py    *)
(* reads them do no harm, with any number of machines and files.           *)
THEOREM FilesAreWhole ==
    ASSUME Orderly
    PROVE  SyncSpec => []NoMangledFile
<1>1. SyncSpec => []WholeInv
  BY WholeInit, WholeStep, PTL DEF SyncSpec
<1>2. ASSUME WholeInv PROVE NoMangledFile
  <2>1. ASSUME NEW f \in Files, AtRest(f), RowsAt(f) # <<>>
        PROVE  OnServer(f).blocks \in Contents
    <3>1. RowsAt(f) \in Seq(Row)
      BY <1>2, SyncAssumption
         DEF WholeInv, OrderInv, SyncTypeInv, NetTyped, MetaInv, MetaTypeOK, RowsAt,
             Keys, Files
    <3>2. OnServer(f) # FS!Absent
      BY <2>1, <3>1, AbsentFile DEF OnServer
    <3> QED BY <1>2, <2>1, <3>2, CurrentAtRest DEF WholeInv, WholeFiles
  <2> QED BY <1>2, <2>1 DEF NoMangledFile, WholeInv
<1> QED BY <1>1, <1>2, PTL
-----------------------------------------------------------------------------
(* Versions.  Beyond what whole files need, files are not removed, not     *)
(* empty and not touched while sync.py runs; requests fail and sync.py is  *)
(* killed at any step, with a commit under way.                            *)
Calm ==
    /\ Orderly
    /\ ~MayRemove /\ ~EditWhileRunning
    /\ <<>> \notin Contents

(* blocks b of version v are the file stored, or an older one              *)
Reached(f, v, b) ==
    /\ Current(f) # FS!Absent
    /\ v <= Current(f).version
    /\ v = Current(f).version => b = Current(f).blocks

(* What versions.json says of a file is true.                              *)
DiskOK(c, f) ==
    saved[c][f] # NoVersion =>
        /\ local[c][f] # NoFile /\ Current(f) # FS!Absent
        /\ unsynced[c][f] => newer[c][f]
        /\ ~newer[c][f] => Reached(f, saved[c][f], local[c][f])

(* What sync.py knows of the file it visits is still true, and the edits   *)
(* it is about to overwrite or to mark as synced are on the server.        *)
VisitCalm(c) ==
    /\ loop[c] = "local" => LocalOf(c) # NoFile
    /\ loop[c] = "listed" => ~Known(c)
    /\ cpc[c] = "decide" => IF Gone(c) THEN ~Known(c)
                            ELSE Reached(Name(c), job[c].version, job[c].blocks)
    /\ cpc[c] \in {"split", "commit"} => loop[c] = "local"
    /\ cpc[c] \in {"commit", "save"} => LocalOf(c) = job[c].blocks
    /\ cpc[c] \in {"download", "save"} => Reached(Name(c), job[c].version, job[c].blocks)
    /\ \/ cpc[c] = "download" /\ Known(c)
       \/ cpc[c] = "save"
       \/ cpc[c] = "commit" /\ server[c] # NoWorker /\ Written(server[c])
       => ~unsynced[c][Name(c)]

RunOK(c) ==
    /\ cpc[c] \notin {"delete", "forget"}
    /\ loop[c] = "local" => \A e \in todo[c] : local[c][e[1]] # NoFile
    /\ cpc[c] \notin {"idle", "next"} => VisitCalm(c)

(* Handlers delete no file, and while one replaces the rows of a file its  *)
(* version is newer than every recorded one.                               *)
ServesCalm(w) ==
    pc[w] # "idle" => /\ req[w].op # "file_delete" /\ req[w].user = User
                      /\ req[w].op = "file_commit" => req[w].hashes # <<>>

CommitsNewer(w) ==
    pc[w] = "insert" =>
        \A c \in Clients :
            saved[c][req[w].file] # NoVersion /\ ~newer[c][req[w].file]
               => saved[c][req[w].file] < req[w].version

SyncInv ==
    /\ WholeInv
    /\ \A c \in Clients, f \in Files : DiskOK(c, f)
    /\ \A c \in Clients : RunOK(c)
    /\ \A w \in Workers : ServesCalm(w) /\ CommitsNewer(w)

(* The files on the server have their types.                               *)
LEMMA CurrentTyped ==
    ASSUME Calm, SyncInv, NEW f \in Files
    PROVE  /\ Current(f) # FS!Absent <=> Current(f).blocks # <<>>
           /\ Current(f).version \in Nat
<1>1. <<User, f>> \in Keys /\ MetaInv /\ Serialised
  BY SyncAssumption
     DEF Keys, Files, SyncInv, WholeInv, OrderInv, SyncTypeInv, NetTyped, SerialInv
<1>2. Current(f) # FS!Absent => Current(f).blocks # <<>>
  BY DEF SyncInv, WholeInv, WholeFiles, Calm
<1>3. FS!Absent.blocks = <<>> /\ FS!Absent.version = 0
  BY DEF FS!Absent
<1>4. Current(f).version \in Nat
  <2>1. CASE AtRest(f)
    <3>1. RowsAt(f) \in Seq(Row)
      BY <1>1 DEF MetaInv, MetaTypeOK, RowsAt
    <3>2. ASSUME RowsAt(f) # <<>> PROVE RowsAt(f)[1].version \in Nat
      <4>1. \A rows \in Seq(Row) : rows # <<>> => rows[1] \in Row
        OBVIOUS
      <4>2. RowsAt(f)[1] \in Row
        BY <3>1, <3>2, <4>1
      <4> QED BY <4>2 DEF Row
    <3>3. Current(f).version = IF RowsAt(f) = <<>> THEN 0 ELSE RowsAt(f)[1].version
      BY <2>1, CurrentAtRest DEF OnServer, FileOfRows
    <3> QED BY <3>2, <3>3
  <2>2. CASE ~AtRest(f)
    <3>1. PICK w \in Workers : pc[w] = "insert" /\ Key(req[w]) = <<User, f>>
      BY <2>2 DEF AtRest, Inserting
    <3>2. Current(f) = FileOfRequest(req[w]) /\ req[w] \in CommitRequests
      BY <1>1, <3>1, FileWhileInserting DEF Current, MetaInv, WorkerOK
    <3>3. req[w].version \in Nat
      BY <3>2, VersionsAssumption DEF CommitRequests
    <3>4. FileOfRequest(req[w]).version \in {0, req[w].version}
      BY DEF FileOfRequest, FileOfRows
    <3> QED BY <3>2, <3>3, <3>4
  <2> QED BY <2>1, <2>2
<1> QED BY <1>2, <1>3, <1>4

DiskSame == UNCHANGED <<local, saved, newer, unsynced>>

(* What a machine's step can do to its directory and to versions.json.     *)
LEMMA DiskMoves ==
    ASSUME Calm, SyncInv, NEW c \in Clients, ClientStep(c)
    PROVE  \/ DiskSame \/ Download(c) \/ Save(c) \/ RemoveVersions(c)
           \/ \E f \in Files, b \in Contents : Edit(c, f, b)
<1>0. RunOK(c)
  BY DEF SyncInv
<1>1. ~DownloadPoisoned(c) /\ ~PowerLoss(c) /\ \A f \in Files : ~Remove(c, f)
  BY DEF Calm, Orderly, DownloadPoisoned, PowerLoss, Remove
<1>2. ~ForgetVersion(c) /\ ~RemoveLocal(c)
  BY <1>0 DEF RunOK, VisitCalm, ForgetVersion, RemoveLocal, Deciding
<1>3. CASE Ending(c)
  BY <1>1, <1>2, <1>3 DEF Ending, FileListFails, Finish, VersionsUnreadable,
     BlockListFails, NothingThere, AlreadyInSync, DecideRaises, UploadFails,
     DownloadFails, DeleteFails, Dies, diskVars, DiskSame
<1>4. CASE Looping(c) \/ Send(c)
  BY <1>4 DEF Looping, Start, StartOption, VisitLocal, VisitListed, Visit,
     SkipPresent, FileListed, Send, SendFileList, SendBlockList, SendCommit,
     SendDelete, SendTo, diskVars, DiskSame
<1>5. CASE Visiting(c)
  BY <1>1, <1>2, <1>5 DEF Visiting, BlockListed, CommitAnswered, DeleteAnswered,
     DecideUpload, DecideDownload, Split, diskVars, DiskSame
<1>6. CASE Touching(c)
  BY <1>1, <1>6 DEF Touching
<1> QED BY <1>3, <1>4, <1>5, <1>6, Kinds

(* A machine's step keeps what versions.json says true.                    *)
LEMMA DiskOKStep ==
    ASSUME Calm, SyncInv, NEW c \in Clients, ClientStep(c)
    PROVE  /\ \A d \in Clients, f \in Files : DiskOK(d, f)'
           /\ \A f \in Files : local[c][f] # NoFile => local'[c][f] # NoFile
<1>0. /\ SyncTypeInv /\ DiskTyped /\ UNCHANGED fileBar /\ NoFile \notin Seq(Hashes)
      /\ Contents \subseteq Seq(Hashes)
  BY ClientKeepsFiles, SyncAssumption DEF SyncInv, WholeInv, OrderInv, SyncTypeInv
<1>1. \A f \in Files : Current(f)' = Current(f)
  BY <1>0 DEF Current
<1>2. ASSUME NEW d \in Clients, NEW f \in Files,
             UNCHANGED <<local[d][f], saved[d][f], newer[d][f], unsynced[d][f]>>
      PROVE  DiskOK(d, f)'
  <2>1. DiskOK(d, f) /\ local'[d][f] = local[d][f] /\ saved'[d][f] = saved[d][f]
        /\ newer'[d][f] = newer[d][f] /\ unsynced'[d][f] = unsynced[d][f]
    BY <1>2 DEF SyncInv
  <2> QED BY <1>1, <2>1 DEF DiskOK, Reached
<1>3. CASE DiskSame
  BY <1>2, <1>3 DEF DiskSame
<1>4. CASE Download(c)
  <2>1. PICK g \in Files : g = Name(c) /\ job[c].blocks \in Seq(Hashes)
                            /\ cpc[c] = "download"
    BY <1>0, <1>4, JobTyped DEF Download
  <2>2. /\ local' = [local EXCEPT ![c][g] = job[c].blocks]
        /\ newer' = [newer EXCEPT ![c][g] = TRUE]
        /\ unsynced' = [unsynced EXCEPT ![c][g] = FALSE]
        /\ saved' = saved
    BY <1>4, <2>1 DEF Download, SetLocal
  <2>3. /\ local'[c][g] = job[c].blocks /\ newer'[c][g]
        /\ ~unsynced'[c][g]
        /\ \A d \in Clients, f \in Files : d # c \/ f # g =>
              UNCHANGED <<local[d][f], saved[d][f], newer[d][f], unsynced[d][f]>>
    BY <1>0, <2>1, <2>2 DEF DiskTyped
  <2>4. DiskOK(c, g)'
    <3>1. DiskOK(c, g)
      BY <2>1 DEF SyncInv
    <3> QED BY <1>0, <1>1, <2>1, <2>2, <2>3, <3>1 DEF DiskOK
  <2> QED BY <1>0, <1>2, <2>1, <2>3, <2>4
<1>5. CASE Save(c)
  <2>1. PICK g \in Files : g = Name(c) /\ job[c].blocks \in Seq(Hashes)
                            /\ cpc[c] = "save"
    BY <1>0, <1>5, JobTyped DEF Save
  <2>2. UNCHANGED <<local, unsynced>>
    BY <1>5 DEF Save
  <2>3. CASE SaveRaises(c)
    BY <1>3, <1>5, <2>3 DEF Save, DiskSame
  <2>4. CASE ~SaveRaises(c)
    <3>1. /\ saved' = [saved EXCEPT ![c][g] = job[c].version]
          /\ newer' = [newer EXCEPT ![c][g] = FALSE]
      BY <1>5, <2>1, <2>4 DEF Save
    <3>2. /\ saved'[c][g] = job[c].version
          /\ \A d \in Clients, f \in Files : d # c \/ f # g =>
                UNCHANGED <<local[d][f], saved[d][f], newer[d][f], unsynced[d][f]>>
      BY <1>0, <2>1, <2>2, <3>1 DEF DiskTyped
    <3>3. /\ local[c][g] = job[c].blocks /\ ~unsynced[c][g]
          /\ Reached(g, job[c].version, job[c].blocks)
      BY <2>1 DEF SyncInv, RunOK, VisitCalm, LocalOf
    <3>4. DiskOK(c, g)'
      BY <1>0, <1>1, <2>1, <2>2, <3>2, <3>3 DEF DiskOK, Reached
    <3> QED BY <1>2, <2>1, <2>2, <3>2, <3>4
  <2> QED BY <2>3, <2>4
<1>6. CASE RemoveVersions(c)
  <2>1. /\ \A f \in Files : saved'[c][f] = NoVersion
        /\ \A d \in Clients \ {c} : saved'[d] = saved[d]
        /\ UNCHANGED <<local, newer, unsynced>>
    BY <1>0, <1>6 DEF RemoveVersions, DiskTyped
  <2>2. \A f \in Files : DiskOK(c, f)'
    BY <2>1 DEF DiskOK
  <2> QED BY <1>2, <2>1, <2>2
<1>7. ASSUME NEW f \in Files, NEW b \in Contents, Edit(c, f, b)
      PROVE  /\ \A d \in Clients, g \in Files : DiskOK(d, g)'
             /\ \A g \in Files : local[c][g] # NoFile => local'[c][g] # NoFile
  <2>1. /\ local' = [local EXCEPT ![c][f] = b]
        /\ newer' = [newer EXCEPT ![c][f] = TRUE]
        /\ unsynced' = [unsynced EXCEPT ![c][f] = TRUE]
        /\ saved' = saved
    BY <1>7 DEF Edit
  <2>2. /\ local'[c][f] = b /\ newer'[c][f]
        /\ \A d \in Clients, g \in Files : d # c \/ g # f =>
              UNCHANGED <<local[d][g], saved[d][g], newer[d][g], unsynced[d][g]>>
    BY <1>0, <2>1 DEF DiskTyped
  <2>3. DiskOK(c, f)'
    <3>1. DiskOK(c, f) /\ b # NoFile
      BY <1>0 DEF SyncInv
    <3> QED BY <1>1, <2>1, <2>2, <3>1 DEF DiskOK
  <2> QED BY <1>0, <1>2, <2>2, <2>3
<1> QED BY <1>3, <1>4, <1>5, <1>6, <1>7, DiskMoves

(* Once a machine runs, other machines only wait for their turn, and their *)
(* users edit.                                                             *)
LEMMA OthersOnlyTouch ==
    ASSUME Turns, OrderInv, NEW c \in Clients, ClientStep(c),
           NEW d \in Clients \ {c}, cpc[d] # "idle"
    PROVE  UNCHANGED <<netVars, runVars>>
<1>1. cpc[c] = "idle" /\ SyncTypeInv
  BY DEF OrderInv, TurnInv
<1>2. ~Ending(c) /\ ~Visiting(c)
  BY <1>1, EndingEnds, VisitingTyped
<1>3. ~Looping(c) /\ ~Send(c)
  BY <1>1 DEF Turns, Looping, Start, StartOption, MayStart, VisitLocal, VisitListed,
     Visit, SkipPresent, FileListed, LoopOver, Send, SendFileList, SendBlockList,
     SendCommit, SendDelete
<1>4. Touching(c)
  BY <1>2, <1>3, Kinds
<1> QED BY <1>4 DEF Touching, RemoveVersions, Remove, Edit


(* When the commit of a machine is acknowledged, it is the file stored.    *)
LEMMA CommitReached ==
    ASSUME Calm, SyncInv, NEW c \in Clients, NEW w \in Workers, CommitAnswered(c, w)
    PROVE  /\ server[c] = w /\ server[c] # NoWorker /\ Written(w)
           /\ Reached(Name(c), job[c].version, job[c].blocks)
<1>0. SyncTypeInv /\ MetaInv /\ SerialInv /\ TurnInv
  BY DEF SyncInv, WholeInv, OrderInv, SyncTypeInv, NetTyped
<1>1. /\ server[c] = w /\ server[c] # NoWorker /\ cpc[c] = "commit"
      /\ pc[w] = "done" /\ reply[w].status = 200
  BY SyncAssumption DEF CommitAnswered, Answered, Respond
<1>2. req[w] = CommitRequest(c)
  BY <1>0, <1>1 DEF SyncTypeInv, WaitOK, Asked
<1>3. /\ req[w].op = "file_commit" /\ Key(req[w]) = <<User, Name(c)>>
      /\ req[w].hashes = job[c].blocks /\ req[w].version = job[c].version
  BY <1>2 DEF CommitRequest, Key
<1>4. Name(c) \in Files /\ req[w] \in Requests /\ req[w].hashes # <<>>
  BY <1>0, <1>1, <1>3, JobTyped DEF MetaInv, WorkerOK, SyncInv, ServesCalm
<1>5. req[w] \in CommitRequests
  BY <1>3, <1>4 DEF Requests, CommitRequests, QueryRequests, FileRequests,
     ListRequests, RecentRequests, MalformedRequests
<1>6. AtRest(Name(c))
  BY <1>0, <1>1 DEF TurnInv, AtRest, Inserting
<1>7. Current(Name(c)) = FileOfRows(RowsOf(req[w], Len(req[w].hashes)))
  BY <1>0, <1>1, <1>3, <1>4, <1>6, CurrentAtRest
     DEF SerialInv, AckedCommitIsStored, OnServer, RowsAt
<1>8. req[w].hashes \in Seq(Hashes) /\ Len(req[w].hashes) \in 0 .. Len(req[w].hashes)
      /\ SubSeq(req[w].hashes, 1, Len(req[w].hashes)) = req[w].hashes
  <2>1. req[w].hashes \in Seq(Hashes)
    BY <1>5, HashesTyped
  <2> QED BY <2>1
<1>9. Current(Name(c)) = FS!Stored(FileOfRequest(req[w]).version, req[w].hashes)
  BY <1>5, <1>7, <1>8, RowsArePrefix
<1>10. Current(Name(c)) = [version |-> job[c].version, blocks |-> job[c].blocks]
  BY <1>3, <1>4, <1>9 DEF FS!Stored, FileOfRequest
<1>11. /\ Current(Name(c)).version = job[c].version
       /\ Current(Name(c)).blocks = job[c].blocks /\ job[c].version \in Nat
  BY <1>0, <1>1, <1>10, JobTyped
<1>12. Current(Name(c)) # FS!Absent
  BY <1>3, <1>4, <1>11 DEF FS!Absent
<1> QED BY <1>1, <1>11, <1>12 DEF Written, Reached

(* A machine's own step keeps what it knows true: where the loops go.      *)
LEMMA LoopingCalm ==
    ASSUME Calm, SyncInv, NEW c \in Clients, Looping(c)
    PROVE  RunOK(c)'
<1>0. RunTyped /\ DiskTyped /\ RunOK(c)
  BY DEF SyncInv, WholeInv, OrderInv, SyncTypeInv
<1>1. UNCHANGED <<local, saved>>
  BY DEF Looping, Start, StartOption, VisitLocal, VisitListed, Visit, SkipPresent,
     FileListed, diskVars
<1>2. CASE Start(c)
  <2>1. cpc'[c] = "next" /\ todo'[c] = {f \in Files : local[c][f] # NoFile} \X {0}
    BY <1>0, <1>2 DEF Start, RunTyped
  <2> QED BY <1>1, <2>1 DEF RunOK
<1>3. ASSUME NEW f \in Files, StartOption(c, f) PROVE RunOK(c)'
  <2>1. cpc'[c] = "ask" /\ loop'[c] = "option"
    BY <1>0, <1>3 DEF StartOption, RunTyped
  <2> QED BY <2>1 DEF RunOK, VisitCalm
<1>4. ASSUME NEW e \in todo[c], VisitLocal(c, e) PROVE RunOK(c)'
  <2>1. /\ cpc'[c] = "ask" /\ loop'[c] = "local" /\ todo'[c] = todo[c] \ {e}
        /\ job'[c] = Job(e[1], <<>>, 0) /\ loop[c] = "local"
    BY <1>0, <1>4 DEF VisitLocal, Visit, RunTyped
  <2>2. job'[c].file = e[1]
    BY <2>1 DEF Job
  <2> QED BY <1>0, <1>1, <2>1, <2>2 DEF RunOK, VisitCalm, LocalOf, Name
<1>5. ASSUME NEW e \in todo[c], VisitListed(c, e) PROVE RunOK(c)'
  <2>1. saved[c][e[1]] = NoVersion
    <3>1. e[1] \in Files /\ local[c][e[1]] = NoFile
      BY <1>0, <1>5 DEF VisitListed, RunTyped
    <3> QED BY <3>1 DEF SyncInv, DiskOK
  <2>2. /\ cpc'[c] = "ask" /\ loop'[c] = "listed" /\ job'[c] = Job(e[1], <<>>, 0)
    BY <1>0, <1>5, <2>1 DEF VisitListed, Visit, RunTyped
  <2>3. job'[c].file = e[1]
    BY <2>2 DEF Job
  <2> QED BY <1>1, <2>1, <2>2, <2>3 DEF RunOK, VisitCalm, Known, SavedOf, Name
<1>6. ASSUME NEW e \in todo[c], SkipPresent(c, e) PROVE RunOK(c)'
  <2>1. cpc'[c] = "next" /\ loop'[c] = "listed"
    BY <1>6 DEF SkipPresent
  <2> QED BY <2>1 DEF RunOK
<1>7. ASSUME NEW w \in Workers, FileListed(c, w) PROVE RunOK(c)'
  <2>1. cpc'[c] = "next" /\ loop'[c] = "listed"
    BY <1>0, <1>7 DEF FileListed, LoopOver, RunTyped
  <2> QED BY <2>1 DEF RunOK
<1> QED BY <1>2, <1>3, <1>4, <1>5, <1>6, <1>7 DEF Looping

(* A machine's own step keeps what it knows true: the file it visits.      *)
LEMMA VisitingCalm ==
    ASSUME Calm, SyncInv, NEW c \in Clients, ClientStep(c), Visiting(c)
    PROVE  RunOK(c)'
<1>0. /\ SyncTypeInv /\ RunTyped /\ DiskTyped /\ RunOK(c) /\ Orderly
      /\ cpc[c] \notin {"idle", "next"} /\ VisitCalm(c)
  BY VisitingTyped
     DEF SyncInv, WholeInv, OrderInv, SyncTypeInv, RunOK, Calm
<1>1. PICK f \in Files : f = Name(c) /\ Current(f)' = Current(f) /\ DiskOK(c, f)
  BY <1>0, JobTyped, ClientKeepsFiles DEF Current, SyncInv
<1>2. ASSUME UNCHANGED <<local[c], loop[c], todo[c]>>
      PROVE  loop'[c] = "local" => \A e \in todo'[c] : local'[c][e[1]] # NoFile
  BY <1>0, <1>2 DEF RunOK
<1>3. ASSUME NEW w \in Workers, BlockListed(c, w) PROVE RunOK(c)'
  <2>1. /\ cpc'[c] = "decide"
        /\ job'[c] = Job(f, Current(f).blocks, Current(f).version)
    BY <1>0, <1>1, <1>3, ListedIsCurrent DEF SyncInv, WholeInv
  <2>2. UNCHANGED <<local[c], saved[c], loop[c], todo[c]>>
    BY <1>3 DEF BlockListed, GoToWith, diskVars
  <2>3. /\ Name(c)' = f /\ job'[c].blocks = Current(f).blocks
        /\ job'[c].version = Current(f).version
    BY <2>1 DEF Job, Name
  <2>4. Known(c)' = Known(c) /\ LocalOf(c)' = LocalOf(c) /\ Known(c) = (saved[c][f] # NoVersion)
    BY <1>1, <2>2, <2>3 DEF Known, SavedOf, LocalOf
  <2>5. Current(f) # FS!Absent <=> Current(f).blocks # <<>>
    BY CurrentTyped
  <2>6. Current(f).version <= Current(f).version
    BY CurrentTyped
  <2>7. IF Gone(c)' THEN ~Known(c)' ELSE Reached(Name(c), job[c].version, job[c].blocks)'
    BY <1>1, <2>3, <2>4, <2>5, <2>6 DEF Gone, DiskOK, Reached
  <2>8. VisitCalm(c)'
    BY <1>0, <2>1, <2>2, <2>4, <2>7 DEF VisitCalm
  <2> QED BY <1>2, <2>1, <2>2, <2>8 DEF RunOK
<1>4. ASSUME NEW w \in Workers, CommitAnswered(c, w) PROVE RunOK(c)'
  <2>1. cpc[c] = "commit" /\ cpc'[c] = "save"
        /\ UNCHANGED <<local, saved, unsynced, loop, todo, job>>
    BY <1>0, <1>4 DEF CommitAnswered, GoTo, diskVars, RunTyped
  <2>2. ~unsynced[c][f] /\ Reached(f, job[c].version, job[c].blocks)
    BY <1>0, <1>1, <1>4, <2>1, CommitReached DEF VisitCalm
  <2>3. Reached(Name(c), job[c].version, job[c].blocks)'
    BY <1>1, <2>1, <2>2 DEF Reached, Name
  <2>4. VisitCalm(c)'
    BY <1>0, <1>1, <2>1, <2>2, <2>3 DEF VisitCalm, LocalOf, Name, Known, SavedOf
  <2> QED BY <1>2, <2>1, <2>4 DEF RunOK
<1>5. CASE DecideUpload(c)
  <2>1. cpc'[c] = "split" /\ loop[c] = "local" /\ job'[c] = Job(f, <<>>, UploadVersion(c))
        /\ UNCHANGED <<local, loop, todo>>
    BY <1>0, <1>1, <1>5 DEF DecideUpload, GoToWith, diskVars, RunTyped
  <2>2. Name(c)' = f
    BY <2>1 DEF Job, Name
  <2>3. VisitCalm(c)'
    BY <1>0, <1>1, <2>1, <2>2 DEF VisitCalm, LocalOf
  <2> QED BY <1>2, <2>1, <2>3 DEF RunOK
<1>6. CASE DecideDownload(c)
  <2>1. /\ cpc[c] = "decide" /\ cpc'[c] = "download" /\ ~Gone(c) /\ WantsDownload(c)
        /\ UNCHANGED <<local, saved, unsynced, loop, todo, job>>
    BY <1>0, <1>6 DEF DecideDownload, Deciding, GoTo, diskVars, RunTyped
  <2>2. Known(c) => ~unsynced[c][f]
    BY <1>0, <1>1, <2>1 DEF WantsDownload, VisitCalm, DiskOK, Known, SavedOf,
       LocalOf, Modified, RunTyped
  <2>3. Reached(Name(c), job[c].version, job[c].blocks)'
    BY <1>0, <1>1, <2>1 DEF VisitCalm, Reached, Name
  <2>4. VisitCalm(c)'
    BY <1>0, <1>1, <2>1, <2>2, <2>3 DEF VisitCalm, LocalOf, Name, Known, SavedOf
  <2> QED BY <1>2, <2>1, <2>4 DEF RunOK
<1>7. CASE Split(c)
  <2>1. cpc[c] = "split" /\ cpc'[c] = "commit" /\ loop[c] = "local"
        /\ LocalOf(c) # NoFile /\ UNCHANGED <<local, loop, todo, netVars>>
    BY <1>0, <1>7 DEF Split, GoToWith, diskVars, RunTyped, VisitCalm
  <2>2. job'[c] = Job(f, LocalOf(c), job[c].version)
    BY <1>0, <1>1, <1>7, <2>1 DEF Split, GoToWith, RunTyped
  <2>3. Name(c)' = f /\ job'[c].blocks = LocalOf(c) /\ LocalOf(c)' = LocalOf(c)
    BY <1>1, <2>1, <2>2 DEF Job, Name, LocalOf
  <2>4. server'[c] = NoWorker
    BY <1>0, <2>1, NotWaiting DEF netVars
  <2>5. VisitCalm(c)'
    BY <2>1, <2>3, <2>4 DEF VisitCalm
  <2> QED BY <1>2, <2>1, <2>5 DEF RunOK
<1>8. CASE Download(c)
  <2>1. /\ cpc[c] = "download" /\ cpc'[c] = "save"
        /\ local' = [local EXCEPT ![c][f] = job[c].blocks]
        /\ unsynced' = [unsynced EXCEPT ![c][f] = FALSE]
        /\ UNCHANGED <<saved, loop, todo, job>>
    BY <1>0, <1>1, <1>8 DEF Download, SetLocal, GoTo, RunTyped
  <2>2. Name(c)' = f /\ LocalOf(c)' = job[c].blocks /\ ~unsynced'[c][f]
    BY <1>0, <1>1, <2>1 DEF Name, LocalOf, DiskTyped
  <2>3. Reached(Name(c), job[c].version, job[c].blocks)'
    BY <1>0, <1>1, <2>1, <2>2 DEF VisitCalm, Reached
  <2>4. job[c].blocks # NoFile
    BY <1>0, JobTyped, SyncAssumption
  <2>5. VisitCalm(c)'
    BY <1>0, <1>1, <2>1, <2>2, <2>3, <2>4 DEF VisitCalm, Known, SavedOf
  <2>6. \A g \in Files : local[c][g] # NoFile => local'[c][g] # NoFile
    BY DiskOKStep
  <2>7. \A e \in todo[c] : e[1] \in Files
    BY <1>0 DEF RunTyped
  <2> QED BY <1>0, <2>1, <2>5, <2>6, <2>7 DEF RunOK
<1>9. ~RemoveLocal(c) /\ ~DownloadPoisoned(c) /\ \A w \in Workers : ~DeleteAnswered(c, w)
  BY <1>0 DEF RunOK, VisitCalm, RemoveLocal, Deciding, Orderly, DownloadPoisoned,
     DeleteAnswered
<1> QED BY <1>3, <1>4, <1>5, <1>6, <1>7, <1>8, <1>9 DEF Visiting

(* A machine's step keeps what every machine knows true.                   *)
LEMMA RunOKStep ==
    ASSUME Calm, SyncInv, NEW c \in Clients, ClientStep(c)
    PROVE  \A d \in Clients : RunOK(d)'
<1>0. /\ OrderInv /\ SyncTypeInv /\ RunTyped /\ Turns
      /\ \A d \in Clients : RunOK(d)
  BY DEF SyncInv, WholeInv, OrderInv, SyncTypeInv, Calm, Orderly
<1>1. \A g \in Files : local[c][g] # NoFile => local'[c][g] # NoFile
  BY DiskOKStep
<1>2. \A d \in Clients : \A e \in todo[d] : e[1] \in Files
  BY <1>0 DEF RunTyped
<1>3. RunOK(c)'
  <2>1. CASE Ending(c)
    <3>1. /\ cpc'[c] \in {"idle", "next"}
          /\ todo'[c] = {} \/ (loop'[c] = loop[c] /\ todo'[c] = todo[c])
      BY <1>0, <2>1, EndingEnds, EndingTyped
    <3> QED BY <1>0, <1>1, <1>2, <3>1 DEF RunOK
  <2>2. CASE Touching(c)
    <3>1. cpc[c] = "idle" /\ UNCHANGED runVars
      BY <2>2 DEF Touching, RemoveVersions, Remove, Edit, MayTouch, Calm
    <3> QED BY <1>0, <1>1, <1>2, <3>1 DEF RunOK, runVars
  <2>3. CASE Send(c)
    <3>1. /\ UNCHANGED <<local, saved, unsynced, cpc, loop, todo, job>>
          /\ server[c] = NoWorker
      BY <2>3 DEF Send, SendFileList, SendBlockList, SendCommit, SendDelete, SendTo,
         diskVars, runVars
    <3>2. server'[c] # NoWorker => ~Written(server[c])'
      <4>1. PICK w \in Workers, r \in Requests :
                Accept(w, r) /\ server' = [server EXCEPT ![c] = w]
        BY <2>3 DEF Send, SendFileList, SendBlockList, SendCommit, SendDelete, SendTo
      <4>2. server'[c] = w /\ pc'[w] = FirstStatement[r.op]
        BY <1>0, <4>1 DEF Accept, SyncTypeInv, NetTyped, MetaInv, MetaTypeOK
      <4>3. pc'[w] \notin {"insert", "done"}
        BY <4>1, <4>2, StatementOfRequest DEF Accept
      <4> QED BY <4>2, <4>3 DEF Written
    <3>3. UNCHANGED fileBar
      BY <1>0, ClientKeepsFiles
    <3>4. ASSUME VisitCalm(c) PROVE VisitCalm(c)'
      BY <3>1, <3>2, <3>3, <3>4 DEF VisitCalm, Reached, Current, LocalOf, Known,
         SavedOf, Name, Gone
    <3> QED BY <1>0, <3>1, <3>4 DEF RunOK
  <2> QED BY <2>1, <2>2, <2>3, Kinds, LoopingCalm, VisitingCalm
<1>4. ASSUME NEW d \in Clients \ {c} PROVE RunOK(d)'
  <2>1. UNCHANGED <<cpc[d], loop[d], todo[d], job[d], local[d], saved[d], unsynced[d]>>
    BY <1>0, RunStep, DiskStep DEF RunKept, DiskKept
  <2>2. CASE cpc[d] = "idle"
    BY <1>0, <2>1, <2>2 DEF RunOK
  <2>3. CASE cpc[d] # "idle"
    <3>1. UNCHANGED <<server, pc, req, i, reply>> /\ UNCHANGED fileBar
      BY <1>0, <2>3, OthersOnlyTouch, ClientKeepsFiles DEF netVars, metaVars
    <3>2. ASSUME VisitCalm(d) PROVE VisitCalm(d)'
      BY <2>1, <3>1, <3>2 DEF VisitCalm, Reached, Current, LocalOf, Known,
         SavedOf, Name, Gone, Written
    <3> QED BY <1>0, <2>1, <3>2 DEF RunOK
  <2> QED BY <2>2, <2>3
<1> QED BY <1>3, <1>4

(* A machine's step keeps what handlers may rely on.                       *)
LEMMA ServesStep ==
    ASSUME Calm, SyncInv, NEW c \in Clients, ClientStep(c), NEW x \in Workers
    PROVE  ServesCalm(x)' /\ CommitsNewer(x)'
<1>0. /\ OrderInv /\ SyncTypeInv /\ DiskTyped /\ MetaInv /\ RunOK(c) /\ HoldsWhole(c)
      /\ ServesCalm(x) /\ CommitsNewer(x)
  BY DEF SyncInv, WholeInv, OrderInv, SyncTypeInv, NetTyped
<1>1. CASE UNCHANGED <<pc[x], req[x], i[x], reply[x]>>
  <2>1. pc'[x] = pc[x] /\ req'[x] = req[x]
    BY <1>1
  <2>2. ServesCalm(x)'
    BY <1>0, <2>1 DEF ServesCalm
  <2>3. ASSUME pc[x] = "insert", NEW d \in Clients, saved'[d][req[x].file] # NoVersion,
               ~newer'[d][req[x].file]
        PROVE  saved'[d][req[x].file] < req[x].version
    <3>1. req[x].file \in Files
      BY <1>0, <2>3 DEF MetaInv, WorkerOK, CommitRequests, Files
    <3>2. ~Save(c)
      BY <1>0, <2>3, NotWaiting, SyncAssumption DEF Save, OrderInv, TurnInv
    <3>3. /\ saved'[d][req[x].file] = saved[d][req[x].file]
          /\ ~newer[d][req[x].file]
      <4>1. CASE DiskSame
        BY <2>3, <4>1 DEF DiskSame
      <4>2. CASE Download(c)
        <5>1. Name(c) \in Files
          BY <1>0, <4>2, JobTyped DEF Download
        <5>2. saved' = saved /\ newer' = [newer EXCEPT ![c][Name(c)] = TRUE]
          BY <4>2 DEF Download, SetLocal
        <5> QED BY <1>0, <2>3, <3>1, <5>1, <5>2 DEF DiskTyped
      <4>3. CASE RemoveVersions(c)
        <5>1. /\ saved' = [saved EXCEPT ![c] = [f \in Files |-> NoVersion]]
              /\ newer' = newer
          BY <4>3 DEF RemoveVersions
        <5> QED BY <1>0, <2>3, <3>1, <5>1 DEF DiskTyped
      <4>4. ASSUME NEW f \in Files, NEW b \in Contents, Edit(c, f, b)
            PROVE  /\ saved'[d][req[x].file] = saved[d][req[x].file]
                   /\ ~newer[d][req[x].file]
        <5>1. saved' = saved /\ newer' = [newer EXCEPT ![c][f] = TRUE]
          BY <4>4 DEF Edit
        <5> QED BY <1>0, <2>3, <3>1, <5>1 DEF DiskTyped
      <4> QED BY <3>2, <4>1, <4>2, <4>3, <4>4, DiskMoves
    <3> QED BY <1>0, <2>3, <3>3 DEF CommitsNewer
  <2> QED BY <2>1, <2>2, <2>3 DEF CommitsNewer
<1>2. CASE pc'[x] = "idle"
  BY <1>2 DEF ServesCalm, CommitsNewer
<1>3. CASE pc'[x] \notin {"idle", "delete", "insert", "done"} /\ Asked(c, req'[x])
  <2>1. req'[x].user = User
    BY <1>3 DEF Asked, FileRequest, CommitRequest
  <2>2. cpc[c] # "delete"
    BY <1>0 DEF RunOK
  <2>3. req'[x].op # "file_delete"
    BY <1>3, <2>2 DEF Asked, FileRequest, CommitRequest
  <2>4. ASSUME req'[x].op = "file_commit" PROVE req'[x].hashes # <<>>
    <3>1. cpc[c] = "commit" /\ req'[x] = CommitRequest(c)
      BY <1>3, <2>4 DEF Asked, FileRequest
    <3>2. req'[x].hashes = LocalOf(c) /\ LocalOf(c) # NoFile
      BY <1>0, <3>1 DEF CommitRequest, RunOK, VisitCalm
    <3>3. LocalOf(c) \in Contents \cup {NoFile}
      BY <1>0, <3>1, JobTyped DEF LocalOf, SyncInv, WholeInv
    <3> QED BY <3>2, <3>3 DEF Calm
  <2> QED BY <1>3, <2>1, <2>3, <2>4 DEF ServesCalm, CommitsNewer
<1> QED BY <1>0, <1>1, <1>2, <1>3, ClientWorkers

(* What a handler does to the files on the server: nothing, or a newer     *)
(* version replaces one of them.                                           *)
LEMMA WorkerReplaces ==
    ASSUME Calm, SyncInv, OrderInv', NEW w \in Workers, WorkerStep(w)
    PROVE  /\ pc[w] # "idle" /\ pc'[w] # "idle" /\ req' = req
           /\ \/ Harmless(w)
              \/ /\ pc[w] = "delete" /\ pc'[w] = "insert" /\ i'[w] = 0
                 /\ req[w].op = "file_commit" /\ req[w].hashes # <<>>
                 /\ req[w].hashes \in Seq(Hashes)
                 /\ req[w].file \in Files /\ req[w].version \in Nat
                 /\ \A f \in Files \ {req[w].file} : Current(f)' = Current(f)
                 /\ Current(req[w].file)' =
                       [version |-> req[w].version, blocks |-> req[w].hashes]
                 /\ Current(req[w].file) # FS!Absent =>
                       Current(req[w].file).version < req[w].version
<1>0. /\ OrderInv /\ MetaInv /\ ServesCalm(w) /\ Faults = {}
  BY DEF SyncInv, WholeInv, OrderInv, SyncTypeInv, NetTyped, Calm, Orderly
<1>1. pc[w] # "idle" /\ pc'[w] # "idle" /\ req' = req
  BY <1>0, WorkFrame DEF WorkerStep, Work
<1>2. ~(req[w].op = "file_delete") /\ req[w].user = User
  BY <1>0, <1>1 DEF ServesCalm
<1>3. ASSUME pc[w] = "delete", pc'[w] = "insert", i'[w] = 0,
             FS!Commit(Key(req[w]), req[w].version, req[w].hashes)
      PROVE  /\ req[w].op = "file_commit" /\ req[w].hashes # <<>>
             /\ req[w].hashes \in Seq(Hashes)
             /\ req[w].file \in Files /\ req[w].version \in Nat
             /\ \A f \in Files \ {req[w].file} : Current(f)' = Current(f)
             /\ Current(req[w].file)' =
                   [version |-> req[w].version, blocks |-> req[w].hashes]
             /\ Current(req[w].file) # FS!Absent =>
                   Current(req[w].file).version < req[w].version
  <2>1. req[w] \in CommitRequests
    BY <1>0, <1>3 DEF MetaInv, WorkerOK
  <2>2. /\ req[w].op = "file_commit" /\ req[w].file \in Files /\ req[w].version \in Nat
        /\ req[w].hashes \in Seq(Hashes)
    BY <2>1, HashesTyped, VersionsAssumption DEF CommitRequests, Files
  <2>3. req[w].hashes # <<>>
    BY <1>0, <1>1, <2>2 DEF ServesCalm
  <2>4. PICK g \in Files : g = req[w].file
    BY <2>2
  <2>5. Key(req[w]) = <<User, g>> /\ \A f \in Files : <<User, f>> \in Keys
    BY <1>2, <2>4, SyncAssumption DEF Key, Keys, Files
  <2>6. /\ fileBar' = [fileBar EXCEPT ![<<User, g>>] =
                          [version |-> req[w].version, blocks |-> req[w].hashes]]
        /\ IF Current(g) = FS!Absent THEN req[w].version = 0
           ELSE req[w].version > Current(g).version
    BY <1>3, <2>3, <2>5 DEF FS!Commit, FS!Stored, Current
  <2>7. /\ Current(g)' = [version |-> req[w].version, blocks |-> req[w].hashes]
        /\ \A f \in Files \ {g} : Current(f)' = Current(f)
    BY <2>5, <2>6, BarsAreFunctions DEF Current
  <2>8. Current(g).version \in Nat
    BY CurrentTyped
  <2>9. Current(g) # FS!Absent => Current(g).version < req[w].version
    BY <2>2, <2>6, <2>8
  <2>10. Current(req[w].file)' = Current(g)' /\ Current(req[w].file) = Current(g)
    BY <1>1, <2>4 DEF Current
  <2> QED BY <2>2, <2>3, <2>4, <2>7, <2>9, <2>10
<1>4. \/ pc[w] = "delete" /\ pc'[w] = "insert" /\ i'[w] = 0
         /\ FS!Commit(Key(req[w]), req[w].version, req[w].hashes)
      \/ Harmless(w)
  BY <1>0, <1>2, WorkerEffect
<1> QED BY <1>1, <1>3, <1>4

(* A step of a handler keeps what versions.json and sync.py know true.     *)
LEMMA WorkerCalm ==
    ASSUME Calm, SyncInv, OrderInv', NEW w \in Workers, WorkerStep(w)
    PROVE  /\ \A c \in Clients, f \in Files : DiskOK(c, f)'
           /\ \A c \in Clients : RunOK(c)'
           /\ \A x \in Workers : ServesCalm(x)' /\ CommitsNewer(x)'
<1>0. /\ OrderInv /\ SyncTypeInv /\ TurnInv /\ MetaInv /\ DiskTyped
      /\ \A c \in Clients : RunOK(c)
      /\ \A x \in Workers : ServesCalm(x) /\ CommitsNewer(x)
  BY DEF SyncInv, WholeInv, OrderInv, SyncTypeInv, NetTyped
<1>1. UNCHANGED <<server, local, saved, newer, cpc, loop, todo, job>>
  BY <1>0, WorkerTyped DEF runVars
<1>2. pc[w] # "idle" /\ pc'[w] # "idle" /\ req' = req
  BY WorkerReplaces
<1>3. \A c \in Clients, f \in Files :
          unsynced'[c][f] => /\ unsynced[c][f]
                             /\ ~(LastRow(w) /\ f = req[w].file
                                             /\ local[c][f] = req[w].hashes)
  BY <1>0 DEF WorkerStep, DiskTyped
<1>4. ASSUME NEW c \in Clients, NEW f \in Files PROVE DiskOK(c, f)'
  <2>1. DiskOK(c, f) /\ saved[c][f] \in Nat \cup {NoVersion}
    BY <1>0 DEF SyncInv, DiskTyped
  <2>2. CASE Current(f)' = Current(f)
    BY <1>1, <1>3, <2>1, <2>2 DEF DiskOK, Reached
  <2>3. CASE /\ Current(f)' = [version |-> req[w].version, blocks |-> req[w].hashes]
             /\ Current(f) # FS!Absent => Current(f).version < req[w].version
             /\ req[w].hashes # <<>> /\ req[w].version \in Nat
    <3>1. /\ Current(f)'.version = req[w].version /\ Current(f)'.blocks = req[w].hashes
          /\ Current(f).version \in Nat
      BY <2>3, CurrentTyped
    <3>2. Current(f)' # FS!Absent
      BY <2>3, <3>1 DEF FS!Absent
    <3>3. ASSUME saved[c][f] # NoVersion, ~newer[c][f]
          PROVE  saved[c][f] < req[w].version
      BY <2>1, <2>3, <3>1, <3>3 DEF DiskOK, Reached
    <3>4. ASSUME saved[c][f] # NoVersion, ~newer[c][f]
          PROVE  Reached(f, saved[c][f], local[c][f])'
      BY <1>1, <2>1, <2>3, <3>1, <3>2, <3>3, <3>4 DEF Reached
    <3> QED BY <1>1, <1>3, <2>1, <3>2, <3>4 DEF DiskOK
  <2> QED BY <2>2, <2>3, WorkerReplaces DEF Harmless, Current
<1>5. ASSUME NEW c \in Clients PROVE RunOK(c)'
  <2>1. RunOK(c)
    BY <1>0
  <2>2. ASSUME cpc[c] \notin {"idle", "next"}, VisitCalm(c) PROVE VisitCalm(c)'
    <3>1. server[c] = w /\ server[c] # NoWorker
      BY <1>0, <1>2, <2>2, SyncAssumption DEF TurnInv
    <3>2. cpc[c] \notin {"decide", "split", "download", "save", "forget"}
      BY <1>0, <3>1, NotWaiting
    <3>3. ASSUME cpc[c] = "commit", Written(w)' PROVE ~unsynced'[c][Name(c)]
      <4>1. req[w] = CommitRequest(c)
        BY <1>0, <3>1, <3>3 DEF SyncTypeInv, WaitOK, Asked
      <4>2. /\ req[w].op = "file_commit" /\ req[w].file = Name(c)
            /\ req[w].hashes = job[c].blocks
        BY <4>1 DEF CommitRequest
      <4>3. Name(c) \in Files /\ local[c][Name(c)] = req[w].hashes
        BY <1>0, <2>2, <3>3, <4>2, JobTyped DEF VisitCalm, LocalOf
      <4>4. CASE Harmless(w)
        <5>1. pc[w] = "insert" /\ (LastRow(w) \/ i[w] = Len(req[w].hashes))
          BY <3>3, <4>2, <4>4 DEF Harmless
        <5>2. CASE LastRow(w)
          BY <1>3, <4>2, <4>3, <5>2
        <5>3. CASE i[w] = Len(req[w].hashes)
          BY <1>3, <2>2, <3>1, <3>3, <4>3, <5>1, <5>3 DEF VisitCalm, Written
        <5> QED BY <5>1, <5>2, <5>3
      <4>5. CASE /\ pc'[w] = "insert" /\ i'[w] = 0 /\ req[w].hashes # <<>>
                 /\ req[w].hashes \in Seq(Hashes)
        <5>1. Len(req[w].hashes) # 0
          BY <4>5
        <5> QED BY <1>2, <3>3, <4>5, <5>1 DEF Written
      <4> QED BY <4>4, <4>5, WorkerReplaces
    <3> QED BY <1>1, <2>2, <3>1, <3>2, <3>3 DEF VisitCalm, LocalOf, Known, SavedOf, Name
  <2> QED BY <1>1, <2>1, <2>2 DEF RunOK
<1>6. ASSUME NEW x \in Workers PROVE ServesCalm(x)' /\ CommitsNewer(x)'
  <2>1. CASE x # w
    <3>1. pc'[x] = "idle"
      BY <1>2, <2>1 DEF OrderInv, TurnInv
    <3> QED BY <3>1 DEF ServesCalm, CommitsNewer
  <2>2. CASE x = w
    <3>1. ServesCalm(w)'
      BY <1>0, <1>2 DEF ServesCalm
    <3>2. CASE Harmless(w)
      BY <1>0, <1>1, <1>2, <2>2, <3>1, <3>2 DEF Harmless, CommitsNewer
    <3>3. CASE /\ Current(req[w].file) # FS!Absent =>
                     Current(req[w].file).version < req[w].version
               /\ req[w].file \in Files /\ req[w].version \in Nat
      <4>1. ASSUME NEW c \in Clients, saved[c][req[w].file] # NoVersion,
                   ~newer[c][req[w].file]
            PROVE  saved[c][req[w].file] < req[w].version
        <5>1. /\ DiskOK(c, req[w].file)
              /\ saved[c][req[w].file] \in Nat \cup {NoVersion}
              /\ Current(req[w].file).version \in Nat
          BY <1>0, <3>3, CurrentTyped DEF SyncInv, DiskTyped
        <5> QED BY <3>3, <4>1, <5>1 DEF DiskOK, Reached
      <4> QED BY <1>1, <1>2, <2>2, <3>1, <4>1 DEF CommitsNewer
    <3> QED BY <3>2, <3>3, WorkerReplaces
  <2> QED BY <2>1, <2>2
<1> QED BY <1>4, <1>5, <1>6

(* Every step keeps the invariant.                                         *)
LEMMA SyncStep ==
    ASSUME Calm, SyncInv, [SyncNext]_syncVars
    PROVE  SyncInv'
<1>0. /\ WholeInv' /\ OrderInv' /\ SyncTypeInv
  BY WholeStep DEF SyncInv, WholeInv, OrderInv, Calm
<1>1. ASSUME NEW c \in Clients, ClientStep(c) PROVE SyncInv'
  BY <1>0, <1>1, DiskOKStep, RunOKStep, ServesStep DEF SyncInv
<1>2. ASSUME NEW w \in Workers, WorkerStep(w) PROVE SyncInv'
  BY <1>0, <1>2, WorkerCalm DEF SyncInv
<1>3. ASSUME UNCHANGED <<fileBar, server, local, saved, newer, unsynced, runVars>>,
             NEW w \in Workers,
             \A x \in Workers \ {w} : UNCHANGED <<pc[x], req[x], i[x], reply[x]>>,
             \/ UNCHANGED <<pc[w], req[w], i[w], reply[w]>>
             \/ pc'[w] = "idle" /\ \A c \in Clients : server[c] # w
      PROVE  SyncInv'
  <2>1. \A x \in Workers : ServesCalm(x)' /\ CommitsNewer(x)'
    BY <1>3 DEF SyncInv, ServesCalm, CommitsNewer
  <2>2. \A c \in Clients, f \in Files : DiskOK(c, f)'
    BY <1>3 DEF SyncInv, DiskOK, Reached, Current
  <2>3. ASSUME NEW c \in Clients PROVE RunOK(c)'
    <3>1. server[c] # NoWorker => (Written(server[c])' => Written(server[c]))
      <4>1. server[c] # NoWorker => server[c] \in Workers
        BY <1>0 DEF SyncTypeInv, NetTyped
      <4>2. ASSUME NEW x \in Workers, x = server[c]
            PROVE  pc'[x] = pc[x] /\ req'[x] = req[x] /\ i'[x] = i[x] /\ reply'[x] = reply[x]
        BY <1>3, <4>2
      <4> QED BY <1>3, <4>1, <4>2 DEF Written
    <3>2. ASSUME VisitCalm(c) PROVE VisitCalm(c)'
      BY <1>3, <3>1, <3>2 DEF VisitCalm, Reached, Current, LocalOf, Known, SavedOf,
         Name, Gone, runVars
    <3> QED BY <1>3, <3>2 DEF SyncInv, RunOK, runVars
  <2> QED BY <1>0, <2>1, <2>2, <2>3 DEF SyncInv
<1>4. ASSUME NEW w \in Workers, DropReply(w) PROVE SyncInv'
  <2>1. UNCHANGED fileBar /\ UNCHANGED <<server, local, saved, newer, unsynced, runVars>>
    BY <1>0, <1>4, ClientKeepsFiles DEF DropReply, diskVars
  <2>2. /\ \A x \in Workers \ {w} : UNCHANGED <<pc[x], req[x], i[x], reply[x]>>
        /\ pc'[w] = "idle" /\ \A c \in Clients : server[c] # w
    BY <1>0, <1>4 DEF DropReply, Respond, SyncTypeInv, NetTyped, MetaInv, MetaTypeOK
  <2> QED BY <1>3, <2>1, <2>2
<1>5. CASE UNCHANGED syncVars
  <2>1. UNCHANGED <<fileBlock, pc, req, i, reply, server, local, saved, newer,
                    unsynced, runVars>>
    BY <1>5 DEF syncVars, netVars, metaVars, diskVars
  <2>2. UNCHANGED fileBar
    BY <2>1, SameTableSameFiles DEF FS!fsVars
  <2>3. \A c \in Clients, f \in Files : DiskOK(c, f)'
    BY <2>1, <2>2 DEF SyncInv, DiskOK, Reached, Current
  <2>4. \A c \in Clients : RunOK(c)'
    BY <2>1, <2>2 DEF SyncInv, RunOK, VisitCalm, Reached, Current, LocalOf, Known,
       SavedOf, Name, Gone, Written, runVars
  <2>5. \A x \in Workers : ServesCalm(x)' /\ CommitsNewer(x)'
    BY <2>1 DEF SyncInv, ServesCalm, CommitsNewer
  <2> QED BY <1>0, <2>3, <2>4, <2>5 DEF SyncInv
<1> QED BY <1>1, <1>2, <1>4, <1>5 DEF SyncNext, ClientStep

(* At first nothing is recorded and nobody runs.                           *)
LEMMA SyncInitInv == SyncInit => SyncInv
BY WholeInit DEF SyncInit, MetaInit, SyncInv, DiskOK, RunOK, ServesCalm, CommitsNewer

(* The invariant makes "already in sync" true: at rest by what             *)
(* versions.json says, and during a commit because the rows are of a newer *)
(* version than every recorded one.                                        *)
LEMMA SyncInvIsSafe ==
    ASSUME Calm, SyncInv
    PROVE  InSyncMeansSame
<1> SUFFICES ASSUME NEW c \in Clients, NEW f \in Files,
                    saved[c][f] # NoVersion, ~newer[c][f],
                    RowsAt(f) # <<>>, OnServer(f).version <= saved[c][f]
             PROVE  local[c][f] = OnServer(f).blocks
  BY DEF InSyncMeansSame
<1>0. /\ MetaInv /\ SerialInv /\ DiskOK(c, f) /\ saved[c][f] \in Nat
      /\ \A w \in Workers : CommitsNewer(w)
  BY DEF SyncInv, WholeInv, OrderInv, SyncTypeInv, NetTyped, DiskTyped
<1>1. CASE AtRest(f)
  <2>1. Current(f) = OnServer(f) /\ Current(f).version \in Nat
    BY <1>1, CurrentAtRest, CurrentTyped
  <2>2. Reached(f, saved[c][f], local[c][f])
    BY <1>0 DEF DiskOK
  <2>3. saved[c][f] = Current(f).version
    BY <1>0, <2>1, <2>2 DEF Reached
  <2> QED BY <2>1, <2>2, <2>3 DEF Reached
<1>2. CASE ~AtRest(f)
  <2>1. PICK w \in Workers : pc[w] = "insert" /\ Key(req[w]) = <<User, f>>
    BY <1>2 DEF AtRest, Inserting
  <2>2. req[w].file = f /\ req[w] \in CommitRequests /\ i[w] \in Nat
    BY <1>0, <2>1 DEF Key, MetaInv, MetaTypeOK, WorkerOK
  <2>3. RowsAt(f) = RowsOf(req[w], i[w])
    BY <1>0, <2>1 DEF SerialInv, CommitOK, RowsAt
  <2>4. i[w] # 0
    BY <2>3 DEF RowsOf
  <2>5. RowsAt(f)[1].version = req[w].version
    BY <2>2, <2>3, <2>4 DEF RowsOf, NewRow
  <2>6. OnServer(f).version = req[w].version
    BY <2>5 DEF OnServer, FileOfRows
  <2>7. saved[c][f] < req[w].version /\ req[w].version \in Nat
    BY <1>0, <2>1, <2>2, VersionsAssumption DEF CommitsNewer, CommitRequests
  <2> QED BY <1>0, <2>6, <2>7
<1> QED BY <1>1, <1>2

(* If machines take turns, "already in sync" is true of every file, with   *)
(* any number of machines and files, whatever requests fail and however    *)
(* often sync.py is killed, also between the statements of its commit.     *)
THEOREM InSyncCorrect ==
    ASSUME Calm
    PROVE  SyncSpec => []InSyncMeansSame
<1>1. SyncSpec => []SyncInv
  BY SyncInitInv, SyncStep, PTL DEF SyncSpec
<1> QED BY <1>1, SyncInvIsSafe, PTL

(* If machines take turns, sync.py never removes or overwrites an edit     *)
(* that was not on the server, with any number of machines and files.      *)
THEOREM EditsAreKept ==
    ASSUME Calm
    PROVE  SyncSpec => EditsKept
<1>1. SyncSpec => []SyncInv
  BY SyncInitInv, SyncStep, PTL DEF SyncSpec
<1>2. ASSUME SyncInv, SyncInv', [SyncNext]_syncVars
      PROVE  [\A c \in Clients, f \in Files :
                /\ unsynced[c][f] /\ saved[c][f] # NoVersion
                /\ local'[c][f] # local[c][f]
                => Remove(c, f) \/ \E b \in Contents : Edit(c, f, b)]_syncVars
  <2> SUFFICES ASSUME NEW c \in Clients, NEW f \in Files,
                      unsynced[c][f], saved[c][f] # NoVersion,
                      local'[c][f] # local[c][f]
               PROVE  \E b \in Contents : Edit(c, f, b)
    OBVIOUS
  <2>0. SyncTypeInv /\ DiskTyped
    BY <1>2 DEF SyncInv, WholeInv, OrderInv, SyncTypeInv
  <2>1. PICK d \in Clients : ClientStep(d)
    BY <1>2, <2>0, WorkerTyped DEF SyncNext, ClientStep, syncVars, diskVars
  <2>2. c = d
    BY <2>0, <2>1, DiskStep DEF DiskKept
  <2>3. CASE DiskSame \/ Save(d) \/ RemoveVersions(d)
    BY <2>3 DEF DiskSame, Save, RemoveVersions
  <2>4. CASE Download(d)
    <3>1. /\ cpc[d] = "download" /\ Name(d) \in Files
          /\ local' = [local EXCEPT ![d][Name(d)] = job[d].blocks]
      BY <2>0, <2>4, JobTyped DEF Download, SetLocal
    <3>2. f = Name(d)
      BY <2>0, <2>2, <3>1 DEF DiskTyped
    <3>3. ~unsynced[d][Name(d)]
      BY <1>2, <2>2, <3>1, <3>2 DEF SyncInv, RunOK, VisitCalm, Known, SavedOf
    <3> QED BY <2>2, <3>2, <3>3
  <2>5. ASSUME NEW g \in Files, NEW b \in Contents, Edit(d, g, b)
        PROVE  \E x \in Contents : Edit(c, f, x)
    <3>1. g = f
      BY <2>0, <2>2, <2>5 DEF Edit, DiskTyped
    <3> QED BY <2>2, <2>5, <3>1
  <2> QED BY <1>2, <2>1, <2>3, <2>4, <2>5, DiskMoves
<1> QED BY <1>1, <1>2, PTL DEF SyncSpec, EditsKept
=============================================================================

----------------------------- MODULE Metaserver -----------------------------
(***************************************************************************)
(* The metaserver of balabox: the FastCGI programs file_commit,            *)
(* block_query, block_list, file_list, file_delete and recent_hashes, and  *)
(* the table FileBlock that MySQLHelper reads and writes for them.         *)
(*                                                                         *)
(* Each program is a process that serves one request at a time; requests   *)
(* of different clients run in different processes.  MySQLHelper opens no  *)
(* transaction, so the unit of atomicity is one SQL statement, and an      *)
(* action below is one statement of a handler with the handler code up to  *)
(* the next one.                                                           *)
(***************************************************************************)
EXTENDS Naturals, Sequences

CONSTANTS
    Workers,            \* the handler processes
    Users, FileNames,   \* values of the columns user_id and file_name
    Hashes,             \* SHA-256 block hashes
    BlockLists,         \* the block lists clients send
    Versions,           \* the version numbers clients send
    Limits,             \* the values of max_hashes the prefetcher sends
    Faults,             \* "db": a statement or connect() fails;
                        \* "crash": a handler process dies
    OneHandlerPerUser,  \* TRUE: a user's requests are served one by one, as
                        \* when the user runs one sync.py that always waits
                        \* for its answers
    NoRequest, NoReply  \* values of req and reply of an idle worker

ASSUME BlockListsAssumption == BlockLists \subseteq Seq(Hashes)
ASSUME VersionsAssumption == Versions \subseteq Nat
ASSUME LimitsAssumption == Limits \subseteq Nat
ASSUME FaultsAssumption ==
    Faults \subseteq {"db", "crash"} /\ OneHandlerPerUser \in BOOLEAN

VARIABLES
    fileBlock,  \* table FileBlock: the rows of each (user, file), in the
                \* order of their insertion
    pc,         \* what each worker does next
    req,        \* the request a worker is serving
    i,          \* the loop index of updateFileData / getMissingBlockHashes
    missing,    \* the vector missingHashes
    reply       \* the answer a worker has written

metaVars == <<fileBlock, pc, req, i, missing, reply>>

Keys == Users \X FileNames

Row == [hash : Hashes, number : Nat, version : Nat]

CommitRequests == [op : {"file_commit"}, user : Users, file : FileNames,
                   hashes : BlockLists, version : Versions]
QueryRequests == [op : {"block_query"}, user : Users, hashes : BlockLists]
FileRequests == [op : {"block_list", "file_delete"},
                 user : Users, file : FileNames]
ListRequests == [op : {"file_list"}, user : Users]
RecentRequests == [op : {"recent_hashes"}, user : Users, max : Limits]
(* empty body, unparsable JSON, missing parameter, a max_hashes below zero *)
(* (an SQL error, answered alike)                                          *)
MalformedRequests == [op : {"malformed"}, user : Users]
Requests == CommitRequests \cup QueryRequests \cup FileRequests
              \cup ListRequests \cup RecentRequests \cup MalformedRequests

Key(r) == <<r.user, r.file>>

-----------------------------------------------------------------------------
(* The answers.  outputErrorMessage is status 400; 500 is the web server's *)
(* answer for a process that died.                                         *)
ErrorReply == [status |-> 400]
CrashReply == [status |-> 500]
CommitReply(ok) == [status |-> IF ok THEN 200 ELSE 400, metadata_updated |-> ok]
(* nb is "needed is not empty"                                             *)
QueryReply(needed) == [status |-> 200, needed |-> needed]
ListReply(blocks, v) == [status |-> 200, blocks |-> blocks, version |-> v]
FilesReply(files) == [status |-> 200, files |-> files]
DeleteReply == [status |-> 200, is_delete |-> TRUE]
RecentReply(hashes) == [status |-> 200, recent |-> hashes]

Replies ==
    [status : {400, 500}]
      \cup [status : {200, 400}, metadata_updated : BOOLEAN]
      \cup [status : {200}, needed : Seq(Hashes)]
      \cup [status : {200}, blocks : Seq(Hashes), version : Nat]
      \cup [status : {200}, files : SUBSET (FileNames \X Nat)]
      \cup [status : {200}, is_delete : {TRUE}]
      \cup [status : {200}, recent : Seq(Hashes)]

Answer(w, r) ==
    /\ pc' = [pc EXCEPT ![w] = "done"]
    /\ reply' = [reply EXCEPT ![w] = r]

-----------------------------------------------------------------------------
MetaInit ==
    /\ fileBlock = [k \in Keys |-> <<>>]
    /\ pc = [w \in Workers |-> "idle"]
    /\ req = [w \in Workers |-> NoRequest]
    /\ i = [w \in Workers |-> 0]
    /\ missing = [w \in Workers |-> <<>>]
    /\ reply = [w \in Workers |-> NoReply]

(* the first SQL statement of each program                                 *)
FirstStatement ==
    [file_commit |-> "select", block_query |-> "query",
     block_list |-> "blockList", file_list |-> "fileList",
     file_delete |-> "remove", recent_hashes |-> "recent"]

MayServe(w, r) ==
    /\ pc[w] = "idle"
    /\ OneHandlerPerUser =>
          \A x \in Workers : pc[x] # "idle" => req[x].user # r.user

(* FCGX_Accept_r returned and the input is valid                           *)
Accept(w, r) ==
    /\ MayServe(w, r)
    /\ r.op # "malformed"
    /\ req' = [req EXCEPT ![w] = r]
    /\ pc' = [pc EXCEPT ![w] = FirstStatement[r.op]]
    /\ UNCHANGED <<fileBlock, i, missing, reply>>

Reject(w, r) ==
    /\ MayServe(w, r)
    /\ r.op = "malformed"
    /\ req' = [req EXCEPT ![w] = r]
    /\ Answer(w, ErrorReply)
    /\ UNCHANGED <<fileBlock, i, missing>>

-----------------------------------------------------------------------------
(* file_commit: MySQLHelper::updateFileData                                *)

(* mutant of Fresh: > instead of >=                                        *)
FreshOrEqual(rows, v) ==
    IF rows = <<>> THEN v = 0
                   ELSE \E j \in DOMAIN rows : ~(rows[j].version > v)

(* The version check looks at the first row of a SELECT without ORDER BY:  *)
(* any row of the file.                                                    *)
Fresh(rows, v) ==
    IF rows = <<>> THEN v = 0
                   ELSE \E j \in DOMAIN rows : ~(rows[j].version >= v)

Stale(rows, v) ==
    IF rows = <<>> THEN v # 0
                   ELSE \E j \in DOMAIN rows : rows[j].version >= v

VersionAccepted(w) ==
    /\ pc[w] = "select"
    /\ Fresh(fileBlock[Key(req[w])], req[w].version)
    /\ pc' = [pc EXCEPT ![w] = "delete"]
    /\ UNCHANGED <<fileBlock, req, i, missing, reply>>

(* mutant of VersionRefused: the SELECT is repeated                        *)
VersionRefusedRetries(w) ==
    /\ pc[w] = "select"
    /\ Stale(fileBlock[Key(req[w])], req[w].version)
    /\ UNCHANGED metaVars

(* EVERS: 400, "Old client version."                                       *)
VersionRefused(w) ==
    /\ pc[w] = "select"
    /\ Stale(fileBlock[Key(req[w])], req[w].version)
    /\ Answer(w, CommitReply(FALSE))
    /\ UNCHANGED <<fileBlock, req, i, missing>>

(* mutant of DeleteOldRows: the old rows stay                              *)
DeleteSkipped(w) ==
    /\ pc[w] = "delete"
    /\ pc' = [pc EXCEPT ![w] = "insert"]
    /\ UNCHANGED <<fileBlock, req, i, missing, reply>>

DeleteOldRows(w) ==
    /\ pc[w] = "delete"
    /\ fileBlock' = [fileBlock EXCEPT ![Key(req[w])] = <<>>]
    /\ pc' = [pc EXCEPT ![w] = "insert"]
    /\ UNCHANGED <<req, i, missing, reply>>

NewRow(r, n) == [hash |-> r.hashes[n + 1], number |-> n, version |-> r.version]

InsertRow(w) ==
    /\ pc[w] = "insert"
    /\ i[w] < Len(req[w].hashes)
    /\ fileBlock' = [fileBlock EXCEPT ![Key(req[w])] =
                        Append(@, NewRow(req[w], i[w]))]
    /\ i' = [i EXCEPT ![w] = @ + 1]
    /\ UNCHANGED <<pc, req, missing, reply>>

CommitDone(w) ==
    /\ pc[w] = "insert"
    /\ i[w] = Len(req[w].hashes)
    /\ Answer(w, CommitReply(TRUE))
    /\ UNCHANGED <<fileBlock, req, i, missing>>

(* mutant of CommitFails: the error is ignored, as block_query does        *)
CommitErrorIgnored(w) ==
    /\ "db" \in Faults
    /\ \/ pc[w] \in {"select", "delete"}
       \/ pc[w] = "insert" /\ i[w] < Len(req[w].hashes)
    /\ Answer(w, CommitReply(TRUE))
    /\ UNCHANGED <<fileBlock, req, i, missing>>

(* any statement fails: the error is reported, what was done stays         *)
CommitFails(w) ==
    /\ "db" \in Faults
    /\ \/ pc[w] \in {"select", "delete"}
       \/ pc[w] = "insert" /\ i[w] < Len(req[w].hashes)
    /\ Answer(w, CommitReply(FALSE))
    /\ UNCHANGED <<fileBlock, req, i, missing>>

-----------------------------------------------------------------------------
(* block_query: MySQLHelper::getMissingBlockHashes                         *)

(* SELECT COUNT over the rows of all users                                 *)
InTable(h) ==
    \E k \in Keys : \E j \in DOMAIN fileBlock[k] : fileBlock[k][j].hash = h

QueryHash(w) ==
    /\ pc[w] = "query"
    /\ i[w] < Len(req[w].hashes)
    /\ LET h == req[w].hashes[i[w] + 1]
       IN  missing' = IF InTable(h) THEN missing
                      ELSE [missing EXCEPT ![w] = Append(@, h)]
    /\ i' = [i EXCEPT ![w] = @ + 1]
    /\ UNCHANGED <<fileBlock, pc, req, reply>>

(* mutant of QueryDone: the loop leaves out the last hash                  *)
QueryDoneEarly(w) ==
    /\ pc[w] = "query"
    /\ i[w] + 1 = Len(req[w].hashes)
    /\ Answer(w, QueryReply(missing[w]))
    /\ UNCHANGED <<fileBlock, req, i, missing>>

QueryDone(w) ==
    /\ pc[w] = "query"
    /\ i[w] = Len(req[w].hashes)
    /\ Answer(w, QueryReply(missing[w]))
    /\ UNCHANGED <<fileBlock, req, i, missing>>

(* For an empty list the loop never assigns res, and mysql_free_result is  *)
(* given an uninitialised pointer: the process may survive (QueryDone) or  *)
(* die.                                                                    *)
FreeUninitialised(w) ==
    /\ pc[w] = "query"
    /\ req[w].hashes = <<>>
    /\ Answer(w, CrashReply)
    /\ UNCHANGED <<fileBlock, req, i, missing>>

(* The handler ignores what connect and getMissingBlockHashes return and   *)
(* answers 200 with the hashes found missing so far.                       *)
QueryFails(w) ==
    /\ "db" \in Faults
    /\ pc[w] = "query"
    /\ i[w] < Len(req[w].hashes)
    /\ Answer(w, QueryReply(missing[w]))
    /\ UNCHANGED <<fileBlock, req, i, missing>>

-----------------------------------------------------------------------------
(* block_list, file_list, file_delete, recent_hashes: one statement each   *)

(* mutant of Ordered: no ORDER BY                                          *)
Unordered(rows) ==
    {s \in [DOMAIN rows -> DOMAIN rows] :
        \A a, b \in DOMAIN rows : a < b => s[a] # s[b]}

(* ORDER BY block_number: rows of equal number come in any order           *)
Ordered(rows) ==
    {s \in [DOMAIN rows -> DOMAIN rows] :
        \A a, b \in DOMAIN rows :
            a < b => s[a] # s[b] /\ rows[s[a]].number <= rows[s[b]].number}

(* the version answered is that of the last row fetched, 0 without rows    *)
BlockListAnswer(rows, s) ==
    ListReply([j \in DOMAIN rows |-> rows[s[j]].hash],
              IF rows = <<>> THEN 0 ELSE rows[s[Len(rows)]].version)

ReadBlockList(w) ==
    /\ pc[w] = "blockList"
    /\ LET rows == fileBlock[Key(req[w])]
       IN  \E s \in Ordered(rows) : Answer(w, BlockListAnswer(rows, s))
    /\ UNCHANGED <<fileBlock, req, i, missing>>

(* mutant of FilesOf: the columns in the wrong order                       *)
FilesOfSwapped(u) ==
    UNION {{<<fileBlock[<<u, f>>][j].version, f>> :
                j \in DOMAIN fileBlock[<<u, f>>]} : f \in FileNames}

(* SELECT DISTINCT file_name, version                                      *)
FilesOf(u) ==
    UNION {{<<f, fileBlock[<<u, f>>][j].version>> :
                j \in DOMAIN fileBlock[<<u, f>>]} : f \in FileNames}

ReadFileList(w) ==
    /\ pc[w] = "fileList"
    /\ Answer(w, FilesReply(FilesOf(req[w].user)))
    /\ UNCHANGED <<fileBlock, req, i, missing>>

(* no version is compared: whatever is stored goes                         *)
RemoveFile(w) ==
    /\ pc[w] = "remove"
    /\ fileBlock' = [fileBlock EXCEPT ![Key(req[w])] = <<>>]
    /\ Answer(w, DeleteReply)
    /\ UNCHANGED <<req, i, missing>>

(* the process dies after the DELETE of file_delete, before its answer     *)
DiesAfterRemove(w) ==
    /\ "crash" \in Faults
    /\ pc[w] = "remove"
    /\ fileBlock' = [fileBlock EXCEPT ![Key(req[w])] = <<>>]
    /\ Answer(w, CrashReply)
    /\ UNCHANGED <<req, i, missing>>

(* where the rows of a user are: <<file, place>>                           *)
UserRows(u) == UNION {{f} \X DOMAIN fileBlock[<<u, f>>] : f \in FileNames}

RowAt(u, x) == fileBlock[<<u, x[1]>>][x[2]]

(* the rows that LIMIT n leaves of a user's rows, in some order            *)
Limited(u, n) ==
    {s \in UNION {[1 .. k -> UserRows(u)] : k \in 0 .. n} :
        /\ \A a, b \in DOMAIN s : a # b => s[a] # s[b]
        /\ Len(s) < n => \A x \in UserRows(u) : \E a \in DOMAIN s : s[a] = x}

(* mutant of RecentRows: no ORDER BY                                       *)
RecentRowsUnordered(u, n) == Limited(u, n)

(* ORDER BY block_number ASC, time_last_accessed DESC LIMIT n: the times   *)
(* are seconds, rows of equal number come in any order                     *)
RecentRows(u, n) ==
    {s \in Limited(u, n) :
        /\ \A a, b \in DOMAIN s :
              a < b => RowAt(u, s[a]).number <= RowAt(u, s[b]).number
        /\ \A x \in UserRows(u) : \A b \in DOMAIN s :
              (\A a \in DOMAIN s : s[a] # x)
                 => RowAt(u, s[b]).number <= RowAt(u, x).number}

RecentAnswer(u, s) == RecentReply([a \in DOMAIN s |-> RowAt(u, s[a]).hash])

ReadRecentHashes(w) ==
    /\ pc[w] = "recent"
    /\ \E s \in RecentRows(req[w].user, req[w].max) :
          Answer(w, RecentAnswer(req[w].user, s))
    /\ UNCHANGED <<fileBlock, req, i, missing>>

(* connect() or the only statement fails: 400 without a JSON body          *)
RequestFails(w) ==
    /\ "db" \in Faults
    /\ pc[w] \in {"select", "blockList", "fileList", "remove", "recent"}
    /\ Answer(w, ErrorReply)
    /\ UNCHANGED <<fileBlock, req, i, missing>>

-----------------------------------------------------------------------------
(* The process dies between two statements.                                *)
DiesBetween(w) ==
    /\ "crash" \in Faults
    /\ pc[w] \notin {"idle", "done"}
    /\ Answer(w, CrashReply)
    /\ UNCHANGED <<fileBlock, req, i, missing>>

Crash(w) == DiesBetween(w) \/ DiesAfterRemove(w)

(* The answer leaves; the process goes back to FCGX_Accept_r.              *)
Respond(w) ==
    /\ pc[w] = "done"
    /\ pc' = [pc EXCEPT ![w] = "idle"]
    /\ req' = [req EXCEPT ![w] = NoRequest]
    /\ i' = [i EXCEPT ![w] = 0]
    /\ missing' = [missing EXCEPT ![w] = <<>>]
    /\ reply' = [reply EXCEPT ![w] = NoReply]
    /\ UNCHANGED fileBlock

Serve(w) ==
    \/ VersionAccepted(w) \/ VersionRefused(w) \/ DeleteOldRows(w)
    \/ InsertRow(w) \/ CommitDone(w)
    \/ QueryHash(w) \/ QueryDone(w) \/ FreeUninitialised(w)
    \/ ReadBlockList(w) \/ ReadFileList(w) \/ RemoveFile(w)
    \/ ReadRecentHashes(w)

StatementFails(w) == CommitFails(w) \/ QueryFails(w) \/ RequestFails(w)

Work(w) == Serve(w) \/ StatementFails(w)

MetaNext ==
    \E w \in Workers :
        \/ \E r \in Requests : Accept(w, r) \/ Reject(w, r)
        \/ Work(w)
        \/ Crash(w)
        \/ Respond(w)

MetaSpec == MetaInit /\ [][MetaNext]_metaVars

(* A process that has a request runs until it has answered it.             *)
MetaFairSpec ==
    MetaSpec /\ \A w \in Workers : WF_metaVars(Serve(w) \/ Respond(w))

-----------------------------------------------------------------------------
(* Type invariant of the table and of the handler processes.               *)
MetaTypeOK ==
    /\ fileBlock \in [Keys -> Seq(Row)]
    /\ pc \in [Workers -> {"idle", "select", "delete", "insert", "query",
                           "blockList", "fileList", "remove", "recent",
                           "done"}]
    /\ req \in [Workers -> Requests \cup {NoRequest}]
    /\ i \in [Workers -> Nat]
    /\ missing \in [Workers -> Seq(Hashes)]
    /\ reply \in [Workers -> Replies \cup {NoReply}]

(* The rows of a file always are one file: numbered 0, 1, 2, ... without   *)
(* gap or repetition, all of one version, also while a commit replaces     *)
(* them and after one was interrupted between DELETE and the last INSERT.  *)
RowsFormOneFile ==
    \A k \in Keys : \A j \in DOMAIN fileBlock[k] :
        /\ fileBlock[k][j].number = j - 1
        /\ fileBlock[k][j].version = fileBlock[k][1].version

(* the rows of the first n blocks of a commit request                      *)
RowsOf(r, n) == [j \in 1 .. n |-> NewRow(r, j - 1)]

(* When file_commit answers metadata_updated true, the table holds exactly *)
(* the block list and the version of the request.                          *)
AckedCommitIsStored ==
    \A w \in Workers :
        /\ pc[w] = "done"
        /\ req[w].op = "file_commit"
        /\ reply[w].status = 200
        => fileBlock[Key(req[w])] = RowsOf(req[w], Len(req[w].hashes))

(* updateFileData deletes the rows of a file only to replace them by a     *)
(* greater version, and creates an absent file only with version 0: the    *)
(* version check made by the SELECT still holds when the DELETE runs.      *)
UpdateOnlyOverOlderVersion ==
    [][\A w \in Workers : DeleteOldRows(w) =>
          LET rows == fileBlock[Key(req[w])]
          IN  /\ rows = <<>> => req[w].version = 0
              /\ \A j \in DOMAIN rows : rows[j].version < req[w].version
      ]_metaVars

FirstBlock(u, f, h) == fileBlock[<<u, f>>] # <<>> /\ fileBlock[<<u, f>>][1].hash = h

(* the answer of w names the first block of each of the user's files, or   *)
(* it has max hashes, each of them the first block of a file               *)
NamesFirstBlocks(w) ==
    LET u == req[w].user
        recent == reply[w].recent
    IN  \/ \A f \in FileNames, h \in Hashes :
              FirstBlock(u, f, h) => \E a \in DOMAIN recent : recent[a] = h
        \/ /\ Len(recent) = req[w].max
           /\ \A a \in DOMAIN recent : \E f \in FileNames : FirstBlock(u, f, recent[a])

(* mysql_helper.hpp on getRecentFirstHashes: "Once the first block hashes  *)
(* for all files have been selected, the second block hashes for all will  *)
(* be sent".  An answer of recent_hashes lacks the first block of a file   *)
(* only if first blocks of files filled it, also right after a commit or a *)
(* delete that was interrupted.                                            *)
FirstBlocksFirst ==
    \A w \in Workers :
        /\ pc[w] = "done"
        /\ req[w].op = "recent_hashes"
        /\ reply[w].status = 200
        => NamesFirstBlocks(w)

(* Every request a handler process takes is answered, whatever fails.      *)
EveryRequestAnswered ==
    \A w \in Workers : (pc[w] # "idle") ~> (pc[w] = "idle")

-----------------------------------------------------------------------------
(* The parts of the inductive invariant behind these properties.           *)

(* What a worker at a statement has in hand: a request of the right kind,  *)
(* no answer yet, and a loop index within the request's list.              *)
WorkerOK(w) ==
    /\ pc[w] = "idle" => i[w] = 0 /\ missing[w] = <<>>
    /\ pc[w] # "idle" => req[w] \in Requests
    /\ pc[w] = "done" => reply[w] \in Replies
    /\ pc[w] # "done" => reply[w] = NoReply
    /\ pc[w] \in {"select", "delete"} => req[w] \in CommitRequests /\ i[w] = 0
    /\ pc[w] = "insert" => req[w] \in CommitRequests
    /\ pc[w] = "query" => req[w] \in QueryRequests
    /\ pc[w] \in {"blockList", "remove"} => req[w] \in FileRequests
    /\ pc[w] = "blockList" => req[w].op = "block_list"
    /\ pc[w] = "remove" => req[w].op = "file_delete"
    /\ pc[w] = "fileList" => req[w] \in ListRequests
    /\ pc[w] = "recent" => req[w] \in RecentRequests
    /\ pc[w] \in {"insert", "query"} => i[w] <= Len(req[w].hashes)

(* The version check and the rows written so far, while a commit runs.     *)
CommitOK(w) ==
    LET rows == fileBlock[Key(req[w])]
    IN  /\ pc[w] = "delete" =>
              /\ rows = <<>> => req[w].version = 0
              /\ \A j \in DOMAIN rows : rows[j].version < req[w].version
        /\ pc[w] = "insert" => rows = RowsOf(req[w], i[w])

(* No two handler processes serve the same user at once.  Nothing on the   *)
(* server side sees to it: updateFileData relies on it, and it is up to    *)
(* sync.py, which sends a request only after the answer of the last one.   *)
Serialised ==
    \A w, x \in Workers :
        w # x /\ pc[w] # "idle" /\ pc[x] # "idle" => req[w].user # req[x].user

MetaInv ==
    /\ MetaTypeOK
    /\ \A w \in Workers : WorkerOK(w)

SerialInv ==
    /\ Serialised
    /\ \A w \in Workers : CommitOK(w)
    /\ RowsFormOneFile
    /\ AckedCommitIsStored

-----------------------------------------------------------------------------
(* The metaserver implements the versioned register of FileStore.  A commit*)
(* takes effect at its DELETE: while a worker inserts rows, the abstract   *)
(* file already is the whole list of its request.                          *)
Inserting(k) == {w \in Workers : pc[w] = "insert" /\ Key(req[w]) = k}

FileOfRows(rows) ==
    [version |-> IF rows = <<>> THEN 0 ELSE rows[1].version,
     blocks |-> [j \in DOMAIN rows |-> rows[j].hash]]

FileOfRequest(r) ==
    IF r.hashes = <<>> THEN FileOfRows(<<>>)
    ELSE [version |-> r.version, blocks |-> r.hashes]

fileBar ==
    [k \in Keys |-> IF Inserting(k) = {} THEN FileOfRows(fileBlock[k])
                    ELSE FileOfRequest(req[CHOOSE w \in Inserting(k) : TRUE])]

settledBar == [k \in Keys |-> Inserting(k) = {}]

seenBar ==
    [w \in Workers |->
        IF /\ pc[w] = "done"
           /\ req[w].op = "block_list"
           /\ reply[w].status = 200
        THEN [version |-> reply[w].version, blocks |-> reply[w].blocks]
        ELSE NoReply]

FS == INSTANCE FileStore
        WITH Readers <- Workers, MayTear <- Faults # {}, NotRead <- NoReply,
             file <- fileBar, settled <- settledBar, seen <- seenBar

(* Commits, reads and deletes of a user's files appear atomic and in       *)
(* version order to the user's clients.                                    *)
ImplementsFileStore == FS!Spec
=============================================================================

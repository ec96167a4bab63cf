-------------------------- MODULE MetaserverProofs --------------------------
(* Proofs about the metaserver, for any number of handler processes, users,*)
(* files and blocks.                                                       *)
EXTENDS Metaserver, TLAPS

USE DEF Keys

-----------------------------------------------------------------------------
(* Lemmas on requests and answers                                          *)

(* Every kind of answer the handlers write is an answer.                   *)
LEMMA RepliesTyped ==
    /\ ErrorReply \in Replies
    /\ CrashReply \in Replies
    /\ DeleteReply \in Replies
    /\ \A ok \in BOOLEAN : CommitReply(ok) \in Replies
    /\ \A s \in Seq(Hashes) : QueryReply(s) \in Replies
    /\ \A s \in Seq(Hashes), v \in Nat : ListReply(s, v) \in Replies
    /\ \A fs \in SUBSET (FileNames \X Nat) : FilesReply(fs) \in Replies
    /\ \A s \in Seq(Hashes) : RecentReply(s) \in Replies
<1>1. ErrorReply \in Replies /\ CrashReply \in Replies
  BY DEF ErrorReply, CrashReply, Replies
<1>2. DeleteReply \in Replies
  BY DEF DeleteReply, Replies
<1>3. CommitReply(TRUE) \in Replies /\ CommitReply(FALSE) \in Replies
  BY DEF CommitReply, Replies
<1>4. ASSUME NEW s \in Seq(Hashes) PROVE QueryReply(s) \in Replies
  BY DEF QueryReply, Replies
<1>5. ASSUME NEW s \in Seq(Hashes), NEW v \in Nat PROVE ListReply(s, v) \in Replies
  BY DEF ListReply, Replies
<1>6. ASSUME NEW fs \in SUBSET (FileNames \X Nat) PROVE FilesReply(fs) \in Replies
  BY DEF FilesReply, Replies
<1>7. ASSUME NEW s \in Seq(Hashes) PROVE RecentReply(s) \in Replies
  BY DEF RecentReply, Replies
<1> QED
  BY <1>1, <1>2, <1>3, <1>4, <1>5, <1>6, <1>7

(* The table's rows, in the order ORDER BY puts them, make a block_list    *)
(* answer.                                                                 *)
LEMMA BlockListAnswerTyped ==
    ASSUME NEW rows \in Seq(Row), NEW s \in Ordered(rows)
    PROVE  /\ BlockListAnswer(rows, s) \in Replies
           /\ BlockListAnswer(rows, s).blocks \in Seq(Hashes)
           /\ BlockListAnswer(rows, s).version \in Nat
<1>1. s \in [1 .. Len(rows) -> 1 .. Len(rows)] /\ DOMAIN rows = 1 .. Len(rows)
  BY DEF Ordered
<1>2. \A j \in 1 .. Len(rows) : rows[s[j]] \in Row
  BY <1>1
<1>3. [j \in DOMAIN rows |-> rows[s[j]].hash] \in Seq(Hashes)
  <2>1. \A j \in 1 .. Len(rows) : rows[s[j]].hash \in Hashes
    BY <1>2 DEF Row
  <2> QED
    BY <1>1, <2>1
<1>4. (IF rows = <<>> THEN 0 ELSE rows[s[Len(rows)]].version) \in Nat
  <2>1. rows # <<>> => Len(rows) \in 1 .. Len(rows)
    OBVIOUS
  <2>2. \A j \in 1 .. Len(rows) : rows[s[j]].version \in Nat
    BY <1>2 DEF Row
  <2> QED
    BY <2>1, <2>2
<1> QED
  BY <1>3, <1>4, RepliesTyped DEF BlockListAnswer, ListReply

(* The rows of a user make a file_list answer.                             *)
LEMMA FilesOfTyped ==
    ASSUME fileBlock \in [Keys -> Seq(Row)], NEW u \in Users
    PROVE  FilesOf(u) \in SUBSET (FileNames \X Nat)
<1>1. ASSUME NEW f \in FileNames, NEW j \in DOMAIN fileBlock[<<u, f>>]
      PROVE  fileBlock[<<u, f>>][j].version \in Nat
  <2>1. fileBlock[<<u, f>>] \in Seq(Row)
    OBVIOUS
  <2>2. fileBlock[<<u, f>>][j] \in Row
    BY <2>1
  <2> QED
    BY <2>2 DEF Row
<1>2. ASSUME NEW p \in FilesOf(u) PROVE p \in FileNames \X Nat
  <2>1. PICK f \in FileNames : \E j \in DOMAIN fileBlock[<<u, f>>] :
            p = <<f, fileBlock[<<u, f>>][j].version>>
    BY <1>2 DEF FilesOf
  <2> QED
    BY <1>1, <2>1
<1> QED
  BY <1>2

(* What LIMIT leaves of a user's rows makes a recent_hashes answer.        *)
LEMMA RecentTyped ==
    ASSUME fileBlock \in [Keys -> Seq(Row)], NEW u \in Users, NEW n \in Nat,
           NEW s \in RecentRows(u, n)
    PROVE  /\ Len(s) \in Nat /\ DOMAIN s = 1 .. Len(s)
           /\ \A a \in DOMAIN s :
                 /\ s[a] \in UserRows(u)
                 /\ s[a][1] \in FileNames
                 /\ s[a][2] \in DOMAIN fileBlock[<<u, s[a][1]>>]
                 /\ RowAt(u, s[a]) \in Row
           /\ RecentAnswer(u, s) \in Replies
<1>1. PICK k \in 0 .. n : s \in [1 .. k -> UserRows(u)]
  BY DEF RecentRows, Limited
<1>2. Len(s) = k /\ DOMAIN s = 1 .. k
  BY <1>1
<1>3. ASSUME NEW x \in UserRows(u)
      PROVE  x[1] \in FileNames /\ x[2] \in DOMAIN fileBlock[<<u, x[1]>>]
             /\ RowAt(u, x) \in Row
  <2>1. PICK f \in FileNames : x \in {f} \X DOMAIN fileBlock[<<u, f>>]
    BY DEF UserRows
  <2>2. fileBlock[<<u, f>>] \in Seq(Row)
    OBVIOUS
  <2>3. x[1] = f /\ x[2] \in DOMAIN fileBlock[<<u, f>>]
    BY <2>1
  <2>4. fileBlock[<<u, f>>][x[2]] \in Row
    BY <2>2, <2>3
  <2> QED BY <2>3, <2>4 DEF RowAt
<1>4. [a \in DOMAIN s |-> RowAt(u, s[a]).hash] \in Seq(Hashes)
  <2>1. \A a \in 1 .. k : RowAt(u, s[a]).hash \in Hashes
    BY <1>1, <1>3 DEF Row
  <2> QED BY <1>2, <2>1
<1> QED BY <1>1, <1>2, <1>3, <1>4, RepliesTyped DEF RecentAnswer

(* Inserting the next row extends the prefix stored so far.                *)
LEMMA RowsOfAppend ==
    ASSUME NEW r, NEW n \in Nat
    PROVE  Append(RowsOf(r, n), NewRow(r, n)) = RowsOf(r, n + 1)
  BY DEF RowsOf

(* Each program starts with a statement of its own.                        *)
LEMMA StatementOfRequest ==
    ASSUME NEW r \in Requests, r.op # "malformed"
    PROVE  \/ r \in CommitRequests /\ FirstStatement[r.op] = "select"
           \/ r \in QueryRequests /\ FirstStatement[r.op] = "query"
           \/ /\ r \in FileRequests
              /\ \/ FirstStatement[r.op] = "blockList" /\ r.op = "block_list"
                 \/ FirstStatement[r.op] = "remove" /\ r.op = "file_delete"
           \/ r \in ListRequests /\ FirstStatement[r.op] = "fileList"
           \/ r \in RecentRequests /\ FirstStatement[r.op] = "recent"
  BY DEF Requests, CommitRequests, QueryRequests, FileRequests, ListRequests,
         RecentRequests, MalformedRequests, FirstStatement

(* Writing an answer keeps the invariant, provided the table stays a table.*)
LEMMA AnswerKeepsInv ==
    ASSUME MetaInv, NEW w \in Workers, NEW r \in Replies,
           pc[w] # "idle", Answer(w, r),
           fileBlock' \in [Keys -> Seq(Row)], UNCHANGED <<req, i, missing>>
    PROVE  MetaInv'
  BY DEF MetaInv, MetaTypeOK, WorkerOK, Answer

(* The index and the hash of a request's list, for the loops.              *)
LEMMA HashesTyped ==
    ASSUME NEW r \in CommitRequests \cup QueryRequests
    PROVE  /\ r.hashes \in Seq(Hashes)
           /\ Len(r.hashes) \in Nat
           /\ \A n \in Nat : n < Len(r.hashes) => r.hashes[n + 1] \in Hashes
  BY BlockListsAssumption DEF CommitRequests, QueryRequests

-----------------------------------------------------------------------------
(* The type invariant, whatever overlaps and whatever fails                *)

(* An empty table and idle workers satisfy the type invariant.             *)
LEMMA MetaInitInv == MetaInit => MetaInv
  BY DEF MetaInit, MetaInv, MetaTypeOK, WorkerOK

(* Every statement, answer and failure of a handler keeps it.              *)
LEMMA MetaNextInv == MetaInv /\ [MetaNext]_metaVars => MetaInv'
<1> SUFFICES ASSUME MetaInv, [MetaNext]_metaVars PROVE MetaInv'
  OBVIOUS
<1>1. ASSUME NEW w \in Workers, NEW r \in Requests, Accept(w, r)
      PROVE  MetaInv'
  <2>1. \/ r \in CommitRequests /\ pc'[w] = "select"
        \/ r \in QueryRequests /\ pc'[w] = "query"
        \/ /\ r \in FileRequests
           /\ \/ pc'[w] = "blockList" /\ r.op = "block_list"
              \/ pc'[w] = "remove" /\ r.op = "file_delete"
        \/ r \in ListRequests /\ pc'[w] = "fileList"
        \/ r \in RecentRequests /\ pc'[w] = "recent"
    BY <1>1, StatementOfRequest DEF MetaInv, MetaTypeOK, Accept
  <2>2. r \in QueryRequests => Len(r.hashes) \in Nat
    BY HashesTyped
  <2> QED
    BY <1>1, <2>1, <2>2 DEF MetaInv, MetaTypeOK, WorkerOK, Accept, MayServe
<1>2. ASSUME NEW w \in Workers, NEW r \in Requests, Reject(w, r)
      PROVE  MetaInv'
  BY <1>2, RepliesTyped DEF MetaInv, MetaTypeOK, WorkerOK, Reject, MayServe, Answer
<1>3. ASSUME NEW w \in Workers, VersionAccepted(w) PROVE MetaInv'
  BY <1>3 DEF MetaInv, MetaTypeOK, WorkerOK, VersionAccepted
<1>4. ASSUME NEW w \in Workers, VersionRefused(w) PROVE MetaInv'
  BY <1>4, RepliesTyped, AnswerKeepsInv DEF VersionRefused, MetaInv, MetaTypeOK
<1>5. ASSUME NEW w \in Workers, DeleteOldRows(w) PROVE MetaInv'
  <2>1. fileBlock' \in [Keys -> Seq(Row)]
    BY <1>5, <<>> \in Seq(Row) DEF DeleteOldRows, MetaInv, MetaTypeOK
  <2>2. req[w] \in CommitRequests /\ i[w] = 0 /\ Len(req[w].hashes) \in Nat
    BY <1>5, HashesTyped DEF DeleteOldRows, MetaInv, WorkerOK
  <2> QED
    BY <1>5, <2>1, <2>2 DEF MetaInv, MetaTypeOK, WorkerOK, DeleteOldRows
<1>6. ASSUME NEW w \in Workers, InsertRow(w) PROVE MetaInv'
  <2>1. /\ req[w] \in CommitRequests
        /\ i[w] \in Nat /\ Len(req[w].hashes) \in Nat
    BY <1>6, HashesTyped DEF InsertRow, MetaInv, MetaTypeOK, WorkerOK
  <2>2. NewRow(req[w], i[w]) \in Row
    BY <1>6, <2>1, HashesTyped, VersionsAssumption
       DEF InsertRow, NewRow, Row, CommitRequests
  <2>3. fileBlock' \in [Keys -> Seq(Row)]
    <3>1. Key(req[w]) \in Keys
      BY <2>1 DEF Key, CommitRequests
    <3>2. Append(fileBlock[Key(req[w])], NewRow(req[w], i[w])) \in Seq(Row)
      BY <2>2, <3>1 DEF MetaInv, MetaTypeOK
    <3> QED
      BY <1>6, <3>2 DEF InsertRow, MetaInv, MetaTypeOK
  <2> QED
    BY <1>6, <2>1, <2>3 DEF MetaInv, MetaTypeOK, WorkerOK, InsertRow
<1>7. ASSUME NEW w \in Workers, CommitDone(w) PROVE MetaInv'
  BY <1>7, RepliesTyped, AnswerKeepsInv DEF CommitDone, MetaInv, MetaTypeOK
<1>8. ASSUME NEW w \in Workers, CommitFails(w) PROVE MetaInv'
  BY <1>8, RepliesTyped, AnswerKeepsInv DEF CommitFails, MetaInv, MetaTypeOK
<1>9. ASSUME NEW w \in Workers, QueryHash(w) PROVE MetaInv'
  BY <1>9, HashesTyped DEF MetaInv, MetaTypeOK, WorkerOK, QueryHash
<1>10. ASSUME NEW w \in Workers, QueryDone(w) PROVE MetaInv'
  BY <1>10, RepliesTyped, AnswerKeepsInv DEF QueryDone, MetaInv, MetaTypeOK
<1>11. ASSUME NEW w \in Workers, FreeUninitialised(w) PROVE MetaInv'
  BY <1>11, RepliesTyped, AnswerKeepsInv DEF FreeUninitialised, MetaInv, MetaTypeOK
<1>12. ASSUME NEW w \in Workers, QueryFails(w) PROVE MetaInv'
  BY <1>12, RepliesTyped, AnswerKeepsInv DEF QueryFails, MetaInv, MetaTypeOK
<1>13. ASSUME NEW w \in Workers, ReadBlockList(w) PROVE MetaInv'
  <2> DEFINE rows == fileBlock[Key(req[w])]
  <2>1. rows \in Seq(Row)
    BY <1>13 DEF MetaInv, MetaTypeOK, WorkerOK, ReadBlockList, FileRequests, Key
  <2>2. PICK s \in Ordered(rows) : Answer(w, BlockListAnswer(rows, s))
    BY <1>13 DEF ReadBlockList
  <2>3. BlockListAnswer(rows, s) \in Replies
    BY <2>1, <2>2, BlockListAnswerTyped
  <2> QED
    BY <1>13, <2>2, <2>3, AnswerKeepsInv DEF ReadBlockList, MetaInv, MetaTypeOK
<1>14. ASSUME NEW w \in Workers, ReadFileList(w) PROVE MetaInv'
  <2>1. req[w].user \in Users
    BY <1>14 DEF MetaInv, WorkerOK, ReadFileList, ListRequests
  <2>2. FilesOf(req[w].user) \in SUBSET (FileNames \X Nat)
    BY <2>1, FilesOfTyped DEF MetaInv, MetaTypeOK
  <2> QED
    BY <1>14, <2>2, RepliesTyped, AnswerKeepsInv DEF ReadFileList, MetaInv, MetaTypeOK
<1>15. ASSUME NEW w \in Workers, RemoveFile(w) \/ DiesAfterRemove(w) PROVE MetaInv'
  <2>1. fileBlock' \in [Keys -> Seq(Row)]
    BY <1>15, <<>> \in Seq(Row) DEF RemoveFile, DiesAfterRemove, MetaInv, MetaTypeOK
  <2> QED
    BY <1>15, <2>1, RepliesTyped, AnswerKeepsInv DEF RemoveFile, DiesAfterRemove
<1>16. ASSUME NEW w \in Workers, RequestFails(w) PROVE MetaInv'
  BY <1>16, RepliesTyped, AnswerKeepsInv DEF RequestFails, MetaInv, MetaTypeOK
<1>17. ASSUME NEW w \in Workers, DiesBetween(w) PROVE MetaInv'
  BY <1>17, RepliesTyped, AnswerKeepsInv DEF DiesBetween, MetaInv, MetaTypeOK
<1>18. ASSUME NEW w \in Workers, Respond(w) PROVE MetaInv'
  BY <1>18 DEF MetaInv, MetaTypeOK, WorkerOK, Respond
<1>19. ASSUME NEW w \in Workers, ReadRecentHashes(w) PROVE MetaInv'
  <2>1. req[w].user \in Users /\ req[w].max \in Nat
    BY <1>19, LimitsAssumption DEF MetaInv, WorkerOK, ReadRecentHashes, RecentRequests
  <2>2. PICK s \in RecentRows(req[w].user, req[w].max) :
            Answer(w, RecentAnswer(req[w].user, s))
    BY <1>19 DEF ReadRecentHashes
  <2>3. RecentAnswer(req[w].user, s) \in Replies
    BY <2>1, RecentTyped DEF MetaInv, MetaTypeOK
  <2> QED
    BY <1>19, <2>2, <2>3, AnswerKeepsInv DEF ReadRecentHashes, MetaInv, MetaTypeOK
<1>20. CASE UNCHANGED metaVars
  BY <1>20 DEF MetaInv, MetaTypeOK, WorkerOK, metaVars
<1> QED
  BY <1>1, <1>2, <1>3, <1>4, <1>5, <1>6, <1>7, <1>8, <1>9, <1>10, <1>11, <1>12,
     <1>13, <1>14, <1>15, <1>16, <1>17, <1>18, <1>19, <1>20 DEF MetaNext, Work,
     Serve, StatementFails, Crash

(* A worker step touches nothing but the worker itself and the table.      *)
LEMMA WorkFrame ==
    ASSUME MetaInv, NEW w \in Workers, Work(w) \/ Crash(w)
    PROVE  /\ pc[w] # "idle" /\ pc'[w] # "idle" /\ req' = req
           /\ \A x \in Workers \ {w} : pc'[x] = pc[x] /\ i'[x] = i[x]
                  /\ missing'[x] = missing[x] /\ reply'[x] = reply[x]
<1> USE DEF MetaInv, MetaTypeOK, Answer
<1>1. CASE VersionAccepted(w) \/ VersionRefused(w) \/ DeleteOldRows(w) \/ InsertRow(w)
             \/ CommitDone(w) \/ CommitFails(w)
  BY <1>1 DEF VersionAccepted, VersionRefused, DeleteOldRows, InsertRow, CommitDone,
              CommitFails
<1>2. CASE QueryHash(w) \/ QueryDone(w) \/ FreeUninitialised(w) \/ QueryFails(w)
  BY <1>2 DEF QueryHash, QueryDone, FreeUninitialised, QueryFails
<1>3. CASE ReadBlockList(w)
  BY <1>3 DEF ReadBlockList
<1>4. CASE ReadFileList(w) \/ RemoveFile(w) \/ RequestFails(w) \/ Crash(w)
  BY <1>4 DEF ReadFileList, RemoveFile, RequestFails, Crash, DiesBetween,
              DiesAfterRemove
<1>5. CASE ReadRecentHashes(w)
  BY <1>5 DEF ReadRecentHashes
<1> QED
  BY <1>1, <1>2, <1>3, <1>4, <1>5 DEF Work, Serve, StatementFails

(* The table and the handler processes keep their types, under any overlap *)
(* of requests and any failure the model allows.                           *)
THEOREM MetaTypeCorrect == MetaSpec => []MetaTypeOK
<1>1. MetaInv => MetaTypeOK
  BY DEF MetaInv
<1> QED
  BY <1>1, MetaInitInv, MetaNextInv, PTL DEF MetaSpec

-----------------------------------------------------------------------------
(* When a user's requests are served one at a time                         *)

(* Two workers that serve requests work on different files.                *)
LEMMA KeysApart ==
    ASSUME Serialised, NEW w \in Workers, NEW x \in Workers, w # x,
           pc[w] # "idle", pc[x] # "idle"
    PROVE  Key(req[w]) # Key(req[x])
  BY DEF Serialised, Key

(* Taking a request, as Accept and Reject do, keeps requests serialised.   *)
LEMMA TakeSerialised ==
    ASSUME OneHandlerPerUser, MetaInv, Serialised,
           NEW w \in Workers, NEW r \in Requests, NEW p, MayServe(w, r),
           req' = [req EXCEPT ![w] = r], pc' = [pc EXCEPT ![w] = p]
    PROVE  Serialised'
  BY DEF MetaInv, MetaTypeOK, Serialised, MayServe

(* An answer leaves the rest of the invariant alone; a success of          *)
(* file_commit may only be answered when the rows are stored.              *)
LEMMA AnswerKeepsSerial ==
    ASSUME MetaInv, SerialInv, NEW w \in Workers, NEW r \in Replies,
           pc[w] \notin {"idle", "done"}, Answer(w, r),
           UNCHANGED <<fileBlock, req, i, missing>>,
           req[w].op = "file_commit" /\ r.status = 200 =>
               fileBlock[Key(req[w])] = RowsOf(req[w], Len(req[w].hashes))
    PROVE  SerialInv'
<1>1. Serialised'
  BY DEF SerialInv, Serialised, MetaInv, MetaTypeOK, Answer
<1>2. \A x \in Workers : CommitOK(x)'
  BY DEF SerialInv, CommitOK, MetaInv, MetaTypeOK, Answer
<1>3. RowsFormOneFile'
  BY DEF SerialInv, RowsFormOneFile
<1>4. AckedCommitIsStored'
  <2> SUFFICES ASSUME NEW x \in Workers, pc'[x] = "done", req[x].op = "file_commit",
                      reply'[x].status = 200
               PROVE  fileBlock[Key(req[x])] = RowsOf(req[x], Len(req[x].hashes))
    BY DEF AckedCommitIsStored
  <2>1. CASE x = w
    BY <2>1 DEF MetaInv, MetaTypeOK, Answer
  <2>2. CASE x # w
    BY <2>2 DEF SerialInv, AckedCommitIsStored, MetaInv, MetaTypeOK, Answer
  <2> QED
    BY <2>1, <2>2
<1> QED
  BY <1>1, <1>2, <1>3, <1>4 DEF SerialInv

(* A statement of worker w that changes rows of its own file only.         *)
LEMMA OthersKeepTheirRows ==
    ASSUME MetaInv, SerialInv, NEW w \in Workers, pc[w] # "idle",
           NEW rows, fileBlock' = [fileBlock EXCEPT ![Key(req[w])] = rows],
           NEW p, pc' = [pc EXCEPT ![w] = p], p # "idle",
           UNCHANGED req,
           \A x \in Workers \ {w} : i'[x] = i[x] /\ reply'[x] = reply[x]
    PROVE  /\ Serialised'
           /\ \A x \in Workers \ {w} : CommitOK(x)'
           /\ \A x \in Workers \ {w} :
                 pc'[x] = "done" /\ req'[x].op = "file_commit" /\ reply'[x].status = 200
                 => fileBlock'[Key(req'[x])] = RowsOf(req'[x], Len(req'[x].hashes))
<1>1. Serialised'
  BY DEF SerialInv, Serialised, MetaInv, MetaTypeOK
<1>2. ASSUME NEW x \in Workers \ {w}, pc[x] # "idle"
      PROVE  fileBlock'[Key(req[x])] = fileBlock[Key(req[x])]
  BY <1>2, KeysApart DEF SerialInv, MetaInv, MetaTypeOK
<1>3. ASSUME NEW x \in Workers \ {w} PROVE CommitOK(x)'
  <2>1. pc'[x] = pc[x] /\ req' = req /\ i'[x] = i[x]
    BY DEF MetaInv, MetaTypeOK
  <2>2. CASE pc[x] = "idle"
    BY <2>1, <2>2 DEF CommitOK
  <2>3. CASE pc[x] # "idle"
    BY <1>2, <2>1, <2>3 DEF SerialInv, CommitOK
  <2> QED
    BY <2>2, <2>3
<1>4. ASSUME NEW x \in Workers \ {w}, pc'[x] = "done", req'[x].op = "file_commit",
             reply'[x].status = 200
      PROVE  fileBlock'[Key(req'[x])] = RowsOf(req'[x], Len(req'[x].hashes))
  <2>1. pc[x] = "done" /\ req' = req /\ reply'[x] = reply[x]
    BY <1>4 DEF MetaInv, MetaTypeOK
  <2>2. fileBlock'[Key(req[x])] = fileBlock[Key(req[x])]
    BY <1>2, <2>1
  <2> QED
    BY <1>4, <2>1, <2>2 DEF SerialInv, AckedCommitIsStored
<1> QED
  BY <1>1, <1>3, <1>4

(* The statuses of the answers                                             *)
LEMMA ReplyStatus ==
    /\ ErrorReply.status # 200
    /\ CrashReply.status # 200
    /\ CommitReply(FALSE).status # 200
  BY DEF ErrorReply, CrashReply, CommitReply

(* An empty table satisfies the invariant of serialised commits.           *)
LEMMA SerialInitInv == MetaInit => SerialInv
  BY DEF MetaInit, SerialInv, Serialised, CommitOK, RowsFormOneFile,
         AckedCommitIsStored

(* Every step keeps the invariant of serialised commits: no other worker   *)
(* touches the rows of a file between the SELECT of a commit and its last  *)
(* INSERT.  Requests are taken one by one because the server does so       *)
(* (OneHandlerPerUser) or because clients send them so.                    *)
LEMMA SerialNextInv ==
    ASSUME OneHandlerPerUser \/ Serialised', MetaInv, SerialInv, [MetaNext]_metaVars
    PROVE  SerialInv'
<1> USE DEF MetaInv, MetaTypeOK
<1>1. ASSUME NEW w \in Workers, NEW r \in Requests, Accept(w, r) PROVE SerialInv'
  <2>1. Serialised'
    BY <1>1, TakeSerialised DEF Accept, SerialInv
  <2>2. pc'[w] \notin {"delete", "insert", "done"}
    BY <1>1, StatementOfRequest DEF Accept
  <2>3. ASSUME NEW x \in Workers PROVE CommitOK(x)'
    BY <1>1, <2>2 DEF Accept, SerialInv, CommitOK
  <2>4. RowsFormOneFile' /\ AckedCommitIsStored'
    BY <1>1, <2>2 DEF Accept, SerialInv, RowsFormOneFile, AckedCommitIsStored
  <2> QED
    BY <2>1, <2>3, <2>4 DEF SerialInv
<1>2. ASSUME NEW w \in Workers, NEW r \in Requests, Reject(w, r) PROVE SerialInv'
  <2>1. Serialised'
    BY <1>2, TakeSerialised DEF Reject, Answer, SerialInv
  <2>2. pc'[w] = "done" /\ reply'[w].status # 200
    BY <1>2, ReplyStatus DEF Reject, Answer
  <2>3. ASSUME NEW x \in Workers PROVE CommitOK(x)'
    BY <1>2, <2>2 DEF Reject, Answer, SerialInv, CommitOK
  <2>4. RowsFormOneFile' /\ AckedCommitIsStored'
    BY <1>2, <2>2 DEF Reject, Answer, SerialInv, RowsFormOneFile, AckedCommitIsStored
  <2> QED
    BY <2>1, <2>3, <2>4 DEF SerialInv
<1>3. ASSUME NEW w \in Workers, VersionAccepted(w) PROVE SerialInv'
  <2>1. Serialised' /\ RowsFormOneFile' /\ AckedCommitIsStored'
    BY <1>3 DEF VersionAccepted, SerialInv, Serialised, RowsFormOneFile, AckedCommitIsStored
  <2>2. CommitOK(w)'
    <3> DEFINE rows == fileBlock[Key(req[w])]
    <3>1. rows \in Seq(Row) /\ req[w].version \in Nat
      BY <1>3, VersionsAssumption DEF VersionAccepted, WorkerOK, CommitRequests, Key
    <3>2. Fresh(rows, req[w].version)
      BY <1>3 DEF VersionAccepted
    <3>3. \A j \in DOMAIN rows : rows[j].version = rows[1].version /\ rows[j].version \in Nat
      <4>1. \A j \in DOMAIN rows : rows[j] \in Row
        BY <3>1
      <4>2. Key(req[w]) \in Keys
        BY <1>3 DEF VersionAccepted, WorkerOK, CommitRequests, Key
      <4> QED
        BY <4>1, <4>2 DEF SerialInv, RowsFormOneFile, Row
    <3>4. rows = <<>> => req[w].version = 0
      BY <3>2 DEF Fresh
    <3>5. \A j \in DOMAIN rows : rows[j].version < req[w].version
      BY <3>1, <3>2, <3>3 DEF Fresh
    <3> QED
      BY <1>3, <3>4, <3>5 DEF VersionAccepted, CommitOK
  <2>3. ASSUME NEW x \in Workers \ {w} PROVE CommitOK(x)'
    BY <1>3 DEF VersionAccepted, SerialInv, CommitOK
  <2> QED
    BY <2>1, <2>2, <2>3 DEF SerialInv
<1>4. ASSUME NEW w \in Workers, VersionRefused(w) PROVE SerialInv'
  BY <1>4, RepliesTyped, ReplyStatus, AnswerKeepsSerial DEF VersionRefused
<1>5. ASSUME NEW w \in Workers, DeleteOldRows(w) PROVE SerialInv'
  <2>1. /\ Serialised'
        /\ \A x \in Workers \ {w} : CommitOK(x)'
        /\ \A x \in Workers \ {w} :
              pc'[x] = "done" /\ req'[x].op = "file_commit" /\ reply'[x].status = 200
              => fileBlock'[Key(req'[x])] = RowsOf(req'[x], Len(req'[x].hashes))
    BY <1>5, OthersKeepTheirRows DEF DeleteOldRows
  <2>2. CommitOK(w)'
    <3>1. i[w] = 0 /\ Key(req[w]) \in Keys
      BY <1>5 DEF DeleteOldRows, WorkerOK, CommitRequests, Key
    <3>2. RowsOf(req[w], 0) = <<>>
      BY DEF RowsOf
    <3> QED
      BY <1>5, <3>1, <3>2 DEF DeleteOldRows, CommitOK
  <2>3. RowsFormOneFile'
    BY <1>5 DEF DeleteOldRows, SerialInv, RowsFormOneFile
  <2> QED
    BY <1>5, <2>1, <2>2, <2>3 DEF DeleteOldRows, SerialInv, AckedCommitIsStored
<1>6. ASSUME NEW w \in Workers, InsertRow(w) PROVE SerialInv'
  <2> DEFINE k == Key(req[w])
             n == i[w]
  <2>1. /\ k \in Keys /\ n \in Nat
        /\ fileBlock[k] = RowsOf(req[w], n)
        /\ fileBlock'[k] = Append(RowsOf(req[w], n), NewRow(req[w], n))
    BY <1>6 DEF InsertRow, WorkerOK, CommitRequests, Key, SerialInv, CommitOK
  <2>2. fileBlock'[k] = RowsOf(req[w], n + 1)
    BY <2>1, RowsOfAppend
  <2>3. /\ Serialised'
        /\ \A x \in Workers \ {w} : CommitOK(x)'
        /\ \A x \in Workers \ {w} :
              pc'[x] = "done" /\ req'[x].op = "file_commit" /\ reply'[x].status = 200
              => fileBlock'[Key(req'[x])] = RowsOf(req'[x], Len(req'[x].hashes))
    <3> DEFINE rows == Append(fileBlock[k], NewRow(req[w], n))
    <3>1. pc[w] # "idle" /\ pc' = [pc EXCEPT ![w] = "insert"]
      BY <1>6 DEF InsertRow
    <3>2. fileBlock' = [fileBlock EXCEPT ![Key(req[w])] = rows]
      BY <1>6 DEF InsertRow
    <3>3. UNCHANGED req /\ \A x \in Workers \ {w} : i'[x] = i[x] /\ reply'[x] = reply[x]
      BY <1>6 DEF InsertRow
    <3> HIDE DEF rows
    <3> QED
      BY <3>1, <3>2, <3>3, OthersKeepTheirRows
  <2>4. CommitOK(w)'
    BY <1>6, <2>2 DEF InsertRow, CommitOK
  <2>5. RowsFormOneFile'
    <3>1. ASSUME NEW j \in DOMAIN fileBlock'[k]
          PROVE  /\ fileBlock'[k][j].number = j - 1
                 /\ fileBlock'[k][j].version = fileBlock'[k][1].version
      BY <2>1, <2>2 DEF RowsOf, NewRow
    <3>2. \A q \in Keys \ {k} : fileBlock'[q] = fileBlock[q]
      BY <1>6 DEF InsertRow
    <3>3. ASSUME NEW q \in Keys, NEW j \in DOMAIN fileBlock'[q]
          PROVE  /\ fileBlock'[q][j].number = j - 1
                 /\ fileBlock'[q][j].version = fileBlock'[q][1].version
      <4>1. CASE q = k
        BY <3>1, <4>1
      <4>2. CASE q # k
        BY <3>2, <4>2 DEF SerialInv, RowsFormOneFile
      <4> QED
        BY <4>1, <4>2
    <3> QED
      BY <3>3 DEF RowsFormOneFile
  <2> QED
    BY <1>6, <2>3, <2>4, <2>5 DEF InsertRow, SerialInv, AckedCommitIsStored
<1>7. ASSUME NEW w \in Workers, CommitDone(w) PROVE SerialInv'
  <2>1. fileBlock[Key(req[w])] = RowsOf(req[w], Len(req[w].hashes))
    BY <1>7 DEF CommitDone, SerialInv, CommitOK
  <2> QED
    BY <1>7, <2>1, RepliesTyped, AnswerKeepsSerial DEF CommitDone
<1>8. ASSUME NEW w \in Workers, CommitFails(w) PROVE SerialInv'
  BY <1>8, RepliesTyped, ReplyStatus, AnswerKeepsSerial DEF CommitFails
<1>9. ASSUME NEW w \in Workers, QueryHash(w) PROVE SerialInv'
  BY <1>9 DEF QueryHash, SerialInv, Serialised, CommitOK, RowsFormOneFile, AckedCommitIsStored
<1>10. ASSUME NEW w \in Workers, QueryDone(w) \/ QueryFails(w) PROVE SerialInv'
  BY <1>10, RepliesTyped, AnswerKeepsSerial
     DEF QueryDone, QueryFails, WorkerOK, QueryRequests
<1>11. ASSUME NEW w \in Workers, FreeUninitialised(w) PROVE SerialInv'
  BY <1>11, RepliesTyped, ReplyStatus, AnswerKeepsSerial DEF FreeUninitialised
<1>12. ASSUME NEW w \in Workers, ReadBlockList(w) PROVE SerialInv'
  <2>1. fileBlock[Key(req[w])] \in Seq(Row) /\ req[w].op # "file_commit"
    BY <1>12 DEF ReadBlockList, WorkerOK, FileRequests, Key
  <2>2. PICK s \in Ordered(fileBlock[Key(req[w])]) :
             Answer(w, BlockListAnswer(fileBlock[Key(req[w])], s))
    BY <1>12 DEF ReadBlockList
  <2>3. BlockListAnswer(fileBlock[Key(req[w])], s) \in Replies
    BY <2>1, BlockListAnswerTyped
  <2> QED
    BY <1>12, <2>1, <2>2, <2>3, AnswerKeepsSerial DEF ReadBlockList
<1>13. ASSUME NEW w \in Workers, ReadFileList(w) PROVE SerialInv'
  <2>1. req[w].user \in Users /\ req[w].op # "file_commit"
    BY <1>13 DEF ReadFileList, WorkerOK, ListRequests
  <2>2. FilesReply(FilesOf(req[w].user)) \in Replies
    BY <2>1, FilesOfTyped, RepliesTyped
  <2> QED
    BY <1>13, <2>1, <2>2, AnswerKeepsSerial DEF ReadFileList
<1>14. ASSUME NEW w \in Workers, RemoveFile(w) \/ DiesAfterRemove(w)
       PROVE  SerialInv'
  <2>1. PICK r : /\ pc[w] = "remove" /\ Answer(w, r)
                 /\ fileBlock' = [fileBlock EXCEPT ![Key(req[w])] = <<>>]
                 /\ UNCHANGED <<req, i, missing>>
    BY <1>14 DEF RemoveFile, DiesAfterRemove
  <2>2. /\ Serialised'
        /\ \A x \in Workers \ {w} : CommitOK(x)'
        /\ \A x \in Workers \ {w} :
              pc'[x] = "done" /\ req'[x].op = "file_commit" /\ reply'[x].status = 200
              => fileBlock'[Key(req'[x])] = RowsOf(req'[x], Len(req'[x].hashes))
    BY <2>1, OthersKeepTheirRows DEF Answer
  <2>3. CommitOK(w)' /\ req[w].op # "file_commit"
    BY <2>1 DEF Answer, CommitOK, WorkerOK, FileRequests
  <2>4. RowsFormOneFile'
    BY <2>1 DEF SerialInv, RowsFormOneFile
  <2> QED
    BY <2>1, <2>2, <2>3, <2>4 DEF SerialInv, AckedCommitIsStored
<1>15. ASSUME NEW w \in Workers, RequestFails(w) PROVE SerialInv'
  BY <1>15, RepliesTyped, ReplyStatus, AnswerKeepsSerial DEF RequestFails
<1>16. ASSUME NEW w \in Workers, DiesBetween(w) PROVE SerialInv'
  BY <1>16, RepliesTyped, ReplyStatus, AnswerKeepsSerial DEF DiesBetween
<1>17. ASSUME NEW w \in Workers, Respond(w) PROVE SerialInv'
  <2>1. Serialised' /\ RowsFormOneFile' /\ AckedCommitIsStored'
    BY <1>17 DEF Respond, SerialInv, Serialised, RowsFormOneFile, AckedCommitIsStored
  <2>2. \A x \in Workers : CommitOK(x)'
    BY <1>17 DEF Respond, SerialInv, CommitOK
  <2> QED
    BY <2>1, <2>2 DEF SerialInv
<1>18. ASSUME NEW w \in Workers, ReadRecentHashes(w) PROVE SerialInv'
  <2>1. req[w].user \in Users /\ req[w].max \in Nat /\ req[w].op # "file_commit"
    BY <1>18, LimitsAssumption DEF WorkerOK, ReadRecentHashes, RecentRequests
  <2>2. PICK s \in RecentRows(req[w].user, req[w].max) :
            Answer(w, RecentAnswer(req[w].user, s))
    BY <1>18 DEF ReadRecentHashes
  <2>3. RecentAnswer(req[w].user, s) \in Replies
    BY <2>1, RecentTyped
  <2> QED
    BY <1>18, <2>1, <2>2, <2>3, AnswerKeepsSerial DEF ReadRecentHashes
<1>19. CASE UNCHANGED metaVars
  BY <1>19 DEF metaVars, SerialInv, Serialised, CommitOK, RowsFormOneFile, AckedCommitIsStored
<1> QED
  BY <1>1, <1>2, <1>3, <1>4, <1>5, <1>6, <1>7, <1>8, <1>9, <1>10, <1>11, <1>12,
     <1>13, <1>14, <1>15, <1>16, <1>17, <1>18, <1>19 DEF MetaNext, Work,
     Serve, StatementFails, Crash

-----------------------------------------------------------------------------
(* What recent_hashes answers                                              *)

(* A row that an answer leaves out has no smaller number than a row it     *)
(* has; first blocks are the rows of number 0.                             *)
LEMMA RecentHasFirsts ==
    ASSUME MetaInv, RowsFormOneFile, NEW u \in Users, NEW n \in Nat,
           NEW s \in RecentRows(u, n), NEW f \in FileNames,
           fileBlock[<<u, f>>] # <<>>,
           \A a \in DOMAIN s : RowAt(u, s[a]).hash # fileBlock[<<u, f>>][1].hash
    PROVE  /\ Len(s) = n
           /\ \A a \in DOMAIN s :
                 fileBlock[<<u, s[a][1]>>] # <<>> /\ s[a][2] = 1
<1>1. <<u, f>> \in Keys /\ fileBlock[<<u, f>>] \in Seq(Row)
      /\ 1 \in DOMAIN fileBlock[<<u, f>>]
  BY DEF MetaInv, MetaTypeOK
<1> DEFINE x == <<f, 1>>
<1>2. x \in UserRows(u) /\ RowAt(u, x) = fileBlock[<<u, f>>][1]
  BY <1>1 DEF UserRows, RowAt
<1>3. RowAt(u, x).number = 0
  BY <1>1, <1>2 DEF RowsFormOneFile
<1>4. \A a \in DOMAIN s : s[a] # x
  BY <1>2
<1>5. \A b \in DOMAIN s : RowAt(u, s[b]).number <= RowAt(u, x).number
  BY <1>2, <1>4 DEF RecentRows
<1>6. Len(s) = n
  <2>1. Len(s) <= n /\ Len(s) \in Nat
    BY DEF RecentRows, Limited
  <2>2. ~(Len(s) < n)
    BY <1>2, <1>4 DEF RecentRows, Limited
  <2> QED BY <2>1, <2>2
<1> HIDE DEF x
<1>7. ASSUME NEW a \in DOMAIN s
      PROVE  fileBlock[<<u, s[a][1]>>] # <<>> /\ s[a][2] = 1
  <2>1. /\ s[a][1] \in FileNames
        /\ s[a][2] \in DOMAIN fileBlock[<<u, s[a][1]>>]
        /\ RowAt(u, s[a]) \in Row
    BY RecentTyped DEF MetaInv, MetaTypeOK
  <2>2. <<u, s[a][1]>> \in Keys /\ fileBlock[<<u, s[a][1]>>] \in Seq(Row)
    BY <2>1 DEF MetaInv, MetaTypeOK
  <2>3. RowAt(u, s[a]).number = s[a][2] - 1
    BY <2>1, <2>2 DEF RowsFormOneFile, RowAt
  <2>4. s[a][2] \in Nat /\ s[a][2] >= 1
    BY <2>1, <2>2
  <2> QED BY <1>3, <1>5, <2>1, <2>2, <2>3, <2>4
<1> QED BY <1>6, <1>7

(* What ReadRecentHashes answers names the first blocks of the moment.     *)
LEMMA RecentAnswerNamesFirsts ==
    ASSUME MetaInv, RowsFormOneFile, NEW w \in Workers, ReadRecentHashes(w)
    PROVE  NamesFirstBlocks(w)'
<1> DEFINE u == req[w].user
           n == req[w].max
<1>1. u \in Users /\ n \in Nat
  BY LimitsAssumption DEF MetaInv, WorkerOK, ReadRecentHashes, RecentRequests
<1>2. PICK s \in RecentRows(u, n) : Answer(w, RecentAnswer(u, s))
  BY DEF ReadRecentHashes
<1> DEFINE recent == [a \in DOMAIN s |-> RowAt(u, s[a]).hash]
<1>3. reply'[w].recent = recent /\ UNCHANGED <<req, fileBlock>>
  BY <1>2 DEF Answer, RecentAnswer, RecentReply, ReadRecentHashes, MetaInv, MetaTypeOK
<1>4. DOMAIN s = 1 .. Len(s) /\ Len(s) \in Nat
      /\ \A a \in DOMAIN s : s[a][1] \in FileNames
  BY <1>1, RecentTyped DEF MetaInv, MetaTypeOK
<1>5. DOMAIN recent = DOMAIN s /\ Len(recent) = Len(s)
  BY <1>4
<1>6. CASE \E f \in FileNames : /\ fileBlock[<<u, f>>] # <<>>
                                /\ \A a \in DOMAIN s :
                                      recent[a] # fileBlock[<<u, f>>][1].hash
  <2>1. /\ Len(s) = n
        /\ \A a \in DOMAIN s :
              fileBlock[<<u, s[a][1]>>] # <<>> /\ s[a][2] = 1
    BY <1>1, <1>6, RecentHasFirsts
  <2>2. ASSUME NEW a \in DOMAIN recent
        PROVE  \E f \in FileNames : FirstBlock(u, f, recent[a])
    BY <1>4, <1>5, <2>1 DEF FirstBlock, RowAt
  <2> HIDE DEF recent
  <2> QED BY <1>3, <1>5, <2>1, <2>2 DEF NamesFirstBlocks, FirstBlock
<1>7. CASE \A f \in FileNames : fileBlock[<<u, f>>] # <<>> =>
              \E a \in DOMAIN s : recent[a] = fileBlock[<<u, f>>][1].hash
  <2> HIDE DEF recent
  <2> QED BY <1>3, <1>5, <1>7 DEF NamesFirstBlocks, FirstBlock
<1> QED BY <1>6, <1>7

(* Between an answer and the next request of its user no other worker      *)
(* touches the user's rows.                                                *)
LEMMA FirstsNextInv ==
    ASSUME MetaInv, SerialInv, FirstBlocksFirst, [MetaNext]_metaVars
    PROVE  FirstBlocksFirst'
<1> USE DEF MetaInv, MetaTypeOK
<1>1. ASSUME NEW x \in Workers, pc[x] = "done", UNCHANGED <<pc[x], req[x], reply[x]>>,
             \A f \in FileNames : UNCHANGED fileBlock[<<req[x].user, f>>],
             req'[x].op = "recent_hashes", reply'[x].status = 200
      PROVE  NamesFirstBlocks(x)'
  <2>1. NamesFirstBlocks(x)
    BY <1>1 DEF FirstBlocksFirst
  <2>2. ASSUME NEW f \in FileNames, NEW h
        PROVE  FirstBlock(req[x].user, f, h)' <=> FirstBlock(req[x].user, f, h)
    <3>1. fileBlock'[<<req'[x].user, f>>] = fileBlock[<<req[x].user, f>>]
      BY <1>1
    <3> QED BY <3>1 DEF FirstBlock
  <2> QED BY <1>1, <2>1, <2>2 DEF NamesFirstBlocks
<1>2. ASSUME NEW w \in Workers,
             \A x \in Workers \ {w} : UNCHANGED <<pc[x], req[x], reply[x]>>,
             \/ UNCHANGED fileBlock
             \/ pc[w] # "idle" /\ \E rows :
                    fileBlock' = [fileBlock EXCEPT ![Key(req[w])] = rows],
             \/ pc'[w] # "done"
             \/ req'[w].op # "recent_hashes"
             \/ reply'[w].status # 200
             \/ NamesFirstBlocks(w)'
      PROVE  FirstBlocksFirst'
  <2> SUFFICES ASSUME NEW x \in Workers \ {w}, pc'[x] = "done",
                      req'[x].op = "recent_hashes", reply'[x].status = 200
               PROVE  NamesFirstBlocks(x)'
    BY <1>2 DEF FirstBlocksFirst
  <2>1. ASSUME NEW f \in FileNames PROVE UNCHANGED fileBlock[<<req[x].user, f>>]
    <3> USE <1>2
    <3>1. pc[x] = "done" /\ req[x] \in Requests /\ req[x].op = "recent_hashes"
      BY DEF WorkerOK
    <3>2. <<req[x].user, f>> \in Keys
      BY <3>1 DEF Requests, CommitRequests, QueryRequests, FileRequests,
         ListRequests, RecentRequests, MalformedRequests
    <3>3. pc[w] # "idle" => req[w].user # req[x].user
      BY <1>2 DEF SerialInv, Serialised
    <3>4. pc[w] # "idle" => Key(req[w]) # <<req[x].user, f>>
      BY <3>3 DEF Key
    <3>5. req'[x].user = req[x].user
      OBVIOUS
    <3>6. ASSUME pc[w] # "idle", NEW rows,
                 fileBlock' = [fileBlock EXCEPT ![Key(req[w])] = rows]
          PROVE  fileBlock'[<<req[x].user, f>>] = fileBlock[<<req[x].user, f>>]
      BY <3>4, <3>6, <3>2
    <3> QED BY <3>5, <3>6
  <2> QED BY <1>1, <1>2, <2>1
<1>3. ASSUME NEW w \in Workers, Work(w) PROVE FirstBlocksFirst'
  <2>1. CASE ReadRecentHashes(w)
    BY <1>2, <2>1, RecentAnswerNamesFirsts DEF SerialInv, ReadRecentHashes, Answer
  <2>2. CASE \/ VersionAccepted(w) \/ DeleteOldRows(w) \/ InsertRow(w) \/ QueryHash(w)
    <3>1. /\ \A x \in Workers \ {w} : UNCHANGED <<pc[x], req[x], reply[x]>>
          /\ pc[w] # "idle" /\ pc'[w] # "done"
      BY <2>2 DEF VersionAccepted, DeleteOldRows, InsertRow, QueryHash
    <3>2. \/ UNCHANGED fileBlock
          \/ \E rows : fileBlock' = [fileBlock EXCEPT ![Key(req[w])] = rows]
      BY <2>2 DEF VersionAccepted, DeleteOldRows, InsertRow, QueryHash
    <3> QED BY <1>2, <3>1, <3>2
  <2>3. CASE VersionRefused(w) \/ CommitDone(w) \/ CommitFails(w)
    BY <1>2, <2>3
       DEF VersionRefused, CommitDone, CommitFails, Answer, WorkerOK, CommitRequests
  <2>4. CASE QueryDone(w) \/ FreeUninitialised(w) \/ QueryFails(w)
    BY <1>2, <2>4
       DEF QueryDone, FreeUninitialised, QueryFails, Answer, WorkerOK, QueryRequests
  <2>5. CASE ReadBlockList(w) \/ RemoveFile(w) \/ ReadFileList(w)
    BY <1>2, <2>5 DEF ReadBlockList, RemoveFile, ReadFileList, Answer, WorkerOK,
       FileRequests, ListRequests
  <2>6. CASE RequestFails(w)
    BY <1>2, <2>6, ReplyStatus DEF RequestFails, Answer
  <2> QED BY <1>3, <2>1, <2>2, <2>3, <2>4, <2>5, <2>6 DEF Work,
      Serve, StatementFails
<1>4. ASSUME NEW w \in Workers, Crash(w) \/ Respond(w) PROVE FirstBlocksFirst'
  <2>1. CASE DiesBetween(w) \/ Respond(w)
    BY <1>2, <2>1, ReplyStatus DEF DiesBetween, Respond, Answer
  <2>2. CASE DiesAfterRemove(w)
    BY <1>2, <2>2 DEF DiesAfterRemove, Answer, WorkerOK, FileRequests
  <2> QED BY <1>4, <2>1, <2>2 DEF Crash
<1>5. ASSUME NEW w \in Workers, NEW r \in Requests, Accept(w, r) \/ Reject(w, r)
      PROVE  FirstBlocksFirst'
  <2>1. pc'[w] = "done" => reply'[w].status # 200
    <3>1. CASE Accept(w, r)
      <4>1. FirstStatement[r.op] # "done"
        BY <3>1, StatementOfRequest DEF Accept
      <4> QED BY <3>1, <4>1 DEF Accept
    <3>2. CASE Reject(w, r)
      BY <3>2, ReplyStatus DEF Reject, Answer
    <3> QED BY <1>5, <3>1, <3>2
  <2> QED BY <1>2, <1>5, <2>1 DEF Accept, Reject, Answer
<1>6. CASE UNCHANGED metaVars
  BY <1>1, <1>6 DEF metaVars, FirstBlocksFirst
<1> QED BY <1>3, <1>4, <1>5, <1>6 DEF MetaNext

(* The invariant of requests served one at a time.                         *)
LEMMA SerialInvariant ==
    ASSUME OneHandlerPerUser
    PROVE  MetaSpec => [](MetaInv /\ SerialInv)
<1>1. MetaInv /\ SerialInv /\ [MetaNext]_metaVars => (MetaInv /\ SerialInv)'
  BY MetaNextInv, SerialNextInv
<1> QED
  BY <1>1, MetaInitInv, SerialInitInv, PTL DEF MetaSpec

(* If a user's requests are served one at a time, the rows of each file    *)
(* form one file, whatever fails.                                          *)
THEOREM SerialCorrect ==
    ASSUME OneHandlerPerUser
    PROVE  MetaSpec => []RowsFormOneFile
<1>1. SerialInv => RowsFormOneFile
  BY DEF SerialInv
<1> QED
  BY <1>1, SerialInvariant, PTL

(* If a user's requests are served one at a time, a commit answered with   *)
(* metadata_updated true is stored as requested, whatever fails.           *)
THEOREM AckedCommitCorrect ==
    ASSUME OneHandlerPerUser
    PROVE  MetaSpec => []AckedCommitIsStored
<1>1. SerialInv => AckedCommitIsStored
  BY DEF SerialInv
<1> QED
  BY <1>1, SerialInvariant, PTL

(* If a user's requests are served one at a time, updateFileData replaces  *)
(* a file only by a greater version: no commit overwrites a newer one.     *)
THEOREM UpdatesOnlyOlder ==
    ASSUME OneHandlerPerUser
    PROVE  MetaSpec => UpdateOnlyOverOlderVersion
<1>1. MetaInv /\ SerialInv /\ [MetaNext]_metaVars => (MetaInv /\ SerialInv)'
  BY MetaNextInv, SerialNextInv
<1>2. ASSUME MetaInv, SerialInv
      PROVE  \A w \in Workers : DeleteOldRows(w) =>
                LET rows == fileBlock[Key(req[w])]
                IN  /\ rows = <<>> => req[w].version = 0
                    /\ \A j \in DOMAIN rows : rows[j].version < req[w].version
  BY <1>2 DEF SerialInv, CommitOK, DeleteOldRows
<1> QED
  BY <1>1, <1>2, MetaInitInv, SerialInitInv, PTL DEF MetaSpec, UpdateOnlyOverOlderVersion

(* If a user's requests are served one at a time, recent_hashes names the  *)
(* first blocks of all of the user's files before any other block, for any *)
(* number of files and whatever interrupted earlier commits and deletes.   *)
THEOREM RecentCorrect ==
    ASSUME OneHandlerPerUser
    PROVE  MetaSpec => []FirstBlocksFirst
<1> DEFINE Inv == MetaInv /\ SerialInv /\ FirstBlocksFirst
<1>1. Inv /\ [MetaNext]_metaVars => Inv'
  BY MetaNextInv, SerialNextInv, FirstsNextInv
<1>2. MetaInit => FirstBlocksFirst
  BY DEF MetaInit, FirstBlocksFirst
<1> QED
  BY <1>1, <1>2, MetaInitInv, SerialInitInv, PTL DEF MetaSpec
=============================================================================

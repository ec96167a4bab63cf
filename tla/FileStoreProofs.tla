--------------------------- MODULE FileStoreProofs ---------------------------
(* The metaserver implements the versioned register of FileStore, for any  *)
(* number of handler processes, users, files and blocks, and whatever      *)
(* statement fails or process dies, as long as a user's requests are       *)
(* served one at a time.                                                   *)
EXTENDS MetaserverProofs, FiniteSetTheorems, FunctionTheorems

USE DEF Keys

-----------------------------------------------------------------------------
(* ORDER BY block_number on the rows of one file                           *)

(* An increasing map of an interval into one of the same length is the     *)
(* identity: the j numbers up to j go to j numbers up to s[j], and those   *)
(* from j on to numbers from s[j] on.                                      *)
LEMMA IncreasingIsIdentity ==
    ASSUME NEW n \in Nat, NEW s \in [1 .. n -> 1 .. n],
           \A a, b \in 1 .. n : a < b => s[a] < s[b],
           NEW j \in 1 .. n
    PROVE  s[j] = j
<1>1. ASSUME NEW a \in 1 .. n, NEW b \in 1 .. n, s[a] = s[b] PROVE a = b
  <2>1. ~(a < b) /\ ~(b < a)
    <3>1. s[a] \in Int /\ s[b] \in Int
      OBVIOUS
    <3> QED BY <1>1, <3>1
  <2> QED BY <2>1
<1>2. j <= s[j]
  <2> DEFINE f == [a \in 1 .. j |-> s[a]]
  <2>1. ASSUME NEW a \in 1 .. j PROVE a \in 1 .. n /\ s[a] \in 1 .. s[j]
    <3>1. a \in 1 .. n /\ (a = j \/ a < j)
      OBVIOUS
    <3> QED BY <3>1
  <2>2. \A a, b \in 1 .. j : f[a] = f[b] => a = b
    BY <1>1, <2>1
  <2>3. f \in Injection(1 .. j, 1 .. s[j])
    BY <2>1, <2>2, Fun_IsInj
  <2>4. /\ IsFiniteSet(1 .. s[j])
        /\ Cardinality(1 .. j) = j /\ Cardinality(1 .. s[j]) = s[j]
    BY FS_Interval
  <2> QED BY <2>3, <2>4, FS_Injection
<1>3. s[j] <= j
  <2> DEFINE f == [a \in j .. n |-> s[a]]
  <2>1. ASSUME NEW a \in j .. n PROVE a \in 1 .. n /\ s[a] \in s[j] .. n
    <3>1. a \in 1 .. n /\ (a = j \/ j < a)
      OBVIOUS
    <3> QED BY <3>1
  <2>2. \A a, b \in j .. n : f[a] = f[b] => a = b
    BY <1>1, <2>1
  <2>3. f \in Injection(j .. n, s[j] .. n)
    BY <2>1, <2>2, Fun_IsInj
  <2>4. /\ IsFiniteSet(s[j] .. n)
        /\ Cardinality(j .. n) = n - j + 1
        /\ Cardinality(s[j] .. n) = n - s[j] + 1
    BY FS_Interval
  <2>5. Cardinality(j .. n) <= Cardinality(s[j] .. n)
    BY <2>3, <2>4, FS_Injection
  <2> QED BY <2>4, <2>5
<1> QED BY <1>2, <1>3

(* block_list answers with the stored file: its rows, numbered 0, 1, ...,  *)
(* have one order only.                                                    *)
LEMMA AnswerIsFile ==
    ASSUME MetaInv, RowsFormOneFile, NEW k \in Keys,
           NEW s \in Ordered(fileBlock[k])
    PROVE  BlockListAnswer(fileBlock[k], s) =
               ListReply(FileOfRows(fileBlock[k]).blocks,
                         FileOfRows(fileBlock[k]).version)
<1> DEFINE rows == fileBlock[k]
           n == Len(rows)
<1>1. rows \in Seq(Row) /\ n \in Nat /\ DOMAIN rows = 1 .. n
  BY DEF MetaInv, MetaTypeOK
<1>2. s \in [1 .. n -> 1 .. n]
  BY <1>1 DEF Ordered
<1>3. \A j \in 1 .. n : rows[j].number = j - 1 /\ rows[j].version = rows[1].version
  BY <1>1 DEF RowsFormOneFile
<1>4. \A a, b \in 1 .. n : a < b => s[a] < s[b]
  <2> SUFFICES ASSUME NEW a \in 1 .. n, NEW b \in 1 .. n, a < b
               PROVE  s[a] < s[b]
    OBVIOUS
  <2>1. s[a] # s[b] /\ rows[s[a]].number <= rows[s[b]].number
    BY <1>1 DEF Ordered
  <2>2. s[a] \in 1 .. n /\ s[b] \in 1 .. n
    BY <1>2
  <2>3. rows[s[a]].number = s[a] - 1 /\ rows[s[b]].number = s[b] - 1
    BY <1>3, <2>2
  <2> QED BY <1>1, <2>1, <2>2, <2>3
<1>5. \A j \in 1 .. n : s[j] = j
  BY <1>1, <1>2, <1>4, IncreasingIsIdentity
<1>6. [j \in DOMAIN rows |-> rows[s[j]].hash] = [j \in DOMAIN rows |-> rows[j].hash]
  BY <1>1, <1>5
<1>7. rows # <<>> => rows[s[n]].version = rows[1].version
  BY <1>1, <1>3, <1>5
<1> QED BY <1>6, <1>7 DEF BlockListAnswer, FileOfRows
-----------------------------------------------------------------------------
(* The mapping of files                                                    *)

(* The table without rows of a file is the absent file, and only that.     *)
LEMMA AbsentFile ==
    /\ FileOfRows(<<>>) = FS!Absent
    /\ \A rows \in Seq(Row) : rows # <<>> =>
          FileOfRows(rows) # FS!Absent /\ FileOfRows(rows).version = rows[1].version
<1>1. FileOfRows(<<>>) = FS!Absent
  BY DEF FileOfRows, FS!Absent
<1>2. ASSUME NEW rows \in Seq(Row), rows # <<>>
      PROVE  FileOfRows(rows) # FS!Absent /\ FileOfRows(rows).version = rows[1].version
  <2>1. FileOfRows(rows).blocks # <<>>
    BY <1>2 DEF FileOfRows
  <2> QED BY <1>2, <2>1 DEF FileOfRows, FS!Absent
<1> QED BY <1>1, <1>2

(* What a commit asks for is what the register stores.                     *)
LEMMA RequestIsStored ==
    ASSUME NEW r \in CommitRequests
    PROVE  /\ FileOfRequest(r) = FS!Stored(r.version, r.hashes)
           /\ FileOfRequest(r).blocks = r.hashes
<1>1. FileOfRows(<<>>) = FS!Absent
  BY AbsentFile
<1> QED BY <1>1 DEF FileOfRequest, FS!Stored, FS!Absent

(* The rows written so far are the file cut after as many blocks.          *)
LEMMA RowsArePrefix ==
    ASSUME NEW r \in CommitRequests, NEW n \in 0 .. Len(r.hashes)
    PROVE  FileOfRows(RowsOf(r, n)) =
               FS!Stored(FileOfRequest(r).version, SubSeq(r.hashes, 1, n))
<1>1. r.hashes \in Seq(Hashes) /\ n \in Nat
  BY HashesTyped
<1>2. CASE n = 0
  <2>1. RowsOf(r, n) = <<>> /\ SubSeq(r.hashes, 1, n) = <<>>
    BY <1>1, <1>2 DEF RowsOf
  <2> QED BY <2>1, AbsentFile DEF FS!Stored
<1>3. CASE n > 0
  <2>1. r.hashes # <<>> /\ FileOfRequest(r).version = r.version
    BY <1>1, <1>3 DEF FileOfRequest
  <2>2. /\ RowsOf(r, n) # <<>> /\ DOMAIN RowsOf(r, n) = 1 .. n
        /\ \A j \in 1 .. n : RowsOf(r, n)[j].hash = r.hashes[j]
        /\ RowsOf(r, n)[1].version = r.version
    <3>1. DOMAIN RowsOf(r, n) = 1 .. n
      BY DEF RowsOf
    <3>2. ASSUME NEW j \in 1 .. n
          PROVE  /\ RowsOf(r, n)[j].hash = r.hashes[j]
                 /\ RowsOf(r, n)[j].version = r.version
      <4>1. RowsOf(r, n)[j] = NewRow(r, j - 1) /\ (j - 1) + 1 = j
        BY <1>1 DEF RowsOf
      <4> QED BY <4>1 DEF NewRow
    <3>3. 1 \in 1 .. n
      BY <1>1, <1>3
    <3>4. RowsOf(r, n) # <<>>
      BY <3>1, <3>3
    <3> QED BY <3>1, <3>2, <3>3, <3>4
  <2>3. SubSeq(r.hashes, 1, n) # <<>>
    BY <1>1, <1>3
  <2>4. SubSeq(r.hashes, 1, n) = [j \in 1 .. n |-> r.hashes[j]]
    BY <1>1
  <2>5. FileOfRows(RowsOf(r, n)) =
            [version |-> r.version, blocks |-> [j \in 1 .. n |-> r.hashes[j]]]
    BY <2>2 DEF FileOfRows
  <2> QED BY <2>1, <2>3, <2>4, <2>5 DEF FS!Stored
<1> QED BY <1>1, <1>2, <1>3

(* While a worker inserts the rows of a file, the file is what it was      *)
(* asked to commit.                                                        *)
LEMMA FileWhileInserting ==
    ASSUME Serialised, NEW w \in Workers, pc[w] = "insert",
           NEW k \in Keys, Key(req[w]) = k
    PROVE  ~settledBar[k] /\ fileBar[k] = FileOfRequest(req[w])
<1>1. Inserting(k) = {w}
  BY KeysApart DEF Inserting
<1> QED BY <1>1 DEF settledBar, fileBar

(* While none does, the file is what the rows are.                         *)
LEMMA FileAtRest ==
    ASSUME NEW k \in Keys, \A x \in Workers : ~(pc[x] = "insert" /\ Key(req[x]) = k)
    PROVE  settledBar[k] /\ fileBar[k] = FileOfRows(fileBlock[k])
  BY DEF Inserting, settledBar, fileBar

(* As FileWhileInserting, after a step.                                    *)
LEMMA NextFileWhileInserting ==
    ASSUME Serialised', NEW w \in Workers, pc'[w] = "insert",
           NEW k \in Keys, Key(req'[w]) = k
    PROVE  ~settledBar'[k] /\ fileBar'[k] = FileOfRequest(req'[w])
<1>1. Inserting(k)' = {w}
  BY DEF Inserting, Serialised, Key
<1> QED BY <1>1 DEF settledBar, fileBar

(* As FileAtRest, after a step.                                            *)
LEMMA NextFileAtRest ==
    ASSUME NEW k \in Keys, \A x \in Workers : ~(pc'[x] = "insert" /\ Key(req'[x]) = k)
    PROVE  settledBar'[k] /\ fileBar'[k] = FileOfRows(fileBlock'[k])
  BY DEF Inserting, settledBar, fileBar
(* The mapping is a function of the keys and of the workers.               *)
LEMMA BarsAreFunctions ==
    /\ fileBar = [k \in Keys |-> fileBar[k]]
    /\ settledBar = [k \in Keys |-> settledBar[k]]
    /\ seenBar = [w \in Workers |-> seenBar[w]]
    /\ fileBar' = [k \in Keys |-> fileBar'[k]]
    /\ settledBar' = [k \in Keys |-> settledBar'[k]]
    /\ seenBar' = [w \in Workers |-> seenBar'[w]]
<1>1. fileBar = [k \in Keys |-> fileBar[k]] /\ fileBar' = [k \in Keys |-> fileBar'[k]]
  BY DEF fileBar
<1>2. /\ settledBar = [k \in Keys |-> settledBar[k]]
      /\ settledBar' = [k \in Keys |-> settledBar'[k]]
  BY DEF settledBar
<1>3. /\ seenBar = [w \in Workers |-> seenBar[w]]
      /\ seenBar' = [w \in Workers |-> seenBar'[w]]
  BY DEF seenBar
<1> QED BY <1>1, <1>2, <1>3

(* A step that changes the file of one key only updates the mapping there. *)
LEMMA FilesUpdated ==
    ASSUME NEW k \in Keys,
           \A l \in Keys \ {k} :
               settledBar'[l] = settledBar[l] /\ fileBar'[l] = fileBar[l]
    PROVE  /\ fileBar' = [fileBar EXCEPT ![k] = fileBar'[k]]
           /\ settledBar' = [settledBar EXCEPT ![k] = settledBar'[k]]
  BY BarsAreFunctions

(* The mapping looks at the rows, the requests and the answers only.       *)
LEMMA SameTableSameFiles ==
    ASSUME UNCHANGED <<fileBlock, pc, req, reply>>
    PROVE  UNCHANGED FS!fsVars
<1>1. ASSUME NEW k \in Keys
      PROVE  settledBar'[k] = settledBar[k] /\ fileBar'[k] = fileBar[k]
  <2>1. Inserting(k)' = Inserting(k)
    BY DEF Inserting, Key
  <2> QED BY <2>1 DEF fileBar, settledBar
<1>2. UNCHANGED <<fileBar, settledBar>>
  BY <1>1, BarsAreFunctions
<1>3. UNCHANGED seenBar
  BY DEF seenBar
<1> QED BY <1>2, <1>3 DEF FS!fsVars

(* A step of a worker that inserts rows neither before nor after it leaves *)
(* the files alone whose rows stay.                                        *)
LEMMA FileKept ==
    ASSUME NEW w \in Workers, NEW k \in Keys,
           \A x \in Workers \ {w} : pc'[x] = pc[x] /\ req'[x] = req[x],
           ~(pc[w] = "insert" /\ Key(req[w]) = k),
           ~(pc'[w] = "insert" /\ Key(req'[w]) = k),
           fileBlock'[k] = fileBlock[k]
    PROVE  settledBar'[k] = settledBar[k] /\ fileBar'[k] = fileBar[k]
<1>1. Inserting(k)' = Inserting(k)
  BY DEF Inserting, Key
<1>2. ASSUME Inserting(k) # {}
      PROVE  /\ (CHOOSE x \in Inserting(k) : TRUE) \in Workers \ {w}
  <2>1. (CHOOSE x \in Inserting(k) : TRUE) \in Inserting(k)
    BY <1>2
  <2> QED BY <2>1 DEF Inserting
<1> QED BY <1>1, <1>2 DEF settledBar, fileBar

(* Such a step that writes no row leaves all files alone.                  *)
LEMMA FilesKept ==
    ASSUME NEW w \in Workers,
           \A x \in Workers \ {w} : pc'[x] = pc[x] /\ req'[x] = req[x],
           pc[w] # "insert", pc'[w] # "insert", UNCHANGED fileBlock
    PROVE  UNCHANGED <<fileBar, settledBar>>
<1>1. \A k \in Keys : settledBar'[k] = settledBar[k] /\ fileBar'[k] = fileBar[k]
  BY FileKept
<1> QED BY <1>1, BarsAreFunctions

-----------------------------------------------------------------------------
(* The mapping of answers                                                  *)

(* An answer of w that is not a successful one of block_list shows no file.*)
LEMMA NothingSeen ==
    ASSUME NEW w \in Workers,
           \A x \in Workers \ {w} :
               pc'[x] = pc[x] /\ req'[x] = req[x] /\ reply'[x] = reply[x],
           ~(pc'[w] = "done" /\ req'[w].op = "block_list" /\ reply'[w].status = 200)
    PROVE  /\ seenBar' = [seenBar EXCEPT ![w] = NoReply]
           /\ pc[w] # "done" => UNCHANGED seenBar
<1>1. \A x \in Workers \ {w} : seenBar'[x] = seenBar[x]
  BY DEF seenBar
<1>2. seenBar'[w] = NoReply
  BY DEF seenBar
<1>3. pc[w] # "done" => seenBar[w] = NoReply
  BY DEF seenBar
<1> QED BY <1>1, <1>2, <1>3, BarsAreFunctions

(* An answer of block_list shows the file it names.                        *)
LEMMA FileSeen ==
    ASSUME NEW w \in Workers,
           \A x \in Workers \ {w} :
               pc'[x] = pc[x] /\ req'[x] = req[x] /\ reply'[x] = reply[x],
           NEW b, NEW v, reply'[w] = ListReply(b, v),
           pc'[w] = "done", req'[w].op = "block_list"
    PROVE  seenBar' = [seenBar EXCEPT ![w] = [version |-> v, blocks |-> b]]
<1>1. /\ reply'[w].status = 200
      /\ reply'[w].version = v
      /\ reply'[w].blocks = b
  BY DEF ListReply
<1>2. \A x \in Workers \ {w} : seenBar'[x] = seenBar[x]
  BY DEF seenBar
<1>3. seenBar'[w] = [version |-> v, blocks |-> b]
  BY <1>1 DEF seenBar
<1> QED BY <1>2, <1>3, BarsAreFunctions
-----------------------------------------------------------------------------
(* The steps                                                               *)

(* An answer that neither ends the INSERTs of a commit nor shows a file    *)
(* changes nothing of the register.                                        *)
LEMMA AnswerStutters ==
    ASSUME MetaInv, NEW w \in Workers, NEW r, pc[w] \notin {"insert", "done"},
           Answer(w, r), UNCHANGED <<fileBlock, req>>,
           req[w].op # "block_list" \/ r.status # 200
    PROVE  UNCHANGED FS!fsVars
<1>1. \A x \in Workers \ {w} :
          pc'[x] = pc[x] /\ req'[x] = req[x] /\ reply'[x] = reply[x]
  BY DEF Answer, MetaInv, MetaTypeOK
<1>2. pc'[w] = "done" /\ reply'[w] = r /\ req'[w] = req[w]
  BY DEF Answer, MetaInv, MetaTypeOK
<1>3. UNCHANGED <<fileBar, settledBar>>
  BY <1>1, <1>2, FilesKept
<1>4. UNCHANGED seenBar
  BY <1>1, <1>2, NothingSeen
<1> QED BY <1>3, <1>4 DEF FS!fsVars

(* Taking a request changes nothing of the register.                       *)
LEMMA TakeStutters ==
    ASSUME MetaInv, NEW w \in Workers, NEW r \in Requests,
           Accept(w, r) \/ Reject(w, r)
    PROVE  UNCHANGED FS!fsVars
<1>1. pc[w] = "idle" /\ UNCHANGED fileBlock
  BY DEF Accept, Reject, MayServe
<1>2. \A x \in Workers \ {w} :
          pc'[x] = pc[x] /\ req'[x] = req[x] /\ reply'[x] = reply[x]
  BY DEF Accept, Reject, Answer, MetaInv, MetaTypeOK
<1>3. /\ pc'[w] # "insert"
      /\ ~(pc'[w] = "done" /\ req'[w].op = "block_list" /\ reply'[w].status = 200)
  <2>1. CASE Accept(w, r)
    BY <2>1, StatementOfRequest DEF Accept, MetaInv, MetaTypeOK
  <2>2. CASE Reject(w, r)
    BY <2>2 DEF Reject, Answer, MetaInv, MetaTypeOK
  <2> QED BY <2>1, <2>2
<1>4. UNCHANGED <<fileBar, settledBar>>
  BY <1>1, <1>2, <1>3, FilesKept
<1>5. UNCHANGED seenBar
  BY <1>1, <1>2, <1>3, NothingSeen
<1> QED BY <1>4, <1>5 DEF FS!fsVars

(* A step inside a handler that answers nothing shows nothing.             *)
LEMMA NoAnswerNothingSeen ==
    ASSUME MetaInv, NEW w \in Workers, NEW p, p # "done", pc[w] # "done",
           pc' = [pc EXCEPT ![w] = p], UNCHANGED <<req, reply>>
    PROVE  UNCHANGED seenBar
  BY NothingSeen DEF MetaInv, MetaTypeOK

(* The DELETE of updateFileData is the commit.                             *)
LEMMA DeleteCommits ==
    ASSUME MetaInv, SerialInv, SerialInv', NEW w \in Workers, DeleteOldRows(w)
    PROVE  FS!Commit(Key(req[w]), req[w].version, req[w].hashes)
<1> DEFINE k == Key(req[w])
           rows == fileBlock[k]
<1>1. pc[w] = "delete" /\ req[w] \in CommitRequests /\ k \in Keys /\ rows \in Seq(Row)
  BY DEF DeleteOldRows, MetaInv, MetaTypeOK, WorkerOK, CommitRequests, Key
<1>2. pc' = [pc EXCEPT ![w] = "insert"] /\ UNCHANGED <<req, reply>>
  BY DEF DeleteOldRows
<1>3. settledBar[k] /\ fileBar[k] = FileOfRows(rows)
  <2>1. \A x \in Workers : ~(pc[x] = "insert" /\ Key(req[x]) = k)
    BY <1>1, KeysApart DEF SerialInv
  <2> QED BY <1>1, <2>1, FileAtRest
<1>4. IF fileBar[k] = FS!Absent THEN req[w].version = 0
      ELSE req[w].version > fileBar[k].version
  <2>1. CASE rows = <<>>
    <3>1. req[w].version = 0
      BY <1>1, <2>1 DEF SerialInv, CommitOK
    <3> QED BY <1>3, <2>1, <3>1, AbsentFile
  <2>2. CASE rows # <<>>
    <3>1. 1 \in DOMAIN rows
      BY <1>1, <2>2
    <3>2. rows[1].version < req[w].version
      BY <1>1, <3>1 DEF SerialInv, CommitOK
    <3>3. fileBar[k] # FS!Absent /\ fileBar[k].version = rows[1].version
      BY <1>1, <1>3, <2>2, AbsentFile
    <3>4. rows[1].version \in Nat
      <4>1. rows[1] \in Row
        BY <1>1, <3>1
      <4> QED BY <4>1 DEF Row
    <3>5. req[w].version \in Nat
      BY <1>1, VersionsAssumption DEF CommitRequests
    <3> QED BY <3>2, <3>3, <3>4, <3>5
  <2> QED BY <2>1, <2>2
<1>5. pc'[w] = "insert" /\ \A x \in Workers \ {w} : pc'[x] = pc[x] /\ req'[x] = req[x]
  BY <1>2 DEF MetaInv, MetaTypeOK
<1>6. ~settledBar'[k] /\ fileBar'[k] = FS!Stored(req[w].version, req[w].hashes)
  BY <1>1, <1>2, <1>5, NextFileWhileInserting, RequestIsStored DEF SerialInv
<1>7. \A l \in Keys \ {k} : settledBar'[l] = settledBar[l] /\ fileBar'[l] = fileBar[l]
  <2> SUFFICES ASSUME NEW l \in Keys \ {k}
               PROVE  settledBar'[l] = settledBar[l] /\ fileBar'[l] = fileBar[l]
    OBVIOUS
  <2>1. fileBlock'[l] = fileBlock[l]
    BY <1>1 DEF DeleteOldRows, MetaInv, MetaTypeOK
  <2> QED BY <1>1, <1>2, <1>5, <2>1, FileKept
<1>8. UNCHANGED seenBar
  BY <1>1, <1>2, NoAnswerNothingSeen
<1>9. settledBar'[k] = FALSE
  <2>1. settledBar'[k] \in BOOLEAN
    BY <1>1 DEF settledBar
  <2> QED BY <1>6, <2>1
<1> HIDE DEF k, rows
<1>10. /\ fileBar' = [fileBar EXCEPT ![k] = FS!Stored(req[w].version, req[w].hashes)]
       /\ settledBar' = [settledBar EXCEPT ![k] = FALSE]
  BY <1>1, <1>6, <1>7, <1>9, FilesUpdated
<1>11. FS!Commit(k, req[w].version, req[w].hashes)
  BY <1>3, <1>4, <1>8, <1>10 DEF FS!Commit
<1> QED BY <1>11 DEF k
(* The end of the INSERTs, wherever it comes, settles the file: whole when *)
(* all rows are in, cut after the rows that are in when a statement failed *)
(* or the process died.                                                    *)
LEMMA AnswerSettles ==
    ASSUME MetaInv, SerialInv, NEW w \in Workers, NEW r, pc[w] = "insert",
           Answer(w, r), UNCHANGED <<fileBlock, req>>,
           i[w] < Len(req[w].hashes) => Faults # {}
    PROVE  /\ FS!Settle(Key(req[w]), i[w])
           /\ i[w] \in 0 .. Len(fileBar[Key(req[w])].blocks)
<1> DEFINE k == Key(req[w])
           n == i[w]
<1>1. /\ req[w] \in CommitRequests /\ k \in Keys
      /\ n \in 0 .. Len(req[w].hashes)
  <2>1. req[w] \in CommitRequests /\ n \in Nat /\ n <= Len(req[w].hashes)
    BY DEF MetaInv, MetaTypeOK, WorkerOK
  <2> QED BY <2>1, HashesTyped DEF CommitRequests, Key
<1>2. /\ pc'[w] = "done" /\ req'[w].op = "file_commit"
      /\ \A x \in Workers \ {w} :
            pc'[x] = pc[x] /\ req'[x] = req[x] /\ reply'[x] = reply[x]
  BY <1>1 DEF Answer, MetaInv, MetaTypeOK, CommitRequests
<1>3. ~settledBar[k] /\ fileBar[k] = FileOfRequest(req[w])
  BY <1>1, FileWhileInserting DEF SerialInv
<1>4. fileBlock[k] = RowsOf(req[w], n)
  BY DEF SerialInv, CommitOK
<1>5. settledBar'[k] /\ fileBar'[k] = FileOfRows(RowsOf(req[w], n))
  <2>1. \A x \in Workers : ~(pc'[x] = "insert" /\ Key(req'[x]) = k)
    BY <1>2, KeysApart DEF SerialInv
  <2> QED BY <1>1, <1>4, <2>1, NextFileAtRest
<1>6. \A l \in Keys \ {k} : settledBar'[l] = settledBar[l] /\ fileBar'[l] = fileBar[l]
  BY <1>2, FileKept
<1>7. UNCHANGED seenBar
  BY <1>2, NothingSeen
<1>8. settledBar'[k] = TRUE
  <2>1. settledBar'[k] \in BOOLEAN
    BY <1>1 DEF settledBar
  <2> QED BY <1>5, <2>1
<1>9. fileBar[k].blocks = req[w].hashes
  BY <1>1, <1>3, RequestIsStored
<1>10. fileBar'[k] = FS!Stored(fileBar[k].version, SubSeq(fileBar[k].blocks, 1, n))
  BY <1>1, <1>3, <1>5, <1>9, RowsArePrefix
<1> HIDE DEF k, n
<1>11. /\ fileBar' = [fileBar EXCEPT ![k] =
              FS!Stored(fileBar[k].version, SubSeq(fileBar[k].blocks, 1, n))]
       /\ settledBar' = [settledBar EXCEPT ![k] = TRUE]
  BY <1>1, <1>6, <1>8, <1>10, FilesUpdated
<1>12. n < Len(fileBar[k].blocks) => Faults # {}
  BY <1>9 DEF n
<1>13. FS!Settle(k, n)
  BY <1>3, <1>7, <1>11, <1>12 DEF FS!Settle
<1> QED BY <1>1, <1>9, <1>13 DEF k, n

(* Between two INSERTs nothing of the register changes: the file already   *)
(* is the whole list.                                                      *)
LEMMA InsertStutters ==
    ASSUME MetaInv, SerialInv, SerialInv', NEW w \in Workers, InsertRow(w)
    PROVE  UNCHANGED FS!fsVars
<1> DEFINE k == Key(req[w])
<1>1. pc[w] = "insert" /\ req[w] \in CommitRequests /\ k \in Keys
  BY DEF InsertRow, MetaInv, WorkerOK, CommitRequests, Key
<1>2. UNCHANGED <<pc, req, reply>>
  BY DEF InsertRow
<1>3. settledBar'[k] = settledBar[k] /\ fileBar'[k] = fileBar[k]
  <2>1. settledBar[k] \in BOOLEAN /\ settledBar'[k] \in BOOLEAN
    BY <1>1 DEF settledBar
  <2>2. ~settledBar[k] /\ fileBar[k] = FileOfRequest(req[w])
    BY <1>1, FileWhileInserting DEF SerialInv
  <2>3. ~settledBar'[k] /\ fileBar'[k] = FileOfRequest(req[w])
    BY <1>1, <1>2, NextFileWhileInserting DEF SerialInv
  <2> QED BY <2>1, <2>2, <2>3
<1>4. ASSUME NEW l \in Keys \ {k}
      PROVE  settledBar'[l] = settledBar[l] /\ fileBar'[l] = fileBar[l]
  <2>1. fileBlock'[l] = fileBlock[l]
    BY DEF InsertRow, MetaInv, MetaTypeOK
  <2> QED BY <1>2, <2>1, FileKept
<1>5. UNCHANGED <<fileBar, settledBar>>
  BY <1>3, <1>4, BarsAreFunctions
<1>6. UNCHANGED seenBar
  BY <1>2 DEF seenBar
<1> QED BY <1>5, <1>6 DEF FS!fsVars

(* file_delete removes the file, and no commit of it is under way.         *)
LEMMA RemoveDeletes ==
    ASSUME MetaInv, SerialInv, NEW w \in Workers, RemoveFile(w) \/ DiesAfterRemove(w)
    PROVE  Key(req[w]) \in Keys /\ FS!Delete(Key(req[w]))
<1> DEFINE k == Key(req[w])
<1>1. pc[w] = "remove" /\ req[w].op = "file_delete" /\ k \in Keys
  BY DEF RemoveFile, DiesAfterRemove, MetaInv, WorkerOK, FileRequests, Key
<1>2. /\ pc'[w] = "done" /\ req'[w] = req[w]
      /\ \A x \in Workers \ {w} :
            pc'[x] = pc[x] /\ req'[x] = req[x] /\ reply'[x] = reply[x]
  BY DEF RemoveFile, DiesAfterRemove, Answer, MetaInv, MetaTypeOK
<1>3. \A x \in Workers : /\ ~(pc[x] = "insert" /\ Key(req[x]) = k)
                         /\ ~(pc'[x] = "insert" /\ Key(req'[x]) = k)
  BY <1>1, <1>2, KeysApart DEF SerialInv
<1>4. settledBar[k] /\ settledBar'[k] /\ fileBar'[k] = FS!Absent
  <2>1. fileBlock'[k] = <<>>
    BY <1>1 DEF RemoveFile, DiesAfterRemove, MetaInv, MetaTypeOK
  <2> QED BY <1>1, <1>3, <2>1, FileAtRest, NextFileAtRest, AbsentFile
<1>5. ASSUME NEW l \in Keys \ {k}
      PROVE  settledBar'[l] = settledBar[l] /\ fileBar'[l] = fileBar[l]
  <2>1. fileBlock'[l] = fileBlock[l]
    BY DEF RemoveFile, DiesAfterRemove, MetaInv, MetaTypeOK
  <2> QED BY <1>1, <1>2, <2>1, FileKept
<1>6. settledBar'[k] = settledBar[k]
  <2>1. settledBar[k] \in BOOLEAN /\ settledBar'[k] \in BOOLEAN
    BY <1>1 DEF settledBar
  <2> QED BY <1>4, <2>1
<1>7. UNCHANGED seenBar
  BY <1>1, <1>2, NothingSeen
<1> HIDE DEF k
<1>8. fileBar' = [fileBar EXCEPT ![k] = FS!Absent] /\ UNCHANGED settledBar
  <2>1. fileBar' = [fileBar EXCEPT ![k] = FS!Absent]
    BY <1>1, <1>4, <1>5, FilesUpdated
  <2>2. \A l \in Keys : settledBar'[l] = settledBar[l]
    BY <1>5, <1>6
  <2> QED BY <2>1, <2>2, BarsAreFunctions
<1>9. FS!Delete(k)
  BY <1>4, <1>7, <1>8 DEF FS!Delete
<1> QED BY <1>1, <1>9 DEF k

(* block_list shows the whole file, and no commit of it is under way.      *)
LEMMA ListReads ==
    ASSUME MetaInv, SerialInv, NEW w \in Workers, ReadBlockList(w)
    PROVE  Key(req[w]) \in Keys /\ FS!Read(w, Key(req[w]))
<1> DEFINE k == Key(req[w])
           f == FileOfRows(fileBlock[k])
<1>1. pc[w] = "blockList" /\ req[w].op = "block_list" /\ k \in Keys
  BY DEF ReadBlockList, MetaInv, WorkerOK, FileRequests, Key
<1>2. PICK s \in Ordered(fileBlock[k]) : Answer(w, BlockListAnswer(fileBlock[k], s))
  BY DEF ReadBlockList
<1>3. Answer(w, ListReply(f.blocks, f.version))
  BY <1>1, <1>2, AnswerIsFile DEF SerialInv
<1>4. /\ pc'[w] = "done" /\ req'[w] = req[w]
      /\ reply'[w] = ListReply(f.blocks, f.version)
      /\ \A x \in Workers \ {w} :
            pc'[x] = pc[x] /\ req'[x] = req[x] /\ reply'[x] = reply[x]
  BY <1>3 DEF ReadBlockList, Answer, MetaInv, MetaTypeOK
<1>5. settledBar[k] /\ fileBar[k] = f
  <2>1. \A x \in Workers : ~(pc[x] = "insert" /\ Key(req[x]) = k)
    BY <1>1, KeysApart DEF SerialInv
  <2> QED BY <1>1, <2>1, FileAtRest
<1>6. UNCHANGED <<fileBar, settledBar>>
  BY <1>1, <1>4, FilesKept DEF ReadBlockList
<1>7. f = [version |-> f.version, blocks |-> f.blocks]
  BY DEF FileOfRows
<1> HIDE DEF k, f
<1>8. seenBar' = [seenBar EXCEPT ![w] = fileBar[k]]
  BY <1>1, <1>4, <1>5, <1>7, FileSeen
<1>9. seenBar[w] = NoReply
  BY <1>1 DEF seenBar
<1>10. FS!Read(w, k)
  BY <1>5, <1>6, <1>8, <1>9 DEF FS!Read
<1> QED BY <1>1, <1>10 DEF k

(* The answer leaves: the reader forgets what it was shown.                *)
LEMMA RespondForgets ==
    ASSUME MetaInv, NEW w \in Workers, Respond(w)
    PROVE  FS!Forget(w)
<1>1. /\ pc[w] = "done" /\ pc'[w] = "idle" /\ UNCHANGED fileBlock
      /\ \A x \in Workers \ {w} :
            pc'[x] = pc[x] /\ req'[x] = req[x] /\ reply'[x] = reply[x]
  BY DEF Respond, MetaInv, MetaTypeOK
<1>2. UNCHANGED <<fileBar, settledBar>>
  BY <1>1, FilesKept
<1>3. seenBar' = [seenBar EXCEPT ![w] = NoReply]
  BY <1>1, NothingSeen
<1> QED BY <1>2, <1>3 DEF FS!Forget
-----------------------------------------------------------------------------
(* The refinement                                                          *)

(* The empty table is the register without files.                          *)
LEMMA InitImplements == MetaInit => FS!Init
<1> SUFFICES ASSUME MetaInit PROVE FS!Init
  OBVIOUS
<1>1. ASSUME NEW k \in Keys
      PROVE  fileBar[k] = FS!Absent /\ settledBar[k]
  <2>1. \A x \in Workers : pc[x] # "insert"
    BY DEF MetaInit
  <2>2. fileBlock[k] = <<>>
    BY DEF MetaInit
  <2> QED BY <2>1, <2>2, FileAtRest, AbsentFile
<1>2. fileBar = [k \in Keys |-> FS!Absent]
  BY <1>1, BarsAreFunctions
<1>3. settledBar = [k \in Keys |-> TRUE]
  BY <1>1 DEF settledBar
<1>4. seenBar = [w \in Workers |-> NoReply]
  BY DEF MetaInit, seenBar
<1> QED BY <1>2, <1>3, <1>4 DEF FS!Init

(* What a worker does for its request is a step of the register or none.   *)
LEMMA WorkImplements ==
    ASSUME MetaInv, SerialInv, SerialInv', NEW w \in Workers, Work(w) \/ Crash(w)
    PROVE  FS!Next \/ UNCHANGED FS!fsVars
<1>1. ASSUME pc[w] \in {"select", "delete", "insert", "query", "fileList", "remove", "recent"}
      PROVE  req[w].op # "block_list"
  BY <1>1 DEF MetaInv, WorkerOK, CommitRequests, QueryRequests, ListRequests,
              RecentRequests
<1>2. ASSUME NEW r, pc[w] = "insert", Answer(w, r), UNCHANGED <<fileBlock, req>>,
             i[w] < Len(req[w].hashes) => Faults # {}
      PROVE  FS!Next
  <2>1. Key(req[w]) \in Keys
    BY <1>2 DEF MetaInv, WorkerOK, CommitRequests, Key
  <2> QED BY <1>2, <2>1, AnswerSettles DEF FS!Next
<1>3. CASE VersionAccepted(w)
  <2>1. /\ pc[w] = "select" /\ pc' = [pc EXCEPT ![w] = "delete"]
        /\ UNCHANGED <<fileBlock, req, reply>>
    BY <1>3 DEF VersionAccepted
  <2>2. /\ pc'[w] = "delete"
        /\ \A x \in Workers \ {w} : pc'[x] = pc[x] /\ req'[x] = req[x]
    BY <2>1 DEF MetaInv, MetaTypeOK
  <2>3. UNCHANGED <<fileBar, settledBar>>
    BY <2>1, <2>2, FilesKept
  <2>4. UNCHANGED seenBar
    BY <2>1, NoAnswerNothingSeen
  <2> QED BY <2>3, <2>4 DEF FS!fsVars
<1>4. CASE DeleteOldRows(w)
  <2>1. /\ Key(req[w]) \in Keys
        /\ req[w].version \in Versions /\ req[w].hashes \in BlockLists
    BY <1>4 DEF DeleteOldRows, MetaInv, WorkerOK, CommitRequests, Key
  <2> QED BY <1>4, <2>1, DeleteCommits DEF FS!Next
<1>5. CASE InsertRow(w)
  BY <1>5, InsertStutters
<1>6. CASE CommitDone(w)
  <2>1. ~(i[w] < Len(req[w].hashes))
    <3>1. i[w] \in Nat /\ i[w] = Len(req[w].hashes)
      BY <1>6 DEF CommitDone, MetaInv, MetaTypeOK
    <3> QED BY <3>1
  <2>2. /\ pc[w] = "insert" /\ Answer(w, CommitReply(TRUE))
        /\ UNCHANGED <<fileBlock, req>>
    BY <1>6 DEF CommitDone
  <2> QED BY <1>2, <2>1, <2>2
<1>7. CASE VersionRefused(w) \/ QueryDone(w) \/ FreeUninitialised(w) \/ QueryFails(w)
           \/ ReadFileList(w) \/ ReadRecentHashes(w)
  <2>1. PICK r : Answer(w, r)
    BY <1>7 DEF VersionRefused, QueryDone, FreeUninitialised, QueryFails,
                ReadFileList, ReadRecentHashes
  <2>2. pc[w] \in {"select", "query", "fileList", "recent"} /\ UNCHANGED <<fileBlock, req>>
    BY <1>7 DEF VersionRefused, QueryDone, FreeUninitialised, QueryFails,
                ReadFileList, ReadRecentHashes
  <2> QED BY <1>1, <2>1, <2>2, AnswerStutters
<1>8. CASE CommitFails(w)
  <2>1. Answer(w, CommitReply(FALSE)) /\ UNCHANGED <<fileBlock, req>> /\ Faults # {}
    BY <1>8 DEF CommitFails
  <2>2. CASE pc[w] = "insert"
    BY <1>2, <2>1, <2>2
  <2>3. CASE pc[w] \in {"select", "delete"}
    BY <1>1, <2>1, <2>3, AnswerStutters
  <2> QED BY <1>8, <2>2, <2>3 DEF CommitFails
<1>9. CASE QueryHash(w)
  <2>1. pc[w] = "query" /\ UNCHANGED <<fileBlock, pc, req, reply>>
    BY <1>9 DEF QueryHash
  <2> QED BY <2>1, SameTableSameFiles
<1>10. CASE ReadBlockList(w)
  BY <1>10, ListReads DEF FS!Next
<1>11. CASE RemoveFile(w) \/ DiesAfterRemove(w)
  BY <1>11, RemoveDeletes DEF FS!Next
<1>12. CASE RequestFails(w)
  <2>1. /\ pc[w] \in {"select", "blockList", "fileList", "remove", "recent"}
        /\ Answer(w, ErrorReply) /\ UNCHANGED <<fileBlock, req>>
    BY <1>12 DEF RequestFails
  <2> QED BY <2>1, ReplyStatus, AnswerStutters
<1>13. CASE DiesBetween(w)
  <2>1. /\ pc[w] \notin {"idle", "done"} /\ Faults # {}
        /\ Answer(w, CrashReply) /\ UNCHANGED <<fileBlock, req>>
    BY <1>13 DEF DiesBetween
  <2>2. CASE pc[w] = "insert"
    BY <1>2, <2>1, <2>2
  <2>3. CASE pc[w] # "insert"
    BY <2>1, <2>3, ReplyStatus, AnswerStutters
  <2> QED BY <2>2, <2>3
<1> QED
  BY <1>3, <1>4, <1>5, <1>6, <1>7, <1>8, <1>9, <1>10, <1>11, <1>12, <1>13
  DEF Work, Serve, StatementFails, Crash

(* Every step of the metaserver is a step of the register or none.         *)
LEMMA NextImplements ==
    ASSUME MetaInv, SerialInv, SerialInv', [MetaNext]_metaVars
    PROVE  [FS!Next]_(FS!fsVars)
<1>1. CASE UNCHANGED metaVars
  BY <1>1, SameTableSameFiles DEF metaVars
<1>2. CASE MetaNext
  <2>1. PICK w \in Workers : \/ \E r \in Requests : Accept(w, r) \/ Reject(w, r)
                             \/ Work(w) \/ Crash(w) \/ Respond(w)
    BY <1>2 DEF MetaNext
  <2>2. CASE \E r \in Requests : Accept(w, r) \/ Reject(w, r)
    BY <2>2, TakeStutters
  <2>3. CASE Work(w) \/ Crash(w)
    BY <2>3, WorkImplements
  <2>4. CASE Respond(w)
    BY <2>4, RespondForgets DEF FS!Next
  <2> QED BY <2>1, <2>2, <2>3, <2>4
<1> QED BY <1>1, <1>2

(* If a user's requests are served one at a time, the programs and the     *)
(* table FileBlock implement the versioned register: a commit takes effect *)
(* at its DELETE, only over an older version; block_list shows whole files *)
(* only; a commit that a failed statement or a dead process interrupts     *)
(* leaves a prefix of its list, and without failures none does.            *)
THEOREM FileStoreImplemented ==
    ASSUME OneHandlerPerUser
    PROVE  MetaSpec => ImplementsFileStore
<1>1. MetaSpec => [](MetaInv /\ SerialInv)
  BY SerialInvariant
<1>2. MetaInv /\ SerialInv /\ SerialInv' /\ [MetaNext]_metaVars => [FS!Next]_(FS!fsVars)
  BY NextImplements
<1>3. MetaInit => FS!Init
  BY InitImplements
<1> QED BY <1>1, <1>2, <1>3, PTL DEF MetaSpec, ImplementsFileStore, FS!Spec
==============================================================================

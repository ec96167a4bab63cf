-------------------------- MODULE UserCachesProofs --------------------------
(* Theorems about UserCaches, for any number of handlers, users, caches    *)
(* and rows, whatever fails.                                               *)
EXTENDS UserCaches, TLAPS

USE NoReplyAssumption

(* The answers of the handlers are answers.                                *)
LEMMA RepliesTyped ==
    /\ ErrorReply \in Replies
    /\ CrashReply \in Replies
    /\ \A op \in {"add", "remove"}, u \in Users, c \in Caches :
          DoneReply(op, u, c) \in Replies
    /\ \A rows \in SUBSET Row : \A n : CachesReply(rows, n) \in Replies
<1>1. ErrorReply \in Replies /\ CrashReply \in Replies
  BY DEF Replies
<1>2. ASSUME NEW op \in {"add", "remove"}, NEW u \in Users, NEW c \in Caches
      PROVE  DoneReply(op, u, c) \in Replies
  BY DEF Replies, DoneReply
<1>3. ASSUME NEW rows \in SUBSET Row, NEW n PROVE CachesReply(rows, n) \in Replies
  <2>1. {r.cache : r \in rows} \in SUBSET Caches
    BY DEF Row
  <2>2. (Cardinality(rows) = n) \in BOOLEAN
    OBVIOUS
  <2> QED BY <2>1, <2>2 DEF CachesReply, Replies
<1> QED BY <1>1, <1>2, <1>3

(* an answer of the right type keeps the type invariant                    *)
LEMMA AnswerTyped ==
    ASSUME CachesTypeOK, NEW w \in Workers, NEW r \in Replies,
           reply' = [reply EXCEPT ![w] = r],
           userCache' \subseteq Row
    PROVE  CachesTypeOK'
BY DEF CachesTypeOK

(* Every step keeps the types.                                             *)
LEMMA TypeStep ==
    ASSUME CachesTypeOK, [CachesNext]_cacheVars
    PROVE  CachesTypeOK'
<1> USE DEF Answer
<1>1. ASSUME NEW w \in Workers, NEW u \in Users, NEW c \in Caches, AddCache(w, u, c)
      PROVE  CachesTypeOK'
  <2>1. userCache' \subseteq Row
    BY <1>1 DEF AddCache, CachesTypeOK, Row
  <2> QED BY <1>1, <2>1, RepliesTyped, AnswerTyped DEF AddCache
<1>2. ASSUME NEW w \in Workers, NEW u \in Users, NEW c \in Caches,
             RemoveCache(w, u, c)
      PROVE  CachesTypeOK'
  <2>1. userCache' \subseteq Row
    BY <1>2 DEF RemoveCache, CachesTypeOK
  <2> QED BY <1>2, <2>1, RepliesTyped, AnswerTyped DEF RemoveCache
<1>3. ASSUME NEW w \in Workers, NEW u, NEW n \in Limits, GetCaches(w, u, n)
      PROVE  CachesTypeOK'
  <2>1. PICK rows \in FirstRows(u, n) : Answer(w, CachesReply(rows, n))
    BY <1>3 DEF GetCaches
  <2>2. rows \in SUBSET Row
    BY DEF FirstRows, RowsOf, CachesTypeOK
  <2>3. CachesReply(rows, n) \in Replies
    BY <2>2, RepliesTyped
  <2> QED BY <1>3, <2>1, <2>3, AnswerTyped DEF GetCaches, CachesTypeOK
<1>4. ASSUME NEW w \in Workers, NEW n \in Limits,
             NegativeLimit(w, n) \/ Reject(w) \/ StatementFails(w) \/ Crash(w)
      PROVE  CachesTypeOK'
  <2>1. \E r \in Replies : reply' = [reply EXCEPT ![w] = r]
    BY <1>4, RepliesTyped DEF NegativeLimit, Reject, StatementFails, Crash
  <2>2. userCache' \subseteq Row
    BY <1>4 DEF NegativeLimit, Reject, StatementFails, Crash, CachesTypeOK
  <2> QED BY <2>1, <2>2, AnswerTyped
<1>5. ASSUME NEW w \in Workers, Reject(w) \/ StatementFails(w) \/ Crash(w)
      PROVE  CachesTypeOK'
  <2>1. \E r \in Replies : reply' = [reply EXCEPT ![w] = r]
    BY <1>5, RepliesTyped DEF Reject, StatementFails, Crash
  <2>2. userCache' \subseteq Row
    BY <1>5 DEF Reject, StatementFails, Crash, CachesTypeOK
  <2> QED BY <2>1, <2>2, AnswerTyped
<1>6. ASSUME NEW w \in Workers, Respond(w) PROVE CachesTypeOK'
  BY <1>6 DEF Respond, CachesTypeOK
<1>7. CASE UNCHANGED cacheVars
  BY <1>7 DEF cacheVars, CachesTypeOK
<1> QED BY <1>1, <1>2, <1>3, <1>4, <1>5, <1>6, <1>7 DEF CachesNext

(* The table and the answers keep their types.                             *)
THEOREM CachesTypeCorrect == CachesSpec => []CachesTypeOK
<1>1. CachesInit => CachesTypeOK
  BY DEF CachesInit, CachesTypeOK
<1> QED BY <1>1, TypeStep, PTL DEF CachesSpec

-----------------------------------------------------------------------------
(* What an answer is to a reader of the directory.                         *)

(* the directory's answer for one answer of a handler                      *)
BarOf(r) ==
    IF r \in {NoReply, ErrorReply, CrashReply} THEN NoReply
    ELSE IF "caches" \in DOMAIN r
         THEN [shown |-> r.caches, cut |-> r.full]
         ELSE [did |-> r.op, user |-> r.user, cache |-> r.cache]

(* The abstract answer of a worker is that of its reply.                   *)
LEMMA BarIsPointwise == answerBar = [w \in Workers |-> BarOf(reply[w])]
BY DEF answerBar, BarOf

(* What each kind of answer stands for.                                    *)
LEMMA BarOfReplies ==
    /\ BarOf(NoReply) = NoReply
    /\ BarOf(ErrorReply) = NoReply
    /\ BarOf(CrashReply) = NoReply
    /\ \A op \in {"add", "remove"}, u \in Users, c \in Caches :
          BarOf(DoneReply(op, u, c)) = [did |-> op, user |-> u, cache |-> c]
    /\ \A rows \in SUBSET Row : \A n :
          BarOf(CachesReply(rows, n)) =
              [shown |-> {r.cache : r \in rows}, cut |-> Cardinality(rows) = n]
<1>1. /\ BarOf(NoReply) = NoReply
      /\ BarOf(ErrorReply) = NoReply
      /\ BarOf(CrashReply) = NoReply
  BY DEF BarOf
<1>2. ASSUME NEW op \in {"add", "remove"}, NEW u \in Users, NEW c \in Caches
      PROVE  BarOf(DoneReply(op, u, c)) = [did |-> op, user |-> u, cache |-> c]
  <2>1. DoneReply(op, u, c) \notin {NoReply, ErrorReply, CrashReply}
    BY RepliesTyped DEF DoneReply, ErrorReply, CrashReply
  <2> QED BY <2>1 DEF BarOf, DoneReply
<1>3. ASSUME NEW rows \in SUBSET Row, NEW n
      PROVE  BarOf(CachesReply(rows, n)) =
                 [shown |-> {r.cache : r \in rows}, cut |-> Cardinality(rows) = n]
  <2>1. CachesReply(rows, n) \notin {NoReply, ErrorReply, CrashReply}
    <3>1. CachesReply(rows, n).status = 200
      BY DEF CachesReply
    <3>2. ErrorReply.status = 400 /\ CrashReply.status = 500
      BY DEF ErrorReply, CrashReply
    <3> QED BY <3>1, <3>2, RepliesTyped
  <2>2. "caches" \in DOMAIN CachesReply(rows, n)
    BY DEF CachesReply
  <2> QED BY <2>1, <2>2 DEF BarOf, CachesReply
<1> QED BY <1>1, <1>2, <1>3

(* a change of one worker's answer changes one reader's                    *)
LEMMA BarOfStep ==
    ASSUME CachesTypeOK, NEW w \in Workers, NEW r \in Replies \cup {NoReply},
           reply' = [reply EXCEPT ![w] = r]
    PROVE  answerBar' = [answerBar EXCEPT ![w] = BarOf(r)]
<1>1. answerBar' = [x \in Workers |-> BarOf(reply'[x])]
  BY DEF answerBar, BarOf
<1> QED BY <1>1, BarIsPointwise DEF CachesTypeOK

(* The empty table is the empty relation.                                  *)
LEMMA InitImplements == CachesInit => Dir!Init
BY DEF CachesInit, Dir!Init, associatedBar, answerBar

(* Every step is a step of the directory or a stutter.                     *)
LEMMA NextImplements ==
    ASSUME CachesTypeOK, [CachesNext]_cacheVars
    PROVE  [Dir!Next]_(Dir!dirVars)
<1>1. ASSUME NEW w \in Workers, NEW u \in Users, NEW c \in Caches, AddCache(w, u, c)
      PROVE  Dir!Add(w, u, c)
  <2>1. answerBar[w] = NoReply
    BY <1>1, BarIsPointwise, BarOfReplies DEF AddCache, Answer
  <2>2. answerBar' = [answerBar EXCEPT ![w] = [did |-> "add", user |-> u, cache |-> c]]
    <3>1. answerBar' = [answerBar EXCEPT ![w] = BarOf(DoneReply("add", u, c))]
      BY <1>1, BarOfStep, RepliesTyped DEF AddCache, Answer
    <3> QED BY <3>1, BarOfReplies
  <2>3. associatedBar' = associatedBar \cup {<<u, c>>}
    <3>1. PICK p \in Places :
              userCache' = userCache \cup {[place |-> p, user |-> u, cache |-> c]}
      BY <1>1 DEF AddCache
    <3> DEFINE row == [place |-> p, user |-> u, cache |-> c]
    <3>2. associatedBar' = associatedBar \cup {<<row.user, row.cache>>}
      BY <3>1 DEF associatedBar
    <3> QED BY <3>2
  <2> QED BY <2>1, <2>2, <2>3 DEF Dir!Add, Dir!Tell
<1>2. ASSUME NEW w \in Workers, NEW u \in Users, NEW c \in Caches,
             RemoveCache(w, u, c)
      PROVE  Dir!Remove(w, u, c)
  <2>1. answerBar[w] = NoReply
    BY <1>2, BarIsPointwise, BarOfReplies DEF RemoveCache, Answer
  <2>2. answerBar' = [answerBar EXCEPT ![w] =
                          [did |-> "remove", user |-> u, cache |-> c]]
    <3>1. answerBar' = [answerBar EXCEPT ![w] = BarOf(DoneReply("remove", u, c))]
      BY <1>2, BarOfStep, RepliesTyped DEF RemoveCache, Answer
    <3> QED BY <3>1, BarOfReplies
  <2>3. associatedBar' = associatedBar \ {<<u, c>>}
    BY <1>2 DEF RemoveCache, associatedBar
  <2> QED BY <2>1, <2>2, <2>3 DEF Dir!Remove, Dir!Tell
<1>3. ASSUME NEW w \in Workers, NEW u, NEW n \in Limits, GetCaches(w, u, n)
      PROVE  Dir!List(w, u)
  <2>1. PICK rows \in FirstRows(u, n) : Answer(w, CachesReply(rows, n))
    BY <1>3 DEF GetCaches
  <2>2. rows \in SUBSET Row /\ rows \subseteq RowsOf(u)
    BY DEF FirstRows, RowsOf, CachesTypeOK
  <2> DEFINE shown == {r.cache : r \in rows}
             cut == Cardinality(rows) = n
  <2>3. answerBar[w] = NoReply
    BY <2>1, BarIsPointwise, BarOfReplies DEF Answer
  <2>4. answerBar' = [answerBar EXCEPT ![w] = [shown |-> shown, cut |-> cut]]
    <3>1. answerBar' = [answerBar EXCEPT ![w] = BarOf(CachesReply(rows, n))]
      BY <2>1, <2>2, BarOfStep, RepliesTyped DEF Answer
    <3> QED BY <2>2, <3>1, BarOfReplies
  <2>5. Dir!CachesOf(u) = {r.cache : r \in RowsOf(u)}
    BY DEF Dir!CachesOf, associatedBar, RowsOf, CachesTypeOK, Row
  <2>6. shown \in SUBSET Dir!CachesOf(u)
    BY <2>2, <2>5
  <2>7. ~cut => shown = Dir!CachesOf(u)
    BY <2>5 DEF FirstRows
  <2>8. associatedBar' = associatedBar
    BY <1>3 DEF GetCaches, associatedBar
  <2>9. cut \in BOOLEAN
    OBVIOUS
  <2> HIDE DEF shown, cut
  <2> QED BY <2>3, <2>4, <2>6, <2>7, <2>8, <2>9 DEF Dir!List, Dir!Tell
<1>4. ASSUME NEW w \in Workers, NEW r \in {NoReply, ErrorReply, CrashReply},
             reply' = [reply EXCEPT ![w] = r], UNCHANGED userCache
      PROVE  Dir!Forget(w)
  <2>1. answerBar' = [answerBar EXCEPT ![w] = NoReply]
    <3>1. answerBar' = [answerBar EXCEPT ![w] = BarOf(r)]
      BY <1>4, BarOfStep, RepliesTyped
    <3>2. BarOf(r) = NoReply
      BY BarOfReplies
    <3> QED BY <3>1, <3>2
  <2> QED BY <1>4, <2>1 DEF Dir!Forget, associatedBar
<1>5. ASSUME NEW w \in Workers,
             \/ \E n \in Limits : NegativeLimit(w, n)
             \/ Reject(w) \/ StatementFails(w) \/ Crash(w) \/ Respond(w)
      PROVE  Dir!Forget(w)
  BY <1>4, <1>5 DEF NegativeLimit, Reject, StatementFails, Crash, Respond, Answer
<1>6. CASE UNCHANGED cacheVars
  BY <1>6 DEF cacheVars, Dir!dirVars, associatedBar, answerBar
<1>7. CASE CachesNext
  BY <1>1, <1>2, <1>3, <1>5, <1>7 DEF CachesNext, Dir!Next
<1> QED BY <1>6, <1>7

(* The programs and the table implement the directory: copies of a row     *)
(* count as one association, and only a listing as long as max hides one.  *)
THEOREM DirectoryImplemented == CachesSpec => ImplementsDirectory
<1>1. CachesSpec => []CachesTypeOK
  BY CachesTypeCorrect
<1>2. CachesInit => Dir!Init
  BY InitImplements
<1>3. CachesTypeOK /\ [CachesNext]_cacheVars => [Dir!Next]_(Dir!dirVars)
  BY NextImplements
<1> QED BY <1>1, <1>2, <1>3, PTL DEF CachesSpec, ImplementsDirectory, Dir!Spec
=============================================================================

----------------------------- MODULE UserCaches -----------------------------
(***************************************************************************)
(* The metaserver programs user_cache_add, user_cache_remove and           *)
(* user_caches, and the table UserCache.  A handler executes one SQL       *)
(* statement for a request, and holds its answer until the web server has  *)
(* taken it.  The table has no key: rows are told apart only by the place  *)
(* where they are stored, and a cache can be there several times.          *)
(***************************************************************************)
EXTENDS Integers, FiniteSets

CONSTANTS
    Workers,          \* the handler processes
    Users, Caches,    \* values of the columns user_id and cache_server_ip
    NoUser,           \* the empty user_id of a user_caches request without one
    Limits,           \* values of max; atoi of a missing one is 0
    Places,           \* where rows are stored; bounds the size of the table
    Faults,           \* "db": connect() or the statement fails;
                      \* "crash": a handler process dies
    NoReply           \* the value of reply for an idle worker

ASSUME CachesAssumption ==
    /\ NoUser \notin Users
    /\ Limits \subseteq Int
    /\ Faults \subseteq {"db", "crash"}

VARIABLES
    userCache,  \* the rows of table UserCache
    reply       \* the answer a worker holds

cacheVars == <<userCache, reply>>

Row == [place : Places, user : Users, cache : Caches]

(* Answers.  Every error is a 400; 500 stands for a handler that died.     *)
ErrorReply == [status |-> 400]
CrashReply == [status |-> 500]
(* a 200 without content, with the request it answers                      *)
DoneReply(op, u, c) == [status |-> 200, op |-> op, user |-> u, cache |-> c]
CachesReply(rows, n) ==
    [status |-> 200, caches |-> {r.cache : r \in rows},
     full |-> Cardinality(rows) = n]

Replies ==
    {ErrorReply, CrashReply}
      \cup [status : {200}, op : {"add", "remove"}, user : Users, cache : Caches]
      \cup [status : {200}, caches : SUBSET Caches, full : BOOLEAN]

ASSUME NoReplyAssumption == NoReply \notin Replies

CachesInit ==
    /\ userCache = {}
    /\ reply = [w \in Workers |-> NoReply]

Answer(w, r) ==
    /\ reply[w] = NoReply
    /\ reply' = [reply EXCEPT ![w] = r]

RowsOf(u) == {r \in userCache : r.user = u}

-----------------------------------------------------------------------------
(* mutant of AddCache: the two columns are swapped                         *)
AddSwapped(w, u, c) ==
    /\ \E p \in Places :
          /\ \A r \in userCache : r.place # p
          /\ userCache' = userCache \cup {[place |-> p, user |-> c, cache |-> u]}
    /\ Answer(w, DoneReply("add", u, c))

(* user_cache_add: INSERT, also when the row is there already              *)
AddCache(w, u, c) ==
    /\ \E p \in Places :
          /\ \A r \in userCache : r.place # p
          /\ userCache' = userCache \cup {[place |-> p, user |-> u, cache |-> c]}
    /\ Answer(w, DoneReply("add", u, c))

(* mutant of RemoveCache: DELETE ... LIMIT 1                               *)
RemoveOneRow(w, u, c) ==
    /\ IF \E r \in RowsOf(u) : r.cache = c
       THEN \E r \in RowsOf(u) : r.cache = c /\ userCache' = userCache \ {r}
       ELSE UNCHANGED userCache
    /\ Answer(w, DoneReply("remove", u, c))

(* user_cache_remove: DELETE of all copies                                 *)
RemoveCache(w, u, c) ==
    /\ userCache' = {r \in userCache : r.user # u \/ r.cache # c}
    /\ Answer(w, DoneReply("remove", u, c))

(* SELECT ... LIMIT n without ORDER BY: any n rows, or all if there are    *)
(* fewer                                                                   *)
FirstRows(u, n) ==
    {rows \in SUBSET RowsOf(u) :
        \/ Cardinality(rows) = n
        \/ rows = RowsOf(u) /\ Cardinality(rows) < n}

(* user_caches: only a request that lacks both parameters is malformed     *)
GetCaches(w, u, n) ==
    /\ n >= 0
    /\ \E rows \in FirstRows(u, n) : Answer(w, CachesReply(rows, n))
    /\ UNCHANGED userCache

(* LIMIT with a negative number is an SQL error                            *)
NegativeLimit(w, n) ==
    /\ n < 0
    /\ Answer(w, ErrorReply)
    /\ UNCHANGED userCache

(* malformed input                                                         *)
Reject(w) ==
    /\ Answer(w, ErrorReply)
    /\ UNCHANGED userCache

(* the result of connect is ignored, the statement then fails              *)
StatementFails(w) ==
    /\ "db" \in Faults
    /\ Answer(w, ErrorReply)
    /\ UNCHANGED userCache

(* before the statement, or after it with the answer not yet written       *)
Crash(w) ==
    /\ "crash" \in Faults
    /\ IF reply[w] = NoReply
       THEN Answer(w, CrashReply)
       ELSE reply' = [reply EXCEPT ![w] = CrashReply]
    /\ UNCHANGED userCache

Respond(w) ==
    /\ reply[w] # NoReply
    /\ reply' = [reply EXCEPT ![w] = NoReply]
    /\ UNCHANGED userCache

CachesNext ==
    \E w \in Workers :
        \/ \E u \in Users, c \in Caches : AddCache(w, u, c) \/ RemoveCache(w, u, c)
        \/ \E n \in Limits :
              \/ NegativeLimit(w, n)
              \/ \E u \in Users \cup {NoUser} : GetCaches(w, u, n)
        \/ Reject(w) \/ StatementFails(w) \/ Crash(w) \/ Respond(w)

CachesSpec == CachesInit /\ [][CachesNext]_cacheVars

-----------------------------------------------------------------------------
(* Type invariant of the table and the answers.                            *)
CachesTypeOK ==
    /\ userCache \subseteq Row
    /\ reply \in [Workers -> Replies \cup {NoReply}]

(* The table implements the relation of CacheDirectory: copies of a row    *)
(* stand for one association, and a listing that did not reach max names   *)
(* every cache of the user.                                                *)
associatedBar == {<<r.user, r.cache>> : r \in userCache}

answerBar ==
    [w \in Workers |->
        IF reply[w] \in {NoReply, ErrorReply, CrashReply} THEN NoReply
        ELSE IF "caches" \in DOMAIN reply[w]
             THEN [shown |-> reply[w].caches, cut |-> reply[w].full]
             ELSE [did |-> reply[w].op, user |-> reply[w].user,
                   cache |-> reply[w].cache]]

Dir == INSTANCE CacheDirectory
         WITH Users <- Users \cup {NoUser}, Readers <- Workers,
              NotRead <- NoReply,
              associated <- associatedBar, answer <- answerBar

(* Adding a cache twice and removing it once leaves the user without it,   *)
(* and duplicates, failures and dying handlers show no cache that is not   *)
(* associated, and hide none unless the listing is as long as max.         *)
ImplementsDirectory == Dir!Spec
=============================================================================

# A TLA+ verification of balabox

balabox is a small file synchroniser. A client (`client/sync.py`) cuts each file
into 4 MB blocks named by their SHA-256 hash, stores the blocks on a block
server through a cache server, and records which blocks make up which version
of which file on a metaserver. This directory holds TLA+ modules of its parts,
the TLC configurations that check them on small instances, and proofs of the
main safety properties checked by TLAPS.

## 1. The system

| Component | State | Operations | Talks to |
|---|---|---|---|
| metaserver handlers (`metadata/src/*.cc`) | none between requests | `file_commit`, `block_query`, `block_list`, `file_list`, `file_delete`, `recent_hashes`, `user_cache_add/remove`, `user_caches` | MySQL, one statement at a time |
| tables `FileBlock`, `UserCache` (`create.sql`, `mysql_helper.cc`) | one row per block of a file with its number and version; one row per (user, cache) | SELECT, DELETE, INSERT without transactions | |
| block server (`block_store.cc`, `block_fetch.cc`) | a LevelDB database, opened for each request by one process at a time | store, fetch | |
| cache server (`cache_block_fetch.cpp`, `cache_block_store.cpp`, `leveldb_server.cpp`) | a LevelDB database owned by one server process | fetch (with fill on a miss), forwarded store | block server, prefetcher |
| prefetcher (`prefetch.cpp`) | none | fills the cache with a user's recent hashes | metaserver, block server, cache database |
| client (`sync.py`) | the user's files, `versions.json` | upload, download, delete, chosen from modification times and versions | metaserver, cache server |

Every server program is a pool of FastCGI processes, each serving one request
at a time; requests of different clients, or of a client that was killed and
started again, run at the same time in different processes.

What is hard here, and what would be right:

* *Commits are several statements.* `updateFileData` compares a version, deletes
  rows and inserts rows one by one. Right: rows of a file always are one
  version, an acknowledged commit is stored, versions grow, readers see whole
  files.
* *Blocks and metadata live on different servers.* Right: a committed row names
  only blocks the block server has.
* *Any statement can fail and any process can die between two statements.*
* *The block database has a lock that handlers poll for.* Right: no way out of a
  handler leaves it open; every request is answered, unless a `Put` fails for ever.
* *The cache is filled by several processes*, from answers that may be errors,
  through one server that may die. Right: what is answered with 200 is the
  block; every fetch ends.
* *The client decides from clocks and saved versions*, and may be killed between
  a commit and saving its version. Right: what it takes for in sync is in sync,
  it loses no edit, it never keeps or uploads part of a file, machines come to
  agree, and every run ends. Nothing in the client or on the servers keeps two
  machines of a user, or a killed run and the next one, apart: the first four hold
  only for users who run `sync.py` on one machine at a time.
* *A table without keys stands for a relation between users and caches.* Right:
  copies of a row count as one association.

`PROJECT.json` lists each of these hazards at its line.

## 2. Modules

| Module | Models |
|---|---|
| `FileStore` | abstract: what the metaserver promises, a versioned register per file |
| `Metaserver` | six handlers and the table `FileBlock`, one action per SQL statement |
| `MetaserverProofs` | theorems about `Metaserver` |
| `Upload` | composition of `Metaserver`, the clients' `upFile` and delete path, and the blocks stored |
| `UploadProofs` | theorems about `Upload` |
| `FileStoreProofs` | the refinement of `FileStore` by `Metaserver` |
| `PatientProofs` | the refinement of `Metaserver`, and with waiting clients of `FileStore`, by `Upload` |
| `BlockStore` | abstract: what the block server promises, a set of blocks that grows |
| `BlockServer` | `block_store` and `block_fetch` on the shared database |
| `BlockServerProofs` | theorems about `BlockServer` |
| `CacheServer` | `cache_block_fetch`, `cache_block_store`, the prefetcher and `leveldb_server` on the cache database |
| `CacheServerProofs` | theorems about `CacheServer` |
| `SyncClient` | composition of `Metaserver` and `sync.py` on the machines of one user |
| `SyncClientProofs` | theorems about `SyncClient`, and the refinement of `FileStore` by machines that take turns |
| `CacheDirectory` | abstract: what the metaserver promises about users and caches, a relation |
| `UserCaches` | three handlers and the table `UserCache` |
| `UserCachesProofs` | theorems about `UserCaches` |
| `MCMetaserver`, `MCUpload`, `MCCacheServer`, `MCSyncClient`, `MCUserCaches` | small instances for TLC |

The modules join as follows. `Upload` and `SyncClient` both extend `Metaserver` and run
its handlers statement by statement: `Upload` with the steps of `upFile` and any
versions, `SyncClient` with the decisions of the whole program and `upFile` reduced to
its commit. `Upload` implements `Metaserver` (proved), so what holds of the handlers
holds while its clients run.

`Metaserver` implements the versioned register `FileStore` only while the requests of
a user are served one at a time. A user with one waiting client gives that
(`PatientFileStore`), and so do several machines, also killed ones, that take turns
(`TurnsGiveFileStore`). Several machines of a user at the same time, or a run started
while the commit of a killed one is still being served, do not: the code has
no lock and no transaction, and `meta_lost_update` shows two commits of one version
that are both acknowledged. Above the metaserver this means that with `TakeTurns = FALSE` TLC
finds `InSyncMeansSame`, `NoMangledFile`, `EditsKept` and `Converges` violated, without
any fault: two machines hold different files under one version for ever; a
`block_list` between a DELETE and the last INSERT is downloaded as the file; one
right after the DELETE makes `sync.py` remove an edited file. These four
properties are therefore stated and checked, and all but `Converges` proved, for
machines that take turns.

The blocks of a file come from the other servers. `Upload` shows that a committed
file names stored blocks only; `BlockServer`, which implements `BlockStore`, that a
stored block is fetched; `CacheServer` (with `AskStoredOnly`) that a 200 answer of the
cache server is the block as long as nothing fails. Once requests between the
servers fail this is no longer so: `cache_poisoned` shows a 200 answer with a
truncated block, and `sync.py` does not compare what it fetched with its hash.
`SyncClient` has such answers as the fault `"cache"` (`DownloadPoisoned`); `NoMangledFile`
and what is proved of it are about caches without it.

Operators whose comment begins with "mutant of" are not part of any
specification: each is a plausible bug in the definition it names, kept to show
that a property notices it.

### Metaserver

`fileBlock[<<user, file>>]` is the sequence of rows of a file in insertion order.
A worker is a handler process: `pc` names its next SQL statement, `i` is the loop
index of `updateFileData` and `getMissingBlockHashes`, `missing` the vector
`missingHashes`, `reply` the answer written. An action is one statement with the
C++ code up to the next one. The version check looks at "the first row" of a
SELECT without ORDER BY, hence at any row (`Fresh`, `Stale`); `ORDER BY
block_number` lets rows of equal number come in any order (`Ordered`); the
version in a `block_list` answer is that of the last row fetched.
`docs/metadata_api.md` asks for a version exactly one greater than the stored
one; the code, and so the model, accepts any greater one.
`mysql_free_result` on the uninitialised pointer of an empty list is a choice
between going on and dying (`QueryDone`, `FreeUninitialised`). `recent_hashes`
orders a user's rows by block number and then by a time in seconds: rows of equal
number come in any order (`RecentRows`), and `LIMIT` leaves the first of them.

The constant `Faults` switches failing statements and connections (`"db"`) and
dying processes (`"crash"`) on; `OneHandlerPerUser` restricts the environment to
a user who runs one `sync.py` that waits for its answers, which is what a single
client does. Without it any requests overlap. A process may die between two
statements (`DiesBetween`) or after the DELETE of `file_delete` and before its
answer (`DiesAfterRemove`). `PatientSpec` of `Upload` has such
clients and does without the constant.

Abstractions: a request is either well formed or "malformed" (empty body, bad
JSON, missing parameter: 400); a failing `connect` is merged with the failure of
the first statement; the text of answers is reduced to the fields clients read.
The request body is copied from a buffer without a terminating zero: the JSON
reader ignores what follows the value, so the outcomes are the normal one and
the death of the process, which `Crash` has. A missing CONTENT_LENGTH (a null
pointer given to `std::string`) is such a death too. A process that dies is
answered with 500 by the web server and replaced.

### Upload

A client is a running `sync.py` at some place of `upFile` (`cpc`), with the file
it uploads (`up`), the blocks still to send (`needed`) and the worker that
serves its outstanding request (`server`). It asks `block_query`, stores each
needed block, commits, or deletes a file. It can be killed anywhere: the worker
continues, the answer is dropped. `block_query` counts rows of all users, so a
client skips blocks that anybody's commit names. The block server is reduced to
the set of hashes it stores; a store may fail with or without having stored.
Version numbers and block lists are arbitrary members of the constants, which
contains what the client's decision loop would choose. A store of a block waits
for its answer in one step.

### SyncClient

A machine has a directory (`local`, the block list of each file), the versions
in `versions.json` (`saved`), for each file whether its modification time is
later than the time recorded there (`newer`), and whether a kill left
`versions.json` truncated (`torn`). A running `sync.py` is at `cpc` in one of three
parts of the program (`loop`): the loop over local files, the loop over the files
`file_list` answered, or `--download`. `todo` are the files not visited yet, `job`
the one visited. `server` is the worker of `Metaserver` that serves the machine's
request. `unsynced` is a history variable: an edit whose content no complete
commit has held.

For each file the program asks `block_list` and decides (`DecideUpload`,
`DecideDownload`, `AlreadyInSync`, `RemoveLocal`, `NothingThere`, `DecideRaises`), then
uploads (`Split`, `SendCommit`, `CommitAnswered` or `UploadFails`), downloads or
deletes, and records the version (`Save`, `ForgetVersion`). A request is taken by an
idle handler (`SendTo`), which executes its statements on its own (`WorkerStep`);
the client goes on with the answer (`Answered`) or with an error (`RequestFailed`): one that the
handler gave, one of a web server that found no handler (`"http"`), or one of a web
server that gave up while the handler goes on (`"timeout"`). A killed `sync.py` leaves
its request to the handler, which executes it whenever it does, and the answer is
dropped (`Dies`, `DropReply`).

Exceptions of the Python code are ways out: a null block list given to
`downFile`, a file that is gone when `os.stat` asks for it, the names `fi` and
`meta_version` that the `--download` branch uses and nobody defines, and a truncated
`versions.json`, which ends every run until the user removes the file. `cat` writes
over the local file in place (`PowerLoss`), but runs to its end when only `sync.py`
dies.

`ClientFaults` switches failing requests (`"http"`, `"timeout"`), kills, power failures
and wrong answers of the cache on, `Faults` those of the metaserver; `MayRemove` and
`EditWhileRunning` say what users do. `TakeTurns` restricts users to starting `sync.py`
when no run, and no request that an earlier run left behind, is still going on:
nothing in the code enforces it. `MaxEvents` bounds edits, removals and faults in a
behaviour, not runs of `sync.py`. The requests of `block_query` and `block_store` that
precede a commit change no state here; they reach the commit or fail (`UploadFails`).
Modification times have a resolution of one second; the model lets a second
pass between a sync and the next edit. Paths, subdirectories and the temporary
block directory are left out.

### UserCaches

The table has no key, so a row is told apart only by where it is stored
(`place`); `Places` bounds the table. A handler executes one statement and holds
the answer (`reply`) until it is taken; a process may die before or after its
statement. `user_caches` rejects a request only if both parameters are missing:
an absent `max` is `atoi("")`, 0, an absent user matches no row (`NoUser`). `LIMIT`
without `ORDER BY` leaves any rows. A 200 answer for a user without caches is an
empty list, where `docs/metadata_api.md` has "400: No entry for user".

### BlockServer

`lock` is the process that has the LevelDB database open, `exists` whether it
was ever created (only `block_store` sets `create_if_missing`). Opening fails
while another process has it, and `block_fetch` also fails while it does not
exist; a failing attempt is repeated after a second, which is a stuttering step.
A failing `Put` is repeated too, with the database open, and on a full disk for
ever, since LevelDB keeps refusing writes after an error: `Put` is the attempt that
succeeds, and nothing makes it happen. All ways out of a handler close the database; a process
that dies loses its file lock. Block contents are not represented. `block_fetch`
answers every error of `Get` as a missing key: `Unreadable` are the blocks whose
reading may fail.
`MaxRequests` bounds the requests taken in a behaviour.

### CacheServer

`db` is what the cache database holds under each hash: its block, an error page,
nothing, a block whose end is missing, or (`NoValue`) no entry. A handler of
`cache_block_fetch` (`pc`) asks whether the hash exists, then either gets it by a
second message or fetches it from the block server and puts the response; last
it sends the prefetcher a message. The prefetcher (`ppc`) takes one message at a
time, looks up recent hashes, leaves out those in the cache (`retrieve` is
`hashesToRetrieve`) and puts those the block server answers with 200. `files`
counts the sockets it accepts and never closes; at `MaxFiles` accept fails and
it exits. `queue` counts the connections waiting for it, at most `Backlog`.

A message to `leveldb_server` and its answer are one step, as it serves one
connection at a time and reads a message before it acts on it
(`GetMessage`, `PutMessage`). What the two ends see of each other's death is in
these steps: a receiver whose peer is gone takes the zeroed rest of its buffer
for data, and `LevelDBHelper` counts every answer but "Operation failed" as
success; `leveldb_server` takes a message cut short for whole, and is killed by
SIGPIPE when it answers a closed socket (`CutShort`). Nobody can connect to a
dead `leveldb_server`: handlers and prefetcher exit (`Unreachable`,
`PrefetcherExits`). A handler that exits or dies once its answer is in the output
stream may have sent all of it, a part or nothing (`AnswerCut`).

Abstractions: the block server is the set of hashes it stores, and
`recent_hashes` answers any list of the constant `RecentLists`; a failed request
leaves the status line empty, which the web server turns into a 500; a missing
`hash` parameter is an empty hash and behaves like any hash the block server does
not have; a message for a prefetcher whose queue is full is given up. A message
to the prefetcher always parses: it is shorter than its buffer. A store that
`cache_block_store` cannot forward changes nothing here and is `StoreFails` of `Upload`. `AskStoredOnly`
restricts clients to blocks the block server has, which is what a client that
downloads committed files asks for (`CommittedBlocksStored`). `Faults` switches
failing requests to other servers (`"http"`), failing LevelDB operations
(`"disk"`), the death of `leveldb_server` (`"server"`) and of handlers and
prefetcher (`"crash"`) on. Starting dead servers again is left to the operator
(`StartAgain`, external).

## 3. Runs

| Run | Instance | Shows |
|---|---|---|
| `meta_serial` | 2 workers, 2 users, 1 file, lists of 0-2 blocks, versions 0-1, `max_hashes` 1, all faults, a user's requests one by one | `MetaTypeOK`, `RowsFormOneFile`, `AckedCommitIsStored`, `FirstBlocksFirst`, `UpdateOnlyOverOlderVersion`, `ImplementsFileStore` (the refinement), `EveryRequestAnswered` |
| `upload` | 2 workers, 2 clients of one user, 1 file of 2 blocks, dying handlers and clients | `CommittedBlocksStored`, `QueryNamesEveryMissingBlock`, `UploadEnds` |
| `block_server` | 3 handlers, 2 hashes, one of them unreadable at times, 4 requests, deaths | `BlockTypeOK`, `OpenExactlyWhileUsed`, `AnsweredStoreIsStored`, `AnsweredOnceDbExists`, `ImplementsBlockStore` (the refinement) |
| `cache_server` | 2 handlers, 2 hashes, recent lists `<<>>` and `<<h1, h2>>`, 2 sockets, no faults, stored blocks asked for | `CacheTypeOK`, `ServedBlockIsTheBlock`, `ServedBlockIsCached`, `ExistsMeansCached` |
| `cache_liveness` | 2 handlers, 1 hash, 1 socket, any fetch, all faults | `FetchEnds`, `PrefetcherReturns` |
| `sync` | 2 machines that take turns, 2 workers, 1 file, contents `<<h2>>` and `<<h1, h2>>`, 5 edits and faults, failing requests and kills, no failures on the server | `SyncTypeOK`, `InSyncMeansSame`, `NoMangledFile`, `EditsKept`, `Converges` |
| `sync_liveness` | 2 machines at any time, 1 worker, 1 file, an empty and a two-block content, 3 events, everything allowed | `SyncEnds` |
| `user_caches` | 2 handlers, 2 users, 2 caches, 3 rows, `max` -1, 0 and 2, all faults | `CachesTypeOK`, `ImplementsDirectory` |

Four runs show a disagreement between the code and what its documentation and
comments say:

| Run | Counterexample |
|---|---|
| `meta_lost_update` | two overlapping commits pass the same version check; the second one deletes what the first wrote |
| `upload_masked_error` | a SELECT of `block_query` fails; the answer is 200 and names no missing block |
| `cache_poisoned` | a request to the block server fails; its empty or truncated response is cached, and the next fetch answers it with 200 |
| `sync_edit_lost` | the commit of an edited file fails after its DELETE; the next run is answered a null block list and removes the edited file |

The last one follows from another disagreement: an INSERT that fails is answered
`metadata_updated: false` although the old rows are gone and earlier ones inserted
(`docs/metadata_api.md:28`); `FileStore` grants the metaserver that weakness. A fetch that arrives before the first store polls for a database that
nobody has created, instead of answering 400 (`docs/block_api.md:20`);
`AnsweredOnceDbExists` is the weaker promise that holds, as long as no `Put` fails
for ever (`PutsEnd`).

*Bounds.* Two blocks per list are the least for which a commit has a state
between its INSERTs and `block_list` an order to get wrong; the empty list is
the empty file. Two versions suffice for "older" and "not older". Two workers,
two clients or two fetches are the least that interleave; statements of a third
touch the same rows by the same statements. In the cache two hashes let the
prefetcher have one block in the cache and one to fetch; liveness has one hash
but all faults, and one socket, so that the prefetcher runs out of them.
`meta_serial` has one file per user, so that its refinement and liveness fit;
there `FirstBlocksFirst` compares the blocks of one file, also of one that an
interrupted commit cut, and `RecentCorrect` proves it for any number of files.
In `sync` no content is the beginning of the other, so that a cut file is
noticed; five events are enough for both machines to edit, one of them again,
with two faults in between. `MCVersions` is larger than any version these events
lead to. In `sync_liveness` three
events are an edit, a removal and a fault, or an edit and two faults, with any
number of runs of `sync.py` at any time. It has one handler process, for which
machines and the requests of killed runs queue: waiting is what could keep a run from
ending, and a second worker would take three events out of TLC's reach (statements of
two handlers interleave in `upload`, for `UploadEnds`). Three rows are a duplicate and another cache.
Symmetry is used where no liveness is checked (`cache_server`, `user_caches`).
The block server run stops when its requests are used up, hence no deadlock
check there.

*Fairness.* A metaserver handler with a request runs until it has answered
(weak fairness of `Serve`, the statements that succeed, and of `Respond`): nothing in
it waits except for MySQL. A handler of the block server polls for the lock, so
it gets it for sure only if the others leave it free for good at some point: weak
fairness, and finitely many requests. No fairness is assumed of its `Put`:
`AnsweredOnceDbExists` has the premise that no handler stays at its `Put` for ever, and
without the premise TLC finds it violated. A request waits in the socket queue of
the FastCGI process manager, which is served in turn: strong fairness of `Send` in
`Upload` and `SyncClient`. `UploadEnds` takes the block server to answer or fail every
store (weak fairness of the client's steps), hence `Put`s that end. On the cache server
a handler and the prefetcher run until they come back for the next request, and the
servers they ask answer or refuse (weak fairness); `leveldb_server` reads one message
and answers it before the next, so nobody waits for another handler. A running
`sync.py` goes on and reads its answers (weak fairness of `Step` and `Receive`): the
program has no loop that waits, and each of its loops visits finitely many files. Where
`sync.py` downloads it is answered by the cache server (`FetchEnds`). `Converges` has
the premise that users start `sync.py` again and again, and edits and faults end with
`MaxEvents`; it leaves out machines whose `versions.json` was left truncated. No
fairness is assumed of new requests, failures or deaths.

## 4. Proofs

The proofs hold for every value of the constants (any number of workers, users,
clients, files, hashes, any lists and versions), under the named assumptions of
the modules: block lists are sequences of hashes, versions are naturals,
`NoWorker` and `NoProc` are not processes.

* `MetaTypeCorrect`: `MetaTypeOK`, with any overlap and any fault. The invariant
  `MetaInv` adds `WorkerOK`: at each statement the worker has a request of the
  right kind and an index within its list. Without it `NewRow` could be applied
  outside the list.
* `SerialCorrect` (`RowsFormOneFile`), `AckedCommitCorrect`, `UpdatesOnlyOlder` and
  `RecentCorrect` (`FirstBlocksFirst`), assuming `OneHandlerPerUser`. `SerialInv` adds that
  workers with requests serve different users, hence different files, and
  `CommitOK`: what the version check found still holds at the DELETE, and during
  the INSERTs the table holds exactly the prefix written. `meta_lost_update`
  shows that the assumption is needed. For `RecentCorrect` the rows form one file,
  so the rows of number 0 are the first blocks; an answer that lacks one of them
  holds nothing but rows of number 0, and stays true until it is sent, as no
  other request of the user runs.
* `FileStoreImplemented`: `Metaserver` implements `FileStore`, assuming
  `OneHandlerPerUser`, with any statements failing and processes dying. A commit
  takes effect at its DELETE: while a worker inserts rows of a file, the abstract
  file is the whole list of its request and not settled; otherwise it is the rows
  in the table. `SerialInv` leaves at most one worker that inserts into a file, so
  that worker's answer settles the file, an INSERT is a stutter, and a failure or
  death between two INSERTs is a `Settle` with the prefix written. `block_list`
  sorts rows by number, in any order that increases weakly; the rows form one file,
  so their numbers are distinct, and the only such order of `0 .. n-1` is the
  identity (`IncreasingIsIdentity`). That is induction over data in disguise; it is
  proved from the cardinality of intervals instead.
* `UploadsUseMetaserver`: every behaviour of `Upload` is one of `Metaserver`, also
  when clients are killed. `PatientClientsSerialise` and `PatientFileStore`: if each
  user runs one `sync.py` that waits for its answers (`PatientSpec`, `UserOf`
  injective), `Serialised` and the refinement of `FileStore` hold without the
  constant `OneHandlerPerUser`. The invariant adds that every worker with a request
  serves it for a client that waits for it (`ServedForAClient`), so two workers of one
  user would have one client wait for both.
  These three have no run of their own: `upload` has clients that are killed, and
  `meta_serial` checks the refinement under the constant.
* `CommittedStored` and `QueryAnswersComplete`, assuming that statements do not
  fail (`"db" \notin Faults`), while handlers and clients may die. `UploadInv` says
  at each place of `upFile` which blocks are stored or still needed, the same for
  the requests workers serve, also those whose client is gone, and that answers
  match requests (`AnswersMatchRequests`). Stored blocks are never removed, so what a query found stays
  true. `upload_masked_error` shows that the assumption is needed.
* `BlockTypeCorrect`, `BlockServerCorrect` (`OpenExactlyWhileUsed`) and
  `StoresAreKept` (`AnsweredStoreIsStored`), by `BlockInv`, which adds which request a handler has
  at each step and that the block is stored before the answer.
* `BlockStoreImplemented`: `BlockServer` implements `BlockStore`, under every death.
  `Put` is the abstract store; the end of a handler is one answer, true of the
  set of blocks at that moment since its handler still has the database open;
  opening and polling are stutters.
* `CacheTypeCorrect`: `CacheTypeOK` whatever fails; it needs that the prefetcher
  has a hash when it puts a block.
* `CacheCorrect` (`ServedBlockIsTheBlock`) and `ServedBlocksCached`, assuming
  `Faults = {}` and `AskStoredOnly`. `CacheInv` says
  that the database holds nothing but blocks, that both writers hold a block when
  they put it, and that the hash of a running fetch stays stored. `cache_poisoned`
  shows that a single failed request breaks it.
* `FoundBlocksStay` (`ExistsMeansCached`) goes further than its run and assumes only
  `"server" \notin Faults`:
  clients fetch anything, requests and disk operations fail, handlers and the
  prefetcher die in the middle of messages. No step of anybody removes an entry
  (`StepEntriesStay`), and a `get` succeeds only for an entry. A `leveldb_server`
  that dies while it answers breaks it, as the zeroed buffer counts as success.
* `CachesTypeCorrect`, and `DirectoryImplemented`: `UserCaches` implements
  `CacheDirectory`, for any table size and under every fault. Each handler maps to
  one step or a stutter; `GetCaches` needs that a listing below `max` was not cut.
* `SyncTypeCorrect`: `SyncTypeOK`, with any overlap, whatever fails and whatever users
  do. `SyncTypeInv` adds `MetaInv` and that an answer is one to the request the
  machine has sent: without it the fields read from it could be missing.
* `TurnsGiveFileStore` (`ImplementsFileStore`), assuming `Turns`: `TakeTurns`, and a web
  server that waits for its handlers. Handlers and statements may fail and
  `sync.py` may be killed anywhere. `TurnInv` says that one machine runs and one
  handler serves at a time, and that a running machine waits for the handler
  that serves; so the handler of a killed run ends before the next run begins,
  `Serialised` holds, and the step lemmas of `FileStoreProofs` apply. It has no run of
  its own; `meta_serial` checks the refinement under `OneHandlerPerUser`.
* `FilesAreWhole` (`NoMangledFile`) goes further than its run and assumes `Orderly`:
  `Turns`, no failures on the metaserver, no power failure, no wrong answers of the
  cache. Users may remove, empty and edit files at any time, requests fail and
  `sync.py` dies at any step. `WholeInv` adds that the file the server is about to
  have is whole, that handlers commit and show whole files, and that what `sync.py`
  has read or split is a whole file or none.
* `InSyncCorrect` and `EditsAreKept`, for any number of machines, files and handlers,
  failing requests and kills at any step, also with a commit under way, assuming
  `Calm`: `Orderly`, and files are neither removed nor empty nor touched while
  `sync.py` runs. `SyncInv` says that a version number of a file stands for one
  content from its commit on: a machine that recorded a version and did not
  modify the file has that version's blocks, the server's if the version is the
  server's (`DiskOK`); a running `sync.py` that is about to record a version holds
  or has written its content (`RunOK`); and a commit that replaces rows has a
  version newer than every recorded one of an unmodified file (`CommitsNewer`), so
  what such a machine holds is older and not in sync. `sync_edit_lost` shows that
  statements that do not fail are needed, and the interleavings named in section 2
  that turns are.

Only model-checked: liveness (`EveryRequestAnswered`, `UploadEnds`,
`AnsweredOnceDbExists`, `FetchEnds`, `PrefetcherReturns`, `SyncEnds`, `Converges`),
which is out of the prover's reach. Every safety property and every refinement
that a run checks is also proved.

## 5. Not modelled

* On the cache server: the unused message `mget`, `addUserCache` (never called),
  and blocks that exceed the message size.
* MySQL connections leaked by error paths; power failure of a server (LevelDB
  writes are not synced); block contents on the block server.
* SQL and JSON syntax, HTML wording, `ifconfig` parsing beyond "found or not".
* `getQueryParam` as a string algorithm; overflow of versions (a client would
  need 2^31 commits).
* Manual test programs and deployment files.
* The vendored MySQL headers under `metadata/include`. They are most of the C
  lines of the repository and declare, but do not implement, what the programs
  call: the map of `PROJECT.json` covers about half of the lines of the system's own
  programs but only a small share of a count that includes these headers, and there is no behaviour in
  them to model.

## 6. Plan

1. Proof that the uploads of `SyncClient` are commits that `Upload` allows, joining the
   two models of `sync.py` (both extend `Metaserver`).
2. What holds of the cache when requests to the block server fail: which entries
   are then wrong, and that the prefetcher adds none.

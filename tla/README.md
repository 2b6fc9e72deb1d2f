# Verification of cloudserver

cloudserver is a self-hosted cloud drive written in Go: a gin web server, a
MySQL database reached through gorm, an in-memory or Redis cache, and storage
policies whose files live on the local disk, on slave nodes or at a cloud
provider. This directory holds TLA+ models of the parts whose correctness
depends on interleavings, failures and restarts, the TLC configurations that
check them on small instances, and TLAPS proofs for every instance.

## Inventory

| part (src/) | state | operations | what is hard | what makes it correct | module |
|---|---|---|---|---|---|
| chunked upload sessions (`service/explorer/upload.go`, `pkg/filesystem/{upload,hooks}.go`) | session in the cache, placeholder row, physical file | create, upload chunk, delete session(s), finish | no lock anywhere; user, session, row and file length are read early and used late; clients leave; retries | a finished file is whole; space is charged once; abandoned placeholders go away | `UploadSession` |
| file rows and storage counter (`models/{file,user}.go`) | `files`, `users.storage` | Create, UpdateSize, PopChunkToFile, DeleteFiles | optimistic `size = ?` conditions, transactions that roll back after the disk has changed | counter = sum of sizes; few rows of one name | `UploadSession`, `ObjectStore` |
| local driver (`pkg/filesystem/driver/local`) | directory entries, contents | Put, Truncate, Delete | appends after Stat, unlink under an open handle | bytes at their place | `UploadSession`, `ObjectStore` |
| cron (`pkg/crontab`) | none of its own | recycle upload sessions, collect temp archives and cache items | lists, checks, re-reads, deletes | abandoned sessions do not stay | `UploadSession` |
| deletion, soft links, overwriting (`pkg/filesystem/{manage,file}.go`, `models/file.go`) | rows that share one physical file | delete, copy, overwrite, rename | physical file goes with the last row | no dangling row, no file changed through another one | `ObjectStore` |
| folder tree (`models/folder.go`, `pkg/filesystem/{manage,path}.go`) | `folders`, `files` | make, import, move, copy, delete, list, compress, trace | moves against each other, partial copies | the folders form a tree | `FolderTree` |
| task pool (`pkg/task`) | worker tokens, task rows | submit, do, resume | panics, restarts | tokens come back, tasks end | `TaskPool`, `TaskQueue` |
| cluster (`pkg/cluster/{pool,slave,master}.go`) | active and inactive nodes, feature index, ping loops | add, delete, status change, re-initialise | goroutines and channels per node | the pool reflects the nodes | `NodePool` |
| aria2 downloads (`pkg/aria2`, `service/aria2`, `models/download.go`) | download row, retry count, the daemon | add, poll, cancel, complete, resume | failures between submitting and saving | every download ends, one transfer each, few at a time | `Downloads` |
| users, groups, policies, sessions (`service/{user,admin,setting}`, `models/{user,group,policy}.go`, `middleware`) | rows, sessions, policy cache | login, settings, edits, bans, cache clean | whole rows, documents and sessions written from old copies | what is set stays set | `Accounts` |
| shares (`models/share.go`, `service/share`, `service/explorer/file.go`) | share row, access marks, download links | create, edit, visit, download, expire | counters written from old copies, marks in three places | limits hold up to a bound, edits stay | `Shares` |
| WebDAV locks (`pkg/webdav/lock.go`) | lock tree, expiry heap | create, confirm, refresh, unlock | expiry while held, infinite depth | no two conflicting locks | `MemLS`, `LockTable`, `LockNames` |
| WebDAV (`pkg/webdav/{webdav,file,prop}.go`) | the tree, progress of an answer | every method | a PROPFIND walks while others change the tree | everything once, under its name | `Webdav` |
| WebDAV XML (`pkg/webdav/xml.go`, `pkg/webdav/internal/xml`) | decoder and encoder stacks | read bodies, write answers | namespaces, custom unmarshalers on one stack | names kept, bodies read as they say | `XmlTypes`, `XmlReader`, `XmlWriter`, `XmlBodies` |
| slave transfer (`pkg/cluster/controller.go`, `pkg/filesystem/driver/shadow`, `pkg/mq`) | job tracker, topics | submit, notify, time out | does not get past its first notification, see below | | - |
| everything else | | | see PROJECT.json, `components` | | - |

Requests meet in the database, the cache and on the disk, and nowhere else:
there is no lock around a request. Background goroutines are the cron job,
workers of the task pool, ping loops, download monitors and the truncations
after a client has left. A download that is complete records a task
(`Downloads` ends where `TaskPool` begins); what a task, a WebDAV request or an
import writes goes through the same file and folder operations (`ObjectStore`,
`FolderTree`). `Shares` extends `Accounts`, since visits and edits work on the
same sessions and rows; `MemLS` implements `LockTable`, both on `LockNames`;
`TaskPool` implements `TaskQueue`; `XmlBodies` extends the writer, which
extends the reader; `MCWebdav` composes `Webdav` with `XmlBodies`, so that the
bodies that requests carry are those that documents are read as.

PROJECT.json lists every component with its status, the source lines of every
definition (`map`), and under `hazards` the lines of the code that are hard to
test, with the properties that cover them.

## How to read the models

Every module takes its bounds as CONSTANTS and has one action per statement,
call or critical section that takes effect at once; definitions keep the names
of the code. Definitions named `X_Something` next to an `X` are variants of it
with a plausible bug; PROJECT.json (`mutants`) pairs each property with a variant
that violates it. Two devices keep the number of runs small:

* a *rigid* variable (`calm`, `fault`, `load`) is chosen in `Init` and never
  changes, so that one run covers the behaviours with and without some
  disturbance, and a property can be stated for one kind of them;
* a switch such as `Overlap = FALSE` restrains the *environment* (which requests
  meet), never the handlers.

Deadlock is checked only in the run of the lock system. The others may stop:
ids, objects or requests of the instance are used up, every task has ended, or
the server has panicked.

| run | module | checks |
|---|---|---|
| UploadSerial | UploadSession | `TypeOK`, `Accounting`, `FinishedIntact`, `NamesBound` |
| UploadOverlap | UploadSession | `SizesAreCharged`, `QuotaBound` |
| UploadLive | UploadSession | `PlaceholderResolved` |
| ObjectStore | ObjectStore | `TypeOK`, `FilesIntact`, `Charged`, `OthersUntouched` |
| TaskPool | TaskPool, TaskQueue | `TaskTypeOK`, `TokensConserved`, `QueueSpec`, `TaskEnds` |
| NodePool | NodePool | `TypeOK`, `StatusAgrees`, `OneLoop`, `RemovedForGood`, `EditsEnd` |
| FolderTree | FolderTree | `TypeOK`, `Rooted`, `CopyFaithful`, `RequestsEnd` |
| FolderMove | FolderTree | `MovedFilesArrive`, which is violated (see Findings) |
| Downloads | Downloads | `TypeOK`, `Monitored`, `BatchBound`, `DownloadsEnd` |
| Shares | Accounts, Shares | `TypeOK`, `UpdatesKept`, `PolicyFresh`, `CreditsBound` |
| Locks | MemLS, LockTable | `TypeOK`, `Exclusive`, `Promise` |
| Webdav | Webdav, Xml* | `TypeOK`, `AnsweredOnce`, `NamesKept`, `BodiesRead` |

## UploadSession

### What is modelled

An upload of a file of `FileSize` bytes under a local policy with chunks of
`ChunkSize` bytes:

* `rows` is the table `files`. A row is a *placeholder* while its
  `upload_session_id` is set, *finished* afterwards, *gone* after
  `DeleteFiles`. Ids are never reused, and the session key is a fresh UUID per
  placeholder, so the id of the row also stands for its session.
* `storage` is `users.storage`; there is one user.
* `cache` is the set of sessions in the cache.
* `disk` is the physical file of each row, as a sequence of bytes named by the
  offset they belong to, or `NoFile`.
* `cancels` are the truncations that `CancelUpload` goroutines may still do.
* `reqs` is the program counter and the local variables of each handler:
  `target` (ids), `seen` (rows as it read them), `used` (its copy of
  `user.Storage`), `offset` (`AppendStart`).

The handlers' steps, in the order of the code:

| request | actions | code |
|---|---|---|
| create | `CreateUploadSession` → `CheckName` → `InsertPlaceholder` / `InsertFails` → `RegisterSession` | `CreateUploadSession`, `GenericAfterUpload`, `AddFile`, `File.Create`, `cache.Set` |
| chunk | `LocalUpload` → `AcceptChunk` / `RejectChunk` → `ProbeFile` (first chunk) → `OpenFile` → `WriteChunk` / `WriteUnlinked` → `HookChunkUploaded` → (last chunk) `PopPlaceholder` → `ForgetSession`; on failure `TruncateFailedChunk` → `HookChunkUploadFailed` | `LocalUpload`, `processChunkUpload`, `Driver.Put`, the hooks |
| client gone | `ClientLeaves`, then `CancelUpload` whenever the goroutine runs | `FileSystem.CancelUpload` |
| delete | `Delete` → `DeleteGroupedFile` → `DeleteFiles` / `DeleteFilesRollback` | `FileSystem.Delete`, `deleteGroupedFile`, `models.DeleteFiles` |
| cron | `ListPlaceholders` → `SkipLiveSessions` → `RereadPlaceholders` → the same two delete steps | `uploadSessionCollect` |
| environment | `ExpireSession`, `Crash` | TTL, end of the process |

An action is what the database, the cache or the file system does at once. The
look-up of a session is merged with the read of the user before it (a key a
client knows was registered before it asks); the removal of the physical files
of one request is merged into one step with the removal of their sessions from
the cache (properties speak of one file at a time).

The database is modelled by the contract the callers rely on: `Find` of one row
reports an error when there is none, a transaction is atomic, the unsigned
column `storage` refuses to go below zero, `Where("size = ?")` restricts an
update or delete. The code is compiled against gorm v1.23 (API v2), where
`Find` into a struct reports no error for a missing row; taken literally
`IsChildFileExist` would be true for every name. The model takes the callers'
reading. The tag `unique_index` is the other place where the two versions
differ: gorm v2 knows `uniqueIndex` only, and `models/migration.go` creates no
index, so the table accepts two rows of one name, and so does the model.

The controller `FileUpload` is left out: the model starts at the service it
calls. The condition there is inverted (`routers/controllers/file.go:81`): the
service runs when binding the URI *fails*, and a valid URI is answered with an
error, so that at this commit no chunk upload over HTTP gets to `LocalUpload`
(`DownloadArchive`, line 69, has the same condition). What the models say of
chunks is about the service and the hooks, as they run once they are called.

### Switches

`Overlap = FALSE` restrains the *environment*: no request starts on an object
another one is still working on, but sessions for one name may be created at the
same time. The handlers are unchanged. The other switches add faults:
`Disconnects`, `IoFaults` (short writes, failing removals), `DbFaults` (`"exec"`:
a statement fails, `"commit"`: a commit fails), `Crashes`.

### Properties and runs

| run | instance | shows |
|---|---|---|
| UploadSerial | 3 ids, 1 name, 2 handlers + cron, chunks of 2 in files of 3, quota 5, no overlap on one object, all faults but commits and disconnects | handlers that work on different objects do not disturb each other, whatever fails and wherever the server stops: the counter is exact, finished files are whole, no physical file outlives its row; two sessions created at once may have one name, three never |
| UploadOverlap | 1 id of 2 chunks, 2 handlers + cron at will, quota of one file, every fault but disconnects | whatever the copies of the row are, a change of the sizes moves the counter as much; the quota is exceeded by one chunk of each other handler at most |
| UploadLive | 1 id of 2 chunks, 2 handlers, clients that leave, fairness | placeholders do not stay, unless stale updates have pushed the counter below the sum of the sizes, so that the unsigned column refuses every delete |

Bounds: three ids are one more than the handlers that can be past the name
check, and give every pair of operations on one and on two objects; with
`ChunkSize = 2`, `FileSize = 3` there is a full chunk and a shorter last one; the
quota is chosen so that the last upload just fits and the next is refused.
`UploadOverlap` has one row, because stale copies are copies of one row and the
quota is exceeded on one already; the proofs have any number.

What the code does not guarantee, seen on the model and not claimed:
`FinishedIntact` with clients that leave (a late truncation cuts a finished
file) or with overlap; `Accounting` with overlap (an `UpdateSize` whose row has
another size or is gone moves the counter all the same) or with failing commits
(`file.Size` is assigned before the commit); that names are unique (`NamesBound`
only says how many rows of one name there can be); and that the cron job takes
abandoned placeholders only: between its list and its delete (`collect.go:80`)
an upload may complete, or a session be registered, and the job deletes the file
all the same. This needs requests that overlap on the object, which the job does
in the code whenever it runs, so nothing is claimed of it.

Fairness (`FairSpec`) is weak fairness of every handler that has started
(goroutines run on), of the cron job (it is fired again and again) and of the
expiry of sessions; requests themselves are not fair.

### Proofs

`UploadSession_proofs`, for every value of the constants that satisfies the
assumptions of `UploadSession` (finite sets of ids and handlers, natural sizes,
Boolean switches):

* `TypeCorrect`: one step per action. `TypeOK` contains that no size exceeds the
  announced one.
* `SizesCharged`: the action property, from `TypeOK` and the invariant that only
  live rows have a size (`NoGhostSize`). The sum of sizes is the cardinality of
  a set of unit blocks, so that the lemmas `TotalSplit`, `TotalSingle`,
  `TotalUpdate` and `TotalMonotone` follow from the library's facts on
  cardinalities, without induction.
* `AccountingSerial`: without overlap and without failing commits, storage is
  the sum of the sizes. `Accounting` is not inductive: it needs that no two
  handlers work on one object and that what a handler has read of its row is
  still true (`Alone == Disjoint /\ Born /\ Current`), hence no update misses
  its row.
* `FinishedAreWhole`: `FinishedIntact` without overlap, clients that leave, or
  failing commits. The invariant (`Intact`) says that a physical file has no
  holes and belongs to a live row (`Sound`), and follows each handler through its
  chunk (`Stage`: the file ends where the chunk begins when it is opened for
  writing, and where the chunk ends until its size is recorded or it is
  truncated again); `Alone` gives that nobody else touches that file.
* `NamesBounded`: `NamesBound` in every environment. A name may have as many rows
  as handlers that have passed the check for it, so the invariant counts both
  together: the live rows of a name and the handlers about to insert one are
  never more than the handlers.
* `QuotaBounded`: `QuotaBound` in every environment. The invariant adds the
  chunks that have passed, or are bound to pass, the capacity check and have not
  been charged (`Headroom`: the counter plus their sum), and that the size a
  handler has read reaches the start of its chunk (`SeenAhead`), so that it is
  charged for at most its chunk.

## ObjectStore

### What is modelled

The finished files of one user and the physical files behind them. A copy is a
soft link: `Folder.MoveOrCopyFileTo` and `CopyFolderTo` insert a second row
with the same `source_name`.

* `rows` is the table `files` with `path` (folder and name), `src`
  (`source_name`) and `size`; `storage` is the counter; `disk` is the length of
  each physical file or `NoFile`; `reqs` the handlers' progress and locals:
  `target` (rows worked on), `seen` (rows as read), `todo` (physical files to
  remove, or files still to copy), `path`, `src`, `size` of the file written.
* physical names are either virtual paths (`AutoRename = FALSE`) or keys that
  no one else uses (random names).

| request | actions | code |
|---|---|---|
| direct upload | `UploadNew` → `ProbeFile` → `WriteFile` → `CheckName` → `InsertFile` / `AddFileFails`; `DiscardFile` on failure | `FileSystem.Upload`, `Driver.Put`, `GenericAfterUpload`, `AddFile`, `File.Create`, `HookDeleteTempFile` |
| overwrite | `OverwriteFile` → `FindLinks` → `ProbeFile` → `WriteFile` → `RelinkFile` (if there were soft links) → `GenericAfterUpdate`; on failure `RelinkAgain` → `CleanContent` → `ClearFileSize` | `FileIDService.PutContent` (mode `create`), `Handler.handlePut` (mode `overwrite`), their hooks |
| copy | `Copy` → `CopyFile` per file → `ChargeCopies`, or `CopyFails` | `FileSystem.Copy`, `Folder.CopyFolderTo`, `MoveOrCopyFileTo`, `IncreaseStorageWithoutCheck` |
| rename | `Rename` | `FileSystem.Rename` |
| delete | `Delete` → `FilterLinked` → `DeleteGroupedFile` → `DeleteFiles` / `DeleteFilesRollback` | `FileSystem.Delete`, `RemoveFilesWithSoftLinks`, `deleteGroupedFile`, `models.DeleteFiles` |
| environment | `Crash` | end of the process |

Abstractions: the destination of a copied file is any path (folders are the
subject of `FolderTree`); `PutContent` passes no virtual path to
`GenerateSavePath`, so the path from which its physical name is made is any
one; an error of the soft link query in an overwrite counts as "no links", as
in the code; thumbnails and clients that leave are left out (the cancel
goroutine is in `UploadSession`). `fault` is chosen once: nothing, or one kind of failing
statement, file operation or server, any number of times. `Calm` means that
nothing but removals of physical files fails.

### Properties and run

| run | instance | shows |
|---|---|---|
| ObjectStore | 3 ids, 2 paths, 2 keys, 2 handlers, sizes to 1, quota 2, random names, no overlap on one row, one kind of fault per behaviour | handlers of *different rows that share a physical file* do not take it from each other or change it under each other; idle rows tell the length of their file; the counter is exact up to the copies still running; whatever fails, the user is never charged for more than the rows hold |

Three ids are an original, its copy and a third row (a second copy, or a new
upload at a path that became free); two handlers give every pair of operations
on rows that share a file. `Overlap = FALSE` keeps two requests off *one* row
only; rows that share a physical file are free to be worked on at once.

What the code does not guarantee, seen on the model and not claimed: deleting
two soft links of one physical file in one request leaves the physical file
behind (each row is "linked" by the other); a copy that fails half way is not
charged; with requests that overlap on one row sizes drift as in
`UploadSession`; with failing statements or a crash between the removal of
the physical file and the transaction, rows stay whose file has gone
(`FilesIntact` is stated for `Calm`); a write cut short leaves a row with the
size of the old content. Without random names (`AutoRename = FALSE`) a WebDAV PUT
over a file with soft links changes the content of the links: the hook at
`webdav.go:364` clears the overwrite mode, line 380 sets it again, and the
"fresh" physical name made from the path is the shared one.

### Proofs

`ObjectStore_proofs`, for every number of files, names and handlers, every size
and quota, and every choice of what fails:

* `TypeCorrect`, without further hypotheses.
* `ChargedAlways` (hypothesis `~Overlap`, since `UpdateSize` charges even when it
  does not find its row). The invariant is `Alone` (nobody else works on the
  rows of a handler, and what it has read of them is true) and `Balance` (the
  counter and what running copies owe, `Owed`, together are what the rows hold,
  or less after a fault).
* `FilesAreIntact` and the action property `OthersAreUntouched` (hypotheses
  `~Overlap` and `AutoRename`). `Files` follows each physical file through
  the handler that may change it: nobody else knows the name of a new one
  (`Fresh`), and no other row has the one that a handler changes in place
  (`Sole`), although the query that found this out may be old.

## TaskPool and TaskQueue

### What is modelled

`TaskPool` is `pkg/task`: the rows of table `tasks` (`status`), one goroutine
per submitted job (`go`, its program counter), the tokens in the channel
`idleWorker` (`tokens`), the phase of the server (`phase`) and the rows that `Resume`
still has to submit.

| actions | code |
|---|---|
| `BootPool` → `ResumeTask`* → `ServeRequests` | `task.Init`, `Resume`, `GetJobFromModel`, the later initialisers (`bootstrap/init.go:63-79`) |
| `Record` → `Submit` | `NewCompressTask` and the like, called by requests and by monitors |
| `ObtainWorker` → `BeginJob` → `DoJob` → `EndJob` / `RecoverPanic` → `FreeWorker` | the goroutine of `AsyncPool.Submit`, `GeneralWorker.Do` |
| `FatalPanic` | `DecompressTask.SetError` / `GetError` panic ("implement me"), also inside the deferred function: the process dies |
| `DeleteGeneral` | the administration deletes a row; its goroutine goes on |
| `Crash` | goroutines and tokens are gone, rows stay |

`SetStatus` matches rows that are not deleted and its error is dropped
(`DbFaults`). `Resume` skips a row whose user is not active (`UserFaults`).
What a job does to files is one step, `DoJob`, with its outcomes: done, error
set, panic.

`TaskQueue` says what this promises without goroutines, tokens and restarts:
at most `Workers` tasks at a time, no task twice at the same time, none that
has a recorded end; an interrupted task may run again, so execution is at
least once. `QueueSpec` in `TaskPool` is `TaskQueue!Spec` under the mapping that
takes the goroutines inside `job.Do` (up to the recording of the end) as the
running tasks.

### Properties and run

| run | instance | shows |
|---|---|---|
| TaskPool | tasks t1, t2 and a decompression d1, 2 workers, 1 crash, panics, deletions; t2's updates may fail and its user may be inactive | every way a job ends gives its token back; restarts neither lose nor duplicate running work; the pool implements the queue; every recorded task but d1 and t2 is ended or deleted |

Two workers and three tasks make goroutines wait; a crash at any point resumes
whatever was running. Fairness: the server is started again, goroutines run on
(weak fairness of each step of a job), and a goroutine that waits for a token
gets one in its turn, because receivers of a Go channel are served in order
(strong fairness of `ObtainWorker`, since the token may be taken by another in
between). `TaskEnds` is stated for a server that stays up at last, and without
failing updates (a lost status is not tried again before the next restart) and
inactive users; a decompression takes the server down at its end, before a
status is recorded, and `Resume` submits it again at each start.

### Proofs

`Pools_proofs`, for any number of tasks, workers and crashes (the module extends
both pools, for which the names here begin with `Task`):

* `TasksTypeCorrect` and `TokensAreConserved`. The inductive invariant is `TaskTypeOK`,
  `TokensConserved` and `Consistent`: goroutines exist only while the server
  runs, a goroutine that has not started its job belongs to a row without an
  end, and `Resume` holds no row that has a goroutine. `TaskTypeOK` alone is not
  inductive, since `FreeWorker` needs conservation to stay within the channel's
  capacity.
* `ImplementsQueue`: `Spec => QueueSpec`, one step per action; `RoomToRun` turns
  conservation of tokens into the bound on running tasks.

## NodePool

### What is modelled

The master's view of its slaves: `active` and `inactive` are the maps of
`NodePool`, `index` is `featureMap["aria2"]`. A `SlaveNode` object has an id
(`home`), `feature` (`Model.Aria2Enabled`), `up` (`Active`) and the channel in
its field `close`; `closed` are the channels that have been closed. `loops` are
the goroutines of `StartPingLoop` with the local variables `retry` and the
channel their `select` waits on; the channel a loop makes is named after the
loop. `admin` are the requests with the `go old.Init(node)` they start.

| request or goroutine | actions | code |
|---|---|---|
| add, switch on | `AddNode` or `EditNode`, then `RebuildIndex` | `AddNodeService.Add`, `ToggleNodeService.Toggle`, `NodePool.Add`, `add`, `buildIndexMap` |
| `go old.Init` | `SetModel` → `SendClose` → `AcceptClose` / `SendPanics` | `SlaveNode.Init` |
| switch off, delete | `DeleteNode` → `RebuildIndex` | `NodeService.Delete`, `NodePool.Delete`, `SlaveNode.Kill` |
| ping loop | `MakeChannel` → (`Select` → `Tick` → `PingAnswered` / `PingFailed` → (`SetActive` → `NodeStatusChange` → `LoopIndex`))* → `StopLoop` | `StartPingLoop`, `changeStatus`, `nodeStatusChange` |

A key that maps to a nil node is a value of the maps (`Nil`), since
`nodeStatusChange` can put one there. A panic in a goroutine, and one in
`buildIndexMap`, which does not release the lock, end the behaviour
(`server = "dead"`).

Abstractions: `NewNodeFromDBModel`, its `Init` and `SubscribeStatusChange` are
one step, under the pool's lock; the first change of status needs at least two
pings (`RetryOk`: a setting of one could call the callback before it is
set). Holding a node's read lock during a ping only delays others. Node 1 (the
master) has no loop and cannot be removed. The content of a ping is left out.
The tables are read and written by requests of the administration only; the
maps are what the model is about. The tag of `ToggleNodeService.Desired` is
misspelled (`uir`, `service/admin/node.go:16`), so at this commit a request to
switch a node off switches it on; the model also has the one that was meant.

### Properties and run

`calm` is chosen once, at the start. In a calm environment requests of one node
do not overlap with each other or with a ping of that node, and edits leave the
aria2 switch alone; that is the normal case, since ticks are minutes apart. In
the other behaviours anything overlaps.

| run | instance | shows |
|---|---|---|
| NodePool | 1 id, 2 objects, 2 loops, 2 requests, retry of 2 | in every environment, an object that has been removed never returns, whatever its loop does; in a calm one maps, statuses and index agree although they change in three steps, one loop pings each node, edits end, and the loop of a removed node stops |

The pool's operations touch one id each, except for the index; two objects are
a node and its re-registration under the same id; two loops are the one before
and the one after an edit, or those of the two objects; a retry of two
tells the first failure from the last. Fairness: started goroutines run on;
requests, ticks and thereby pings are not fair.

What the code does not guarantee, seen on the model without `calm` and not
claimed: a status change that meets a removal puts a nil node under the id, and
`buildIndexMap` then panics; an edit that meets a removal sends on a closed
channel and panics; a removed object's loop moves the new object of the same
id; an edit before the first loop has made its channel leaves two loops for one
node; a second edit before the next loop has made its own can wait for ever on
the old one; the
index is rebuilt before `Init` has changed the node, so an edit of the aria2
switch shows only after the next change of status.

### Proofs

`Pools_proofs`, for every number of nodes, objects, loops and requests:

* `TypeCorrect`, with `Bound`: whoever runs has a node.
* `NeverReturns`: the action property `RemovedForGood` in every environment; an
  object enters a map only when it is made, or under the id where it was.
* `StatusesAgree` and `OneLoopEach`, from one invariant that holds in a calm
  environment (`Tidy`): the channel in a node is that of its only loop, the map
  a node is in says what the loop has last reported, and a node that is being
  edited has its loop asleep. `StatusAgrees` contains that the server does not
  panic, so each step's proof includes that its panicking branch is not taken.

## FolderTree

### What is modelled

The folders and files of one user as `parent` and `home` of each row, and the
operations of the web interface, of WebDAV and of import tasks on them, one
database statement at a time. A path is the folder it leads to; names are left
out. The ids of the two tables are numbers of their own that overlap, as in
the database, which the code's mistakes with ids depend on.

| request | actions | code |
|---|---|---|
| make directory, import | `CreateDirectory` → `MakeFolder`*; `ImportFiles` → `ImportFile`* | `FileSystem.CreateDirectory`, `ImportTask.Do` |
| move | `Move` → `MoveFolderTo` → `MoveFileTo` | `FileSystem.Move`, `Folder.MoveFolderTo`, `MoveOrCopyFileTo` |
| copy | `ListLevel`* → `InsertFolder`* → `CollectFiles` → `InsertFile`* → `EndCopy` | `FileSystem.Copy`, `GetRecursiveChildFolder`, `CopyFolderTo` |
| delete | `Delete` → `ListLevel`* → `ListDeleteFiles` → `DeleteRows` → `DeleteFolders` | `FileSystem.Delete`, `ListDeleteDirs`, `DeleteFolderByIDs` |
| PROPFIND, import listing | `Propfind` → `VisitFolder`* | `walkFS` |
| archive, compression | `Compress` / `CreateCompressTask` → `CompressTask` → `CompressFolder`* | `FileSystem.Compress`, `doCompress` |
| properties | `GetProperty`, `GetFileProperty` → `ListLevel`* → `TraceRoot`* | `GetProperty`, `Folder.TraceRoot` |
| any | `Fails` | a failing statement or query |

`calm` behaviours are those in which requests that run at the same time work on
different parts of the tree and none moves a folder below itself.

### Runs

| run | instance | shows |
|---|---|---|
| FolderTree | 3 folders and 1 file in any tree, ids for 2 folders and 1 file more, 2 requests of one object each | the root stays, whatever meets; in a calm environment the tree stays a tree also when a request fails between two statements, copies have the shape of what was copied, and every request ends |
| FolderMove | 3 folders, 1 file, 1 request | a move of files does not move them (Findings) |

A root and two folders are the smallest tree with a chain of two, which a move
can turn into a cycle and whose copy needs two levels; the two ids more are
enough for the copy of both; two requests give every pair. Fairness: handlers run
on; requests and failures are not fair.

What the code does not guarantee, seen on the model and not claimed: moving a
folder below its own child detaches a cycle from the tree (`TraceRoot` then
recurses for ever); overlapping deletes and inserts leave orphans; a folder
listed twice is copied twice; deleting the root leaves the files that lie in it.

### Proofs

`FolderTree_proofs`, for every number of folders, files and requests:

* `TypeCorrect`, with what each stage of a request relies on in every
  environment (`Stage`): a destination while it still inserts or moves, the
  operation that leads to the stage.
* `RootedAlways`. That the root stays (`RootStays`) needs no calm. The tree is
  stated as "a set that holds the root and the children of its own holds every
  folder" (`Tree`), the form in which `Subtree` is defined; three lemmas say
  that a new leaf, a move to a place that is not below what is moved and the
  removal of a set with all that lies in it leave a tree (`LeafTree`,
  `GraftTree`, `PruneTree`). `Rooted` is not inductive by itself: a delete may
  remove folders only if no file is left in them and no child unlisted, a move
  may run only if its destination is still not below it. So `Peace` holds what
  each request relies on at its stage (`Arriving`, `Moving`, `Descending`,
  `Deleting`, `Copying`) and that requests which run at the same time own
  different folders (`Apart`). A step is shown to work on its own folders and
  new ones (`Good`), one lemma per action, and one lemma for all of them says
  that this leaves alone what the others rely on (`OthersQuiet`, `GoodPeace`).
* `CopiesAreFaithful`, from the same invariant: every copy inserted so far has its
  parent where the original's parent was copied to (`Faithful`), and no files are
  collected before all folders have copies.

## Downloads

### What is modelled

Rows of table `downloads`, one monitor goroutine (`mon`) per unfinished row
with its own copy of the row, the aria2 daemon (`aria2`: what it would answer
about each download), the handlers that add URLs, and restarts.

| request or goroutine | actions | code |
|---|---|---|
| add | `CountDownloads` / `CountFails` → `CreateTask` → `CreateRow` → `WatchNew` | `AddURLService.Add`, `GetDownloadsByStatusAndUser`, `RPCService.CreateTask`, `Download.Create`, `monitor.NewMonitor` |
| monitor | `PollRefused`, `PollFollowed` → `SaveGid`, `Poll` → `SaveInfo` → `ValidateFile` → (`SetErrorStatus`, `RecordTransfer` → `LinkTransfer`) | `Monitor.Loop`, `Update`, `UpdateTaskInfo`, `ValidateFile`, `Error`, `Complete` |
| cancel, delete | `CancelDownload`, `SaveCanceled`, `DeleteRow`; `DeleteByAdmin` | `DownloadTaskService.Delete`; `TaskBatchService.Delete`, which deletes rows of any status |
| restart | `Crash`, `BootDownloads` → `ResumeMonitor`* → `ServeRequests` | `aria2.Init` |
| daemon | `FetchMetadata`, `Settle` | - |

A poll at any time stands for the ticker and for the notifications of the
daemon, which only make it come earlier. A call has an answer, an error, or
none; whether the daemon knows a length yet may differ from poll to poll. The
query that counts the unfinished downloads drops its error, and an empty list
passes every limit (`CountFails`). `excused` remembers the downloads that were
added on such a count and those an administrator deleted before their end: the
monitor of the latter may insert the row again, after others were added in its
place. Temporary folders, the nodes other than the master and the contents of
the transfer (see `TaskPool`) are left out.

### Run

| run | instance | shows |
|---|---|---|
| Downloads | a magnet link whose owner may be gone, a URL that the daemon rejects and whose saves may fail, 2 handlers, batch limit 1, 1 retry, 1 crash | no download is transferred twice, every unfinished one is monitored while the server is up, the limit is exceeded by one for the other handler at most, and downloads end, also when the daemon has forgotten them |

The magnet link changes its GID; the rejected URL has a row without one. Two
handlers and a limit of one are the least with which a count is old when the row
is inserted. `BatchBound` counts the handlers that have passed the check with the
rows, and leaves out what is `excused`: for those there is no limit in the code.
Fairness: handlers, monitors and the boot run on, and
the daemon brings every download to some end.

What the code does not guarantee: a crash between the save of the status and
the recording of the transfer loses the transfer; the daemon's status "error"
ends in the default branch (`monitor.go:103` looks for "err"), which ends the
monitor at once, without the clean-up of a failed download; a save may bring a
deleted row back; a download that a crash leaves in the daemon without a row
goes on there. `GetDownloadsByStatus`, which lists what to resume, drops its
error as well; a boot that resumes nothing is not modelled.

### Proofs

`Downloads_proofs`, for every number of downloads, handlers, retries and crashes:
`TypeCorrect`, `AlwaysMonitored`, `BatchBounded`. None is inductive. What keeps
a row from being resumed after its transfer, and the number of unfinished rows
from growing, is that a monitor saves nothing unfinished into a row that has
ended; the invariant (`Tracked`) therefore follows each row together with the
monitor's copy of it, and `Counted` counts the handlers that have passed the
check of the limit with the rows. What an administrator deleted before its end
may be saved again by its monitor (`Awaited`); `Counted`, like `BatchBound`,
leaves that out.

## Accounts and Shares

### What is modelled

`Accounts` is what requests do to the rows of users, groups and a storage
policy, to the sessions of browsers and to the policy cache: login in its steps
(captcha, password, second factor), registration, settings, credentials, the
storage counter, and the administration's edits, bans and deletions. `Shares`
extends it with one share, the marks by which a visitor is remembered (session,
cache), download links, and the file behind them.

A request works on *copies*: the session it has got as a whole and saves as a
whole, a row it read once and writes back as a whole (`SaveUser`), by column
(`Update`) or as one column that holds a JSON document (`UpdateOptions`,
`RegisterAuthn`). The model keeps, besides what is stored (`session`, `user`,
`share`), what was asked for (`askedSession`, `askedUser`, `askedShare`); `stale`
marks the copies that somebody has overtaken, `lost` what was overwritten from
such a copy.

| request | actions | code |
|---|---|---|
| site config, captcha | `CSRFInit`, `GetCaptcha` | `controllers/site.go` |
| login | `CaptchaRequired` → `Login` → `LoginSession`; `SecondFactor` → `SecondFactorSession`; `UserSignOut` | `UserLoginService.Login`, `Enable2FA`, middlewares |
| user | `Register`, `Enable2FA`, `UpdateOptions`, `RegisterAuthn`, `RemoveAuthn`, `ChangeStorage` | `service/user` |
| administration | `ReadUser` → `SaveUser`; `AddUser`, `Ban`, `DeleteUser`; `CountUsers` → `DeleteGroup`; `SavePolicy` → `CleanCache` | `service/admin` |
| policy | `GetPolicyByID` → `CachePolicy`, `Evict` | `models/policy.go` |
| share, owner | `FindSource` → `CreateShare`, `EditShare`, `DeleteShare`; `DeleteSource` → `DeleteShareBySourceIDs` | `service/share/manage.go`, `models/share.go` |
| share, visitor | `ShareAvailable` → `UnlockShare` / `CheckShareUnlocked` → `ChargeDownload` / `DownloadAgain` → `RememberDownload`; `ShowShare` | `middleware/share.go`, `service/share/visit.go` |
| link | `CreateDownloadSession`; `FindLink` → `ServeLink` | `service/explorer/file.go` |
| time | `Expire`, `ForgetUser`, `ForgetLink`, `ForgetSession` | TTL of the cache, the visitor's browser |

### Run

| run | instance | shows |
|---|---|---|
| Shares | 3 users (the initial one, a member with second factor, one to register), 3 groups, 2 browsers, 2 handlers, a limit up to 2, storage to 1, 2 versions of the policy | updates are lost only to a request that wrote from an older copy, and never a ban, a change of group, or what the owner sets on the share; the cached policy is old only if a lookup overtook the cleaning; a limited share is charged n(n+3)/2 times at most; a one-time link serves those who had looked it up |

`load` chooses what happens in one behaviour: the kinds of requests that touch a
row together (`OneBrowser`, `TwoBrowsers` in `MCShares`), twice or more of each,
in one browser or in two. A pair of requests that share no row, session or cache
entry needs no behaviour of its own. Two handlers make every pair.

What the code does not guarantee: an edit of a user by the administration
overwrites storage and settings from its copy; two requests of one browser lose
each other's session changes; a share's limit is not exact (`share.go:207` writes
an absolute counter); a deletion does not stop those who hold a copy of the share;
a share that is created while its source is deleted dangles (and is never
available); a policy put into the cache after `CleanCache` stays old until it is
evicted.

### Proofs

`Shares_proofs`, for every number of users, groups, browsers, requests, every
limit, and every set of loads: `TypeCorrect`, `UpdatesAreKept`,
`PoliciesAreFresh`, from an invariant whose heart is `Whole`: a copy that is not
marked as stale equals what it was copied from. An action changes the copies of
one request and marks those of the others, so the proof of each action looks at
one request (`Copies`, `Marks`) and a frame.

`CreditsAreBounded` adds `Budget`. With two handlers, a visitor with copy x can
take the counter back to x - 1 after everything below it has been charged; from
the two highest counts x and y among the row and the copies, x(x+1)/2 + y
more charges can be made, and 2 * charges + x(x+1) + 2y never exceeds n(n+3).
The bound is for two requests; a third copy could charge more. For links, those
who were served and those who have looked the link up are requests of the
behaviour (`Links`).

## MemLS, LockTable, LockNames

### What is modelled

`MemLS` is the in-memory lock system: `byName` with its reference counts,
`byToken`, the expiry queue and the token generator, in one variable `ls`; every
method runs under the mutex and is one step (`Create`, `Refresh`, `Unlock`,
`Confirm`, `Release`), each beginning with `CollectExpiredNodes` at the
time that its caller has read. Two callers' times are not ordered. The handlers
that would call it are commented out in `webdav.go`; the callers of the model are
any that keep to the interface. `LockTable` is what the interface promises: a
set of locks and a set of claims, without nodes, counters or queue. `LockNames`
holds what both are parameterised by: the resources, the collections above each
(`Up`), durations, bounds.

### Run

| run | instance | shows |
|---|---|---|
| Locks | a collection with two files, times 0 and 1, 3 tokens | the indexes agree, every call answers and leaves behind what the table prescribes, no resource is covered by two locks or claimed twice |

A collection and two files give locks above, below and beside each other; a
claim names one resource or two. No step depends on the last answer, so it
is not part of the VIEW; the files are interchangeable.

### Proofs

For every finite tree of resources, set of durations and number of tokens:

* `IndexesAgree`, and `Refinement` (`Spec => Promise`), one lemma per method on a
  state in its hands (`IndexOK(s)`), since each method first collects expired
  nodes. Sums of references are cardinalities of the sets of locked names whose
  walk to the root comes by (`Walks`).
* `TableExclusive` (`Promise => []Exclusive`), which speaks of the table of locks
  alone, from `TableInv`: tokens name one lock, locks do not conflict, what a
  claim names is covered by locks it holds and that no other claim holds. With
  `Refinement` it gives `LocksExclusive`.

## Webdav and the XML modules

### What is modelled

`Webdav` is the server on one account: `ServeHTTP` with authentication, prefix
and every method. PROPFIND is walked query by query (`Visit`, `ReadFiles`,
`WriteFails`, `Walk`, `Close`) with what it has answered so far; the other methods
take effect in one step, because `FolderTree` and `ObjectStore` have their
statements. Entries have the properties that were found and those that were
not, each as often as it was asked for; `Property` is the set of their names.

The tables hold a tree at the start (`IsTree`, `OldTree`): a removed row has
nothing in it, and every set of folders has a highest one, which excludes
cycles. `FolderTree` is about how moves and copies that meet may break this;
here they are one step each, and every step keeps it. Names are another matter:
no index keeps them unique (`models/folder.go:14` has misspelled tags that gorm
v2 ignores anyway), and none of `Folder.CopyFolderTo`, `MoveOrCopyFileTo`,
`MoveFolderTo` and `Rename` looks for the name, so a COPY or MOVE onto an
existing one leaves two rows of it. `First` then finds the row of the lowest key
(`Lowest`), for which rows have keys (`Id`). Folders and files have keys of
their own, so a file can have the key of a folder, and goes along when
`FileSystem.Move` moves the folder (`Along`, see Findings). `clash` remembers
for each walk whether two rows have shared a name in a folder since it began.

The XML modules are the pure part: `XmlTypes` (structure tags), `XmlReader` (the
decoder's tokens, namespaces and stack, `Unmarshal`, `readPropfind`,
`readProppatch`, `readLockInfo`), `XmlWriter` (the encoder, prefixes, the
multistatus writer). `XmlBodies` says what they should do on whole documents,
without decoder state: elements found by nesting, names by the declarations in
scope. A document is a sequence of lexical tokens; characters, entities and
escapes are left out. These functions are recursive, so there are no theorems
about them.

### Run

| run | instance | shows |
|---|---|---|
| Webdav | 3 requests; 5 folders and 3 files of which one each is to spare; the account may go; one failing query or write; documents of up to 3 elements below their root, whole, cut off and with a token missing | a PROPFIND lists every resource that stays exactly once below its folder, while others change the tree and make names clash, and no href twice as long as they do not clash; each property is reported as often as it was asked for (one of the bodies has `getetag` twice), and a PROPPATCH fails as a whole if one of its instructions is refused; names come out of the encoder as they went in; bodies are read as the comments of the code say, but for the departures below |

Three requests are a walk and two changes during it (one walk at a time,
`OneWalk`: two walks only read); the tree has a folder in a folder, with files in
both; each file has the key of the folder beside it. A spare row keeps its key
however often it is used, where the database would give a new one. The bodies of the requests are read from documents by the same operators
(`BodiesFromDocuments`, `PatchesFromDocuments`). A document arrives while no
request runs: reading one changes nothing else. Three elements are needed for a
declaration to be hidden and come back.

What the code does not guarantee: unique names, so a PROPFIND may list an href
twice after a COPY or MOVE onto it; `allprop` with `include` (the code passes
`pf.Prop`, so includes are ignored); a PROPPATCH answers 200 for dead
properties although none is stored; LOCK grants a lock to everybody and UNLOCK
answers 204 always; MOVE does not move files and COPY ignores the new name;
entries below a folder that moves during a PROPFIND may be listed at paths that
they never had; a failing query makes a shorter 207; an account whose root is
gone gets the user's.

`PropfindMeaning` and `ProppatchMeaning` are what the comments in `xml.go` say,
and the code departs from these in three places, which the run would report as
violations of `BodiesRead`; the property therefore leaves out the documents that
have one of them (`PropfindDeparts`, `ProppatchDeparts`), and no others:

* "It returns an error if start does not contain any properties" (`xml.go:141`,
  likewise 452): `len(*pn) == 0` (`xml.go:151`, `len(*ps) == 0` in line 463)
  counts the names of all `prop` elements read so far, so an empty one is accepted
  after another one of its kind (`EmptyAgain`);
* "The XML value of a property can be arbitrary, mixed-content XML" (`xml.go:417`):
  the loop stops at the first end tag with the name of the property, so a value
  with an element of that name is refused (`Unreadable`);
* the same for a value with an attribute `xmlns` that has a prefix, which the
  encoder refuses (`marshal.go:353`).

### Proofs

`Webdav_proofs`, for every finite tree, number of requests, set of bodies and
number of faults:

* `TypeCorrect`. `TypeOK` is not inductive: what a query found is put into `todo`
  as a sequence, and is one because a folder has finitely many folders
  (`Opened`).
* `AnswersAreOnce`. `AnsweredOnce` says what an answer is at the end of a walk, so
  the invariant (`IInv == TypeOK /\ IsTree(row) /\ \A r : ReqInv(row, req[r])`) says
  what a walk has still to do, an item of `todo` standing for all entries it may
  give (`Covers`):
  - as long as names do not clash, the hrefs of two items are different and none
    is in the answer (`Apart`, `HrefsOnce`): names differ within a folder at the
    time of its query, and paths are made of these, even when rows move later;
  - of what stayed, each row is in the answer or held by an item, and once only
    (`OnceOnly`, `NothingLeftOut`), below the entry of its folder (`BelowFolder`);
  - what stayed hangs together below the top (`Connected`), since a change takes all
    that is below a moved row from what stayed (`Off`); and no item leads back to
    the top (`NoReturn`).

  A step of the walk replaces its first item by others (`Replaces`, `Advances`), so
  that each part of the invariant has one lemma for all steps of a walk. For the
  requests that change the tree under it, the lemmas are about two trees, `rows`
  and `new`. Of an entry by itself (`EntryOK`), it is enough that `Kept` and `Left`
  split a list (`KeptOf`).

What is below a folder is the least set that has it and what is in its members,
not a recursion, and sequences made of sets are read through `SetAsSeq`: the
proofs need no induction over data. One fact about data is an assumption of the
module, which TLC evaluates on the bodies of the run: flattening the instructions
of a PROPPATCH gives a sequence of properties, and exactly those in them
(`WebdavBodies`; `FlattenSeq` of the library is recursive).

## What is proved, and what is only model-checked

The theorems hold for every value of the constants that satisfies the ASSUMEs
of the module, and use no other hypothesis than those named above and below.

| module | theorems | hypotheses |
|---|---|---|
| UploadSession_proofs | `TypeCorrect`, `SizesCharged`, `QuotaBounded`, `NamesBounded` | - |
| | `AccountingSerial` | no overlap, no failing commits |
| | `FinishedAreWhole` | no overlap, no failing commits, no disconnects |
| ObjectStore_proofs | `TypeCorrect` | - |
| | `ChargedAlways` | no overlap on one row |
| | `FilesAreIntact`, `OthersAreUntouched` | no overlap on one row, random names |
| Pools_proofs | `TasksTypeCorrect`, `TokensAreConserved`, `ImplementsQueue` | - |
| | `TypeCorrect`, `NeverReturns`, `StatusesAgree`, `OneLoopEach` | - (the latter two speak of `calm` behaviours) |
| Downloads_proofs | `TypeCorrect`, `AlwaysMonitored`, `BatchBounded` | - |
| Shares_proofs | `TypeCorrect`, `UpdatesAreKept`, `PoliciesAreFresh`, `CreditsAreBounded` | - |
| FolderTree_proofs | `TypeCorrect`, `RootedAlways`, `CopiesAreFaithful` | - (the latter two speak of `calm` behaviours, but for the root itself) |
| MemLS_proofs | `IndexesAgree`, `Refinement`, `TableExclusive`, `LocksExclusive` | - |
| Webdav_proofs | `TypeCorrect`, `AnswersAreOnce` | - |

Only model-checked:

* liveness under fairness, which TLAPS does not handle: `PlaceholderResolved`,
  `TaskEnds`, `EditsEnd`, `DownloadsEnd`, `RequestsEnd`;
* `NamesKept`, `BodiesRead`: recursion over documents, whose laws need induction
  over data.

## Findings

* `FolderMove`: a move of files leaves them where they are and reports success,
  because `FileSystem.Move` (`manage.go:338`) passes the ids of the folders where
  those of the files are meant; `pkg/webdav/file.go:25` says "moveFiles moves files
  and/or directories from src to dst".

## Assumptions about the outside

The database is modelled by the contract its callers rely on, see
`UploadSession`. gorm hooks (`AfterCreate` and the like) and preloading are
modelled as the code intends. The cache is a map whose entries may expire. The
daemon of aria2 answers what it likes. `service/admin/site.go:107` and
`routers/controllers/tag.go` do not compile, and the router registers two
administration routes twice, at which gin panics; the models take the handlers
as they are meant to be reached.

## Not modelled

* The slave side: `SendNotification` locks a mutex and releases it as a reader,
  which ends the process at the first notification; a slave controller whose
  protocol cannot run has no behaviour to check.
* The remote, COS and OneDrive drivers: calls of external services.
  `remoteClient.Upload` has no caller, and its HTTP client never makes a request.
  Chunk groups and retry are used by these only.
* Signing, serializers, conversions, mail, thumbnails, configuration: no control
  state. Archives are one step of a task.
* Inside modelled parts: If headers, ranges and contents in WebDAV; searches,
  lists and statistics; direct links; the master node and the authentication
  between nodes.

Each is a component of PROJECT.json with its reason.

## Limits

Every safety property of the runs is a theorem, but for the two about XML
documents. Liveness, and what the recursive readers and writers of XML make of a
document, hold for the instances that TLC explores. The theorems are about the
models, and so about the code as far as a definition says what its lines do;
what the models take from the outside is listed above.

--------------------------- MODULE UploadSession ---------------------------
(***************************************************************************)
(* Chunked uploads of one user to a local storage policy: the upload       *)
(* session in the cache, the placeholder row in the database, the physical *)
(* file on disk and the user's storage counter, worked on at the same time *)
(* by HTTP handlers and by the cron job that recycles abandoned sessions.  *)
(*                                                                         *)
(* Nothing in the code locks a file or a session: what a handler has read  *)
(* (user, session, row, directory entry) may be stale when it is used.     *)
(* Each action is one step that the database, the cache or the file system *)
(* makes atomic.                                                           *)
(***************************************************************************)
EXTENDS Integers, FiniteSets, Sequences

CONSTANTS
  FileId,       \* primary keys of the file rows, each handed out once
  Name,         \* object names inside the upload folder
  Req,          \* HTTP handlers that may be running at the same time
  Cron,         \* the cron job cron_recycle_upload_session
  NoName,       \* "no name" of a row that is not live
  NoFile,       \* "no such directory entry" on disk
  ChunkSize,    \* policy.OptionsSerialized.ChunkSize, 0 means one chunk
  FileSize,     \* size announced for each upload
  MaxStorage,   \* user.Group.MaxStorage
  Overlap,      \* requests about the same object may overlap
  Disconnects,  \* clients may drop the connection during a chunk
  IoFaults,     \* writes may be cut short and removals may fail
  DbFaults,     \* "exec": a statement may fail, "commit": a commit may fail
  Crashes       \* the server may crash and restart

ASSUME FileIdFinite == IsFiniteSet(FileId)
ASSUME ReqFinite == IsFiniteSet(Req) /\ Req # {} /\ Cron \notin Req
ASSUME SizesNat == ChunkSize \in Nat /\ FileSize \in Nat /\ MaxStorage \in Nat
ASSUME SwitchesOk ==
  /\ {Overlap, Disconnects, IoFaults, Crashes} \subseteq BOOLEAN
  /\ DbFaults \subseteq {"exec", "commit"}

VARIABLES
  rows,     \* table files: the row of each id
  storage,  \* users.storage, the user's used space
  cache,    \* ids whose upload session is in the cache
  disk,     \* content of the physical file of each id
  cancels,  \* truncations that CancelUpload goroutines still have to do
  reqs      \* progress and local variables of each handler

vars == <<rows, storage, cache, disk, cancels, reqs>>

Actor == Req \cup {Cron}

-----------------------------------------------------------------------------
(* Rows.  A "placeholder" is a row whose upload_session_id is not NULL; the *)
(* session key is a fresh UUID per placeholder, so the row's id stands for  *)
(* it.  The others are the files a user can see.                            *)

Row == [state : {"unborn", "placeholder", "finished", "gone"},
        name  : Name \cup {NoName},
        size  : 0..FileSize]

Blank == [state |-> "unborn", name |-> NoName, size |-> 0]
Gone  == [state |-> "gone", name |-> NoName, size |-> 0]

Placeholders == {f \in FileId : rows[f].state = "placeholder"}
Finished     == {f \in FileId : rows[f].state = "finished"}
Live         == Placeholders \cup Finished

(* The sum of size[s] over s \in S, counted block by block: one pair per    *)
(* unit of size.                                                            *)
Blocks(S, size) == {b \in S \X (1..FileSize) : b[2] <= size[b[1]]}
Total(S, size)  == Cardinality(Blocks(S, size))

SizeColumn(table) == [f \in FileId |-> table[f].size]
Used == Total(FileId, SizeColumn(rows))

-----------------------------------------------------------------------------
(* Chunk arithmetic of processChunkUpload, by the offset of a chunk.        *)

Offsets == IF ChunkSize = 0
             THEN {0}
             ELSE {o \in 0..FileSize : \E i \in 0..FileSize : o = i * ChunkSize}

(* Variant: the last chunk is taken to be as long as the others.            *)
ChunkLen_Full(o) == ChunkSize

IsLastChunk(o) == ChunkSize = 0 \/ o + ChunkSize >= FileSize
ChunkLen(o)    == IF IsLastChunk(o) THEN FileSize - o ELSE ChunkSize

(* user.GetRemainingCapacity on the copy of the user the handler holds.     *)
Remaining(used) == IF MaxStorage <= used THEN 0 ELSE MaxStorage - used

(* Bytes are named by the offset they belong to; 0 is a hole left when      *)
(* os.Truncate makes a file longer.                                         *)
Bytes(from, to) == [i \in 1..(to - from) |-> from + i]
Whole           == Bytes(0, FileSize)
Resize(data, n) == [i \in 1..n |-> IF i <= Len(data) THEN data[i] ELSE 0]

ASSUME NoFileDistinct == \A n \in 0..FileSize : NoFile # Bytes(0, n)

-----------------------------------------------------------------------------
(* Handlers.  "target" are the ids a handler works on, "seen" the rows as   *)
(* it read them, "used" its copy of user.Storage, "offset" AppendStart.     *)

Pc == {"idle", "check", "insert", "register",
       "load", "probe", "open", "write", "orphan", "size", "pop", "forget",
       "truncate", "shrink",
       "filter", "reread", "unlink", "commit"}

Handler == [pc     : Pc,
            target : SUBSET FileId,
            seen   : [FileId -> Row],
            name   : Name \cup {NoName},
            used   : Nat,
            offset : 0..FileSize,
            client : {"there", "left"}]

Idle == [pc |-> "idle", target |-> {}, seen |-> [f \in FileId |-> Blank],
         name |-> NoName, used |-> 0, offset |-> 0, client |-> "there"]

At(r, f, pc) == reqs[r].pc = pc /\ reqs[r].target = {f}
Goto(r, pc)  == reqs' = [reqs EXCEPT ![r].pc = pc]
Finish(r)    == reqs' = [reqs EXCEPT ![r] = Idle]

(* The rows of a set of ids, as a Find returns them.                        *)
Fetched(ids) == [f \in FileId |-> IF f \in ids THEN rows[f] ELSE Blank]

(* With Overlap = FALSE the environment never starts a request about an     *)
(* object that another one is still working on.  Sessions for one name may  *)
(* be created at the same time in any case: each gets a row of its own.     *)
Free(ids) == Overlap \/ \A r \in Actor : reqs[r].target \cap ids = {}

Init ==
  /\ rows = [f \in FileId |-> Blank]
  /\ storage = 0
  /\ cache = {}
  /\ disk = [f \in FileId |-> NoFile]
  /\ cancels = {}
  /\ reqs = [r \in Actor |-> Idle]

-----------------------------------------------------------------------------
(* PUT /file/upload: CreateUploadSession.                                   *)

(* The middleware loads the user, the first Upload runs HookValidateFile    *)
(* and HookValidateCapacity for the announced size.  The second one repeats *)
(* them on the same copy of the user.  A refused request changes nothing.   *)
CreateUploadSession(r, n) ==
  /\ reqs[r].pc = "idle"
  /\ Remaining(storage) >= FileSize
  /\ reqs' = [reqs EXCEPT ![r].pc = "check", ![r].name = n]
  /\ UNCHANGED <<rows, storage, cache, disk, cancels>>

(* Variant: the folder is not searched for the name.                        *)
CheckName_Skipped(r) ==
  /\ reqs[r].pc = "check"
  /\ Goto(r, "insert")
  /\ UNCHANGED <<rows, storage, cache, disk, cancels>>

(* GenericAfterUpload: ErrFileExisted or ErrFileUploadSessionExisted when   *)
(* the folder already has a child of that name.                             *)
CheckName(r) ==
  /\ reqs[r].pc = "check"
  /\ IF \E f \in Live : rows[f].name = reqs[r].name
       THEN Finish(r)
       ELSE Goto(r, "insert")
  /\ UNCHANGED <<rows, storage, cache, disk, cancels>>

(* AddFile and File.Create: the placeholder row, of size 0 because          *)
(* HookClearFileHeaderSize ran before (a local policy never keeps the size  *)
(* in the placeholder), and the storage counter, in one transaction.  The   *)
(* tag unique_index:idx_only_one of the column creates no index (gorm v2    *)
(* reads uniqueIndex, and migration.go creates none): a second row of the   *)
(* name is accepted.                                                        *)
InsertPlaceholder(r, f) ==
  /\ reqs[r].pc = "insert"
  /\ rows[f].state = "unborn"
  /\ rows' = [rows EXCEPT ![f] = [state |-> "placeholder", name |-> reqs[r].name,
                                  size |-> 0]]
  /\ reqs' = [reqs EXCEPT ![r].pc = "register", ![r].target = {f}]
  /\ UNCHANGED <<storage, cache, disk, cancels>>

(* The insert fails: a database error.                                      *)
InsertFails(r) ==
  /\ reqs[r].pc = "insert"
  /\ DbFaults # {}
  /\ Finish(r)
  /\ UNCHANGED <<rows, storage, cache, disk, cancels>>

(* cache.Set of the session, after the row is visible to everyone.          *)
RegisterSession(r, f) ==
  /\ At(r, f, "register")
  /\ cache' = cache \cup {f}
  /\ Finish(r)
  /\ UNCHANGED <<rows, storage, disk, cancels>>

-----------------------------------------------------------------------------
(* POST /file/upload/:sessionId/:index: LocalUpload of one chunk.           *)

(* The middleware loads the user, then the handler looks up the session;    *)
(* a request whose session is gone changes nothing.  The row is read later. *)
LocalUpload(r, f, o) ==
  /\ reqs[r].pc = "idle"
  /\ rows[f].state # "unborn"
  /\ f \in cache
  /\ Free({f})
  /\ reqs' = [reqs EXCEPT ![r].pc = "load", ![r].target = {f},
                          ![r].used = storage, ![r].offset = o]
  /\ UNCHANGED <<rows, storage, cache, disk, cancels>>

(* Variant: the capacity is not checked again for each chunk.               *)
ChunkAcceptable_NoQuota(r, f) ==
  f \in Placeholders /\ rows[f].size >= reqs[r].offset

(* The placeholder exists, the chunk does not leave a gap, and              *)
(* HookValidateCapacity accepts it.                                         *)
ChunkAcceptable(r, f) ==
  /\ f \in Placeholders
  /\ rows[f].size >= reqs[r].offset
  /\ Remaining(reqs[r].used) >= ChunkLen(reqs[r].offset)

AcceptChunk(r, f) ==
  /\ At(r, f, "load")
  /\ ChunkAcceptable(r, f)
  /\ reqs' = [reqs EXCEPT ![r].seen = Fetched({f}),
                          ![r].used = 0,
                          ![r].pc = IF reqs[r].offset = 0 THEN "probe" ELSE "open"]
  /\ UNCHANGED <<rows, storage, cache, disk, cancels>>

RejectChunk(r, f) ==
  /\ At(r, f, "load")
  /\ ~ChunkAcceptable(r, f) \/ DbFaults # {}
  /\ Finish(r)
  /\ UNCHANGED <<rows, storage, cache, disk, cancels>>

(* local.Driver.Put without the Overwrite flag, which only chunks after the *)
(* first one carry: refused if the physical file is there.                  *)
ProbeFile(r, f) ==
  /\ At(r, f, "probe")
  /\ IF disk[f] = NoFile THEN Goto(r, "open") ELSE Finish(r)
  /\ UNCHANGED <<rows, storage, cache, disk, cancels>>

(* OpenFile creates the file, Stat decides.  Too short: refused.  Too long: *)
(* truncated and reopened, but the handle io.Copy then uses is the one that *)
(* was closed, so only an empty chunk gets through.                         *)
OpenFile(r, f) ==
  LET data  == IF disk[f] = NoFile THEN <<>> ELSE disk[f]
      start == reqs[r].offset
  IN  /\ At(r, f, "open")
      /\ \/ /\ Len(data) < start
            /\ disk' = [disk EXCEPT ![f] = data]
            /\ Finish(r)
         \/ /\ Len(data) = start
            /\ disk' = [disk EXCEPT ![f] = data]
            /\ Goto(r, "write")
         \/ /\ Len(data) > start
            /\ disk' = [disk EXCEPT ![f] = Resize(data, start)]
            /\ IF ChunkLen(start) = 0 THEN Goto(r, "size") ELSE Finish(r)
      /\ UNCHANGED <<rows, storage, cache, cancels>>

(* io.Copy appends the body, whatever has become of the end of the file     *)
(* since Stat; a body cut short is an error and leaves what was written.    *)
WriteChunk(r, f) ==
  LET start == reqs[r].offset
      Put(n) == disk' = [disk EXCEPT
                     ![f] = IF @ = NoFile THEN NoFile ELSE @ \o Bytes(start, start + n)]
  IN  /\ At(r, f, "write")
      /\ \/ Put(ChunkLen(start)) /\ Goto(r, "size")
         \/ /\ IoFaults
            /\ \E n \in 0..(ChunkLen(start) - 1) : Put(n)
            /\ Finish(r)
      /\ UNCHANGED <<rows, storage, cache, cancels>>

(* The same when the directory entry was removed after the file was opened. *)
WriteUnlinked(r, f) ==
  /\ At(r, f, "orphan")
  /\ Goto(r, "size") \/ (IoFaults /\ ChunkLen(reqs[r].offset) > 0 /\ Finish(r))
  /\ UNCHANGED <<rows, storage, cache, disk, cancels>>

(* File.UpdateSize: the row is matched by id and by the size it was read    *)
(* with, the storage counter moves by the difference in any case; a counter *)
(* below zero is refused by the unsigned column.                            *)
Matches(f, old) == f \in Live /\ rows[f].size = old

UpdateSize(f, old, new) ==
  /\ storage + new >= old
  /\ storage' = storage + new - old
  /\ rows' = IF Matches(f, old) THEN [rows EXCEPT ![f].size = new] ELSE rows

RollbackSize(old, new) ==
  /\ "exec" \in DbFaults \/ storage + new < old
  /\ UNCHANGED <<rows, storage>>

(* The commit fails after file.Size has already been assigned.              *)
LoseSize(old, new) ==
  /\ "commit" \in DbFaults
  /\ storage + new >= old
  /\ UNCHANGED <<rows, storage>>

(* HookChunkUploaded.                                                       *)
HookChunkUploaded(r, f) ==
  LET old == reqs[r].seen[f].size
      new == reqs[r].offset + ChunkLen(reqs[r].offset)
      Seen(pc) == reqs' = [reqs EXCEPT ![r].pc = pc, ![r].seen[f].size = new]
  IN  /\ At(r, f, "size")
      /\ \/ /\ UpdateSize(f, old, new)
            /\ IF IsLastChunk(reqs[r].offset) THEN Seen("pop") ELSE Finish(r)
         \/ RollbackSize(old, new) /\ Goto(r, "truncate")
         \/ LoseSize(old, new) /\ Seen("truncate")
      /\ UNCHANGED <<cache, disk, cancels>>

(* HookPopPlaceholderToFile: clears upload_session_id, by id only.          *)
PopPlaceholder(r, f) ==
  /\ At(r, f, "pop")
  /\ \/ /\ rows' = IF f \in Live THEN [rows EXCEPT ![f].state = "finished"] ELSE rows
        /\ Goto(r, "forget")
     \/ DbFaults # {} /\ Goto(r, "truncate") /\ UNCHANGED rows
  /\ UNCHANGED <<storage, cache, disk, cancels>>

(* HookDeleteUploadSession.                                                 *)
ForgetSession(r, f) ==
  /\ At(r, f, "forget")
  /\ cache' = cache \ {f}
  /\ Finish(r)
  /\ UNCHANGED <<rows, storage, disk, cancels>>

(* AfterValidateFailed, first hook: HookTruncateFileTo(AppendStart).  An    *)
(* error stops the list of hooks.                                           *)
TruncateFailedChunk(r, f) ==
  /\ At(r, f, "truncate")
  /\ IF disk[f] = NoFile
       THEN Finish(r) /\ UNCHANGED disk
       ELSE /\ disk' = [disk EXCEPT ![f] = Resize(@, reqs[r].offset)]
            /\ Goto(r, "shrink")
  /\ UNCHANGED <<rows, storage, cache, cancels>>

(* Second hook, HookChunkUploadFailed: UpdateSize(AppendStart).             *)
HookChunkUploadFailed(r, f) ==
  LET old == reqs[r].seen[f].size
      new == reqs[r].offset
  IN  /\ At(r, f, "shrink")
      /\ UpdateSize(f, old, new) \/ RollbackSize(old, new) \/ LoseSize(old, new)
      /\ Finish(r)
      /\ UNCHANGED <<cache, disk, cancels>>

(* CancelUpload: the client goes away before the handler has returned; the  *)
(* goroutine truncates the file by path, at its own pace.                   *)
ClientLeaves(r, f) ==
  /\ Disconnects
  /\ reqs[r].client = "there"
  /\ reqs[r].target = {f}
  /\ reqs[r].pc \in {"probe", "open", "write", "orphan", "size", "pop",
                     "forget", "truncate", "shrink"}
  /\ cancels' = cancels \cup {<<f, reqs[r].offset>>}
  /\ reqs' = [reqs EXCEPT ![r].client = "left"]
  /\ UNCHANGED <<rows, storage, cache, disk>>

CancelUpload(c) ==
  /\ c \in cancels
  /\ cancels' = cancels \ {c}
  /\ disk' = [disk EXCEPT ![c[1]] = IF @ = NoFile THEN NoFile ELSE Resize(@, c[2])]
  /\ UNCHANGED <<rows, storage, cache, reqs>>

-----------------------------------------------------------------------------
(* FileSystem.Delete of files, called by the user's requests (an object, an *)
(* upload session, all upload sessions) and by the cron job.                *)

(* ListDeleteFiles reads the rows.                                          *)
Delete(r, ids) ==
  /\ reqs[r].pc = "idle"
  /\ ids # {}
  /\ ids \subseteq Live
  /\ Free(ids)
  /\ reqs' = [reqs EXCEPT ![r].pc = "unlink", ![r].target = ids,
                          ![r].seen = Fetched(ids)]
  /\ UNCHANGED <<rows, storage, cache, disk, cancels>>

(* A handler that has a removed file open keeps writing to nowhere.         *)
Detached(q, ids) ==
  IF reqs[q].pc = "write" /\ reqs[q].target \subseteq ids
    THEN [reqs[q] EXCEPT !.pc = "orphan"]
    ELSE reqs[q]

(* Remove the physical files of the targets but for the failed ones, and    *)
(* keep a set of rows to be deleted.                                        *)
Unlink(r, failed, kept) ==
  LET removed == reqs[r].target \ failed
  IN  /\ reqs[r].pc = "unlink"
      /\ failed \subseteq {f \in reqs[r].target : disk[f] # NoFile}
      /\ failed # {} => IoFaults
      /\ cache' = cache \ {f \in reqs[r].target : reqs[r].seen[f].state = "placeholder"}
      /\ disk' = [f \in FileId |-> IF f \in removed THEN NoFile ELSE disk[f]]
      /\ reqs' = [q \in Actor |->
                    IF q = r
                      THEN [reqs[r] EXCEPT !.pc = "commit", !.target = kept]
                      ELSE Detached(q, removed)]
      /\ UNCHANGED <<rows, storage, cancels>>

(* Variant: rows whose file is still there go too.                          *)
DeleteGroupedFile_Forced(r, failed) == Unlink(r, failed, reqs[r].target)

(* deleteGroupedFile: the sessions of the placeholders leave the cache, the *)
(* physical files are removed; the rows of those that could not be stay.    *)
DeleteGroupedFile(r, failed) == Unlink(r, failed, reqs[r].target \ failed)

(* models.DeleteFiles, one transaction: every row must still be there with  *)
(* the size it was read with ("file size is dirty"), and the counter goes   *)
(* down by the sum of those sizes.                                          *)
SeenTotal(r) == Total(FileId, [f \in FileId |-> IF f \in reqs[r].target
                                                  THEN reqs[r].seen[f].size ELSE 0])

(* Variant: without "size = ?".                                             *)
Deletable_AnySize(r) ==
  reqs[r].target \subseteq Live /\ storage >= SeenTotal(r)

Deletable(r) ==
  /\ \A f \in reqs[r].target : Matches(f, reqs[r].seen[f].size)
  /\ storage >= SeenTotal(r)

(* Variant: the space of the deleted rows is not given back.                *)
DeleteFiles_NoRefund(r) ==
  /\ reqs[r].pc = "commit"
  /\ Deletable(r)
  /\ rows' = [f \in FileId |-> IF f \in reqs[r].target THEN Gone ELSE rows[f]]
  /\ Finish(r)
  /\ UNCHANGED <<storage, cache, disk, cancels>>

DeleteFiles(r) ==
  /\ reqs[r].pc = "commit"
  /\ Deletable(r)
  /\ rows' = [f \in FileId |-> IF f \in reqs[r].target THEN Gone ELSE rows[f]]
  /\ storage' = storage - SeenTotal(r)
  /\ Finish(r)
  /\ UNCHANGED <<cache, disk, cancels>>

DeleteFilesRollback(r) ==
  /\ reqs[r].pc = "commit"
  /\ ~Deletable(r) \/ DbFaults # {}
  /\ Finish(r)
  /\ UNCHANGED <<rows, storage, cache, disk, cancels>>

-----------------------------------------------------------------------------
(* cron_recycle_upload_session: uploadSessionCollect.                       *)

(* GetUploadPlaceholderFiles.                                               *)
ListPlaceholders ==
  /\ reqs[Cron].pc = "idle"
  /\ Placeholders # {}
  /\ Free(Placeholders)
  /\ reqs' = [reqs EXCEPT ![Cron].pc = "filter", ![Cron].target = Placeholders]
  /\ UNCHANGED <<rows, storage, cache, disk, cancels>>

(* Variant: those whose session is gone are skipped.                        *)
SkipLiveSessions_Inverted ==
  /\ reqs[Cron].pc = "filter"
  /\ IF reqs[Cron].target \cap cache = {}
       THEN Finish(Cron)
       ELSE reqs' = [reqs EXCEPT ![Cron].pc = "reread",
                                 ![Cron].target = @ \cap cache]
  /\ UNCHANGED <<rows, storage, cache, disk, cancels>>

(* Those whose session is still cached are skipped.                         *)
SkipLiveSessions ==
  /\ reqs[Cron].pc = "filter"
  /\ IF reqs[Cron].target \subseteq cache
       THEN Finish(Cron)
       ELSE reqs' = [reqs EXCEPT ![Cron].pc = "reread",
                                 ![Cron].target = @ \ cache]
  /\ UNCHANGED <<rows, storage, cache, disk, cancels>>

(* fs.Delete of the others by id: ListDeleteFiles reads the rows again,     *)
(* whatever they are by now.                                                *)
RereadPlaceholders ==
  /\ reqs[Cron].pc = "reread"
  /\ LET ids == reqs[Cron].target \cap Live
     IN  reqs' = [reqs EXCEPT ![Cron].pc = "unlink", ![Cron].target = ids,
                              ![Cron].seen = Fetched(ids)]
  /\ UNCHANGED <<rows, storage, cache, disk, cancels>>

-----------------------------------------------------------------------------
(* The TTL upload_session_timeout runs out.                                 *)
ExpireSession(f) ==
  /\ f \in cache
  /\ cache' = cache \ {f}
  /\ UNCHANGED <<rows, storage, disk, cancels, reqs>>

(* The server goes down; the in-memory cache is lost, a Redis one is not.   *)
Crash ==
  /\ Crashes
  /\ reqs' = [r \in Actor |-> Idle]
  /\ cancels' = {}
  /\ cache' \in {{}, cache}
  /\ UNCHANGED <<rows, storage, disk>>

-----------------------------------------------------------------------------
(* A step of a handler that has started.                                    *)
ChunkStep(r, f) ==
  \/ AcceptChunk(r, f) \/ RejectChunk(r, f) \/ ProbeFile(r, f)
  \/ OpenFile(r, f) \/ WriteChunk(r, f) \/ WriteUnlinked(r, f)
  \/ HookChunkUploaded(r, f) \/ PopPlaceholder(r, f) \/ ForgetSession(r, f)
  \/ TruncateFailedChunk(r, f) \/ HookChunkUploadFailed(r, f)

CreateStep(r) ==
  \/ CheckName(r) \/ InsertFails(r)
  \/ \E f \in FileId : InsertPlaceholder(r, f) \/ RegisterSession(r, f)

DeleteStep(r) ==
  \/ \E failed \in SUBSET FileId : DeleteGroupedFile(r, failed)
  \/ DeleteFiles(r) \/ DeleteFilesRollback(r)

CronStep == SkipLiveSessions \/ RereadPlaceholders \/ DeleteStep(Cron)

HandlerStep(r) == CreateStep(r) \/ DeleteStep(r) \/ \E f \in FileId : ChunkStep(r, f)

(* A request arrives.                                                       *)
Arrival(r) ==
  \/ \E n \in Name : CreateUploadSession(r, n)
  \/ \E f \in FileId, o \in Offsets : LocalUpload(r, f, o)
  \/ \E ids \in SUBSET FileId : Delete(r, ids)

Next ==
  \/ \E r \in Req : Arrival(r) \/ HandlerStep(r) \/ \E f \in FileId : ClientLeaves(r, f)
  \/ ListPlaceholders \/ CronStep
  \/ \E c \in cancels : CancelUpload(c)
  \/ \E f \in FileId : ExpireSession(f)
  \/ Crash

Spec == Init /\ [][Next]_vars

(* Goroutines that were started run on, the cron job is fired again and     *)
(* again, and a TTL runs out.                                               *)
Fairness ==
  /\ \A r \in Req : WF_vars(HandlerStep(r))
  /\ WF_vars(ListPlaceholders) /\ WF_vars(CronStep)
  /\ \A f \in FileId : WF_vars(ExpireSession(f))

FairSpec == Spec /\ Fairness

-----------------------------------------------------------------------------
TypeOK ==
  /\ rows \in [FileId -> Row]
  /\ storage \in Nat
  /\ cache \subseteq FileId
  /\ disk \in [FileId -> Seq(0..FileSize) \cup {NoFile}]
  /\ cancels \subseteq FileId \X (0..FileSize)
  /\ reqs \in [Actor -> Handler]

(* The storage counter is the sum of the sizes of the user's rows, as       *)
(* Create, UpdateSize and DeleteFiles mean to keep it by changing both in   *)
(* one transaction.                                                         *)
Accounting == storage = Used

(* Whatever changes the sizes in the table changes the counter by as much   *)
(* in the same step, however stale the handler's copy of the row is: the    *)
(* "size = ?" conditions of UpdateSize and DeleteFiles.                     *)
SizesAreCharged ==
  [][Used' # Used => storage' - storage = Used' - Used]_vars

(* HookValidateCapacity looks at a copy of the user: the quota can be       *)
(* exceeded, but only by what the other handlers let through on a copy as   *)
(* stale, one chunk each.                                                   *)
LargestChunk == IF ChunkSize = 0 \/ ChunkSize > FileSize THEN FileSize ELSE ChunkSize
QuotaBound == storage <= MaxStorage + (Cardinality(Req) - 1) * LargestChunk

(* A file that is no longer a placeholder has the announced size, and its   *)
(* physical file, unless deleted, holds every byte at its place: chunk      *)
(* order checks, truncation of fragments, retries.  No physical file        *)
(* outlives its row: nothing would ever remove it.                          *)
FinishedIntact ==
  /\ \A f \in Finished : rows[f].size = FileSize /\ disk[f] \in {Whole, NoFile}
  /\ \A f \in FileId : disk[f] # NoFile => f \in Live

(* GenericAfterUpload looks for the name and AddFile inserts it later, with *)
(* nothing between them that keeps other handlers out: rows of one name in  *)
(* one folder are possible, but never more than handlers run at once,       *)
(* however they interleave with each other and with deletes.                *)
Named(n)     == {f \in Live : rows[f].name = n}
NamesBound   == \A n \in Name : Cardinality(Named(n)) <= Cardinality(Req)

(* An abandoned placeholder does not stay: it is finished or collected,     *)
(* unless stale updates have pushed the counter below the sum of the sizes, *)
(* so that the unsigned column refuses every delete.                        *)
PlaceholderResolved ==
  \A f \in FileId : f \in Placeholders ~> f \notin Placeholders \/ storage < Used
=============================================================================

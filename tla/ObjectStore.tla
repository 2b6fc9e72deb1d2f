---------------------------- MODULE ObjectStore ----------------------------
(***************************************************************************)
(* Complete files of one user and the physical files behind them.  A copy  *)
(* is a soft link: a second row with the same source_name.  Uploads,       *)
(* overwrites, copies, renamings and deletions run as HTTP handlers at the *)
(* same time; RemoveFilesWithSoftLinks is the only thing that keeps one    *)
(* row's handler from the physical file of another row.                    *)
(*                                                                         *)
(* Each action is one step that the database or the file system makes      *)
(* atomic.  Upload sessions are in module UploadSession.                   *)
(***************************************************************************)
EXTENDS Integers, FiniteSets

CONSTANTS
  FileId,       \* primary keys of the file rows, each handed out once
  Path,         \* virtual paths (folder and name)
  Key,          \* physical names made by FileNameRule from random keys
  Req,          \* HTTP handlers that may be running at the same time
  NoPath,       \* "no path" of a row that is not live
  NoFile,       \* "no such directory entry" on disk
  MaxSize,      \* bound of the sizes that are uploaded
  MaxStorage,   \* user.Group.MaxStorage
  AutoRename,   \* policy.AutoRename: physical names are random
  Overlap       \* requests about the same row or path may overlap

ASSUME FileIdFinite == IsFiniteSet(FileId)
ASSUME SizesNat == MaxSize \in Nat /\ MaxStorage \in Nat
ASSUME SwitchesOk == {AutoRename, Overlap} \subseteq BOOLEAN
ASSUME NullsOk ==
  NoPath \notin Path \cup Key /\ NoFile \notin Nat /\ Path \cap Key = {}

VARIABLES
  rows,     \* table files
  storage,  \* users.storage
  disk,     \* length of each physical file
  reqs,     \* progress and local variables of each handler
  fault     \* chosen once: what may fail, any number of times

vars == <<rows, storage, disk, reqs, fault>>

Source == Path \cup Key

-----------------------------------------------------------------------------
Row == [state : {"unborn", "live", "gone"},
        path  : Path \cup {NoPath},
        src   : Source \cup {NoPath},
        size  : 0..MaxSize]

Blank == [state |-> "unborn", path |-> NoPath, src |-> NoPath, size |-> 0]
Gone  == [Blank EXCEPT !.state = "gone"]

Live == {f \in FileId : rows[f].state = "live"}

(* The sum of size[s] over s \in S, counted block by block: one pair per    *)
(* unit of size.                                                            *)
Blocks(S, size) == {b \in S \X (1..MaxSize) : b[2] <= size[b[1]]}
Total(S, size)  == Cardinality(Blocks(S, size))

SizeColumn(table) == [f \in FileId |-> table[f].size]
Used == Total(FileId, SizeColumn(rows))

Remaining == IF MaxStorage <= storage THEN 0 ELSE MaxStorage - storage

-----------------------------------------------------------------------------
(* Handlers.  "target" are the rows a handler works on and "seen" what it   *)
(* read of them; "todo" are those it still has to copy or to unlink; "src"  *)
(* and "size" describe the physical file it writes; "link" says that the    *)
(* row is moved to a fresh one.                                             *)
Pc == {"idle", "links", "probe", "write", "check", "insert", "discard",
       "discardAgain", "relink", "resize", "relinkAgain", "clean", "clear",
       "copy", "filter", "unlink", "commit"}

Handler == [pc     : Pc,
            target : SUBSET FileId,
            todo   : SUBSET FileId,
            seen   : [FileId -> Row],
            path   : Path \cup {NoPath},
            src    : Source \cup {NoPath},
            size   : 0..MaxSize,
            mode   : {"create", "overwrite", "force"},
            link   : {"own", "fresh"}]

Idle == [pc |-> "idle", target |-> {}, todo |-> {},
         seen |-> [f \in FileId |-> Blank], path |-> NoPath, src |-> NoPath,
         size |-> 0, mode |-> "create", link |-> "own"]

Goto(r, pc) == reqs' = [reqs EXCEPT ![r].pc = pc]
Finish(r)   == reqs' = [reqs EXCEPT ![r] = Idle]

Fetched(ids) == [f \in FileId |-> IF f \in ids THEN rows[f] ELSE Blank]

(* With Overlap = FALSE the environment never starts a request about a row  *)
(* or a path that another one is still working on.  Rows that share a       *)
(* physical file are different rows.                                        *)
Free(ids)   == Overlap \/ \A r \in Req : reqs[r].target \cap ids = {}
PathFree(p) == Overlap \/ \A r \in Req : reqs[r].path # p

(* FileSystem.GenerateSavePath: a name nobody has seen yet, or the virtual  *)
(* path itself.                                                             *)
Mentioned(s) ==
  \/ disk[s] # NoFile
  \/ \E f \in FileId : rows[f].src = s
  \/ \E r \in Req : reqs[r].src = s \/ \E f \in FileId : reqs[r].seen[f].src = s

GenerateSavePath(p) == IF AutoRename THEN {k \in Key : ~Mentioned(k)} ELSE {p}

(* Nothing, removals, writes cut short, inserts, the soft link queries,     *)
(* updates and their transactions, or the server.                           *)
Fault == {"none", "remove", "write", "insert", "links", "update", "crash"}
Calm  == fault \in {"none", "remove"}

Init ==
  /\ rows = [f \in FileId |-> Blank]
  /\ storage = 0
  /\ disk = [s \in Source |-> NoFile]
  /\ reqs = [r \in Req |-> Idle]
  /\ fault \in Fault

-----------------------------------------------------------------------------
(* UploadFromStream and the first branch of WebDAV's handlePut: a new file. *)

(* BeforeUpload on the user the middleware has loaded, then GenerateSavePath.*)
UploadNew(r, p, n) ==
  /\ reqs[r].pc = "idle"
  /\ PathFree(p)
  /\ Remaining >= n
  /\ \E s \in GenerateSavePath(p) :
       reqs' = [reqs EXCEPT ![r] = [Idle EXCEPT !.pc = "probe", !.path = p,
                                                !.src = s, !.size = n]]
  /\ UNCHANGED <<rows, storage, disk>>

(* Driver.Put refuses a physical file that is there, unless it is to be     *)
(* overwritten.  AfterUploadFailed has no hooks: nothing is undone.         *)
ProbeFile(r) ==
  /\ reqs[r].pc = "probe"
  /\ IF reqs[r].mode = "create" /\ disk[reqs[r].src] # NoFile
       THEN Finish(r)
       ELSE Goto(r, "write")
  /\ UNCHANGED <<rows, storage, disk>>

(* Driver.Put: O_CREATE, O_TRUNC and io.Copy.  A body cut short is an error *)
(* and leaves what was written.                                             *)
AfterPut(r) == IF reqs[r].target = {} THEN "check"
               ELSE IF reqs[r].link = "fresh" THEN "relink" ELSE "resize"

WriteFile(r) ==
  /\ reqs[r].pc = "write"
  /\ \/ /\ disk' = [disk EXCEPT ![reqs[r].src] = reqs[r].size]
        /\ Goto(r, AfterPut(r))
     \/ /\ fault = "write"
        /\ \E n \in 0..(reqs[r].size - 1) : disk' = [disk EXCEPT ![reqs[r].src] = n]
        /\ Finish(r)
  /\ UNCHANGED <<rows, storage>>

(* GenericAfterUpload: the name is searched after the content was written.  *)
CheckName(r) ==
  /\ reqs[r].pc = "check"
  /\ Goto(r, IF \E f \in Live : rows[f].path = reqs[r].path
               THEN "discardAgain" ELSE "insert")
  /\ UNCHANGED <<rows, storage, disk>>

(* File.Create: the row and the counter in one transaction.  The unique     *)
(* index that the tags of File declare is not created (see the README).     *)
InsertFile(r, f) ==
  /\ reqs[r].pc = "insert"
  /\ rows[f].state = "unborn"
  /\ rows' = [rows EXCEPT ![f] = [state |-> "live", path |-> reqs[r].path,
                                  src |-> reqs[r].src, size |-> reqs[r].size]]
  /\ storage' = storage + reqs[r].size
  /\ Finish(r)
  /\ UNCHANGED disk

AddFileFails(r) ==
  /\ reqs[r].pc = "insert"
  /\ fault = "insert"
  /\ Goto(r, "discard")
  /\ UNCHANGED <<rows, storage, disk>>

(* AfterValidateFailed, HookDeleteTempFile: triggered by AddFile and once   *)
(* more by Upload when AddFile has failed.                                  *)
DiscardFile(r) ==
  /\ reqs[r].pc \in {"discard", "discardAgain"}
  /\ \/ disk' = [disk EXCEPT ![reqs[r].src] = NoFile]
     \/ fault = "remove" /\ UNCHANGED disk
  /\ IF reqs[r].pc = "discard" THEN Goto(r, "discardAgain") ELSE Finish(r)
  /\ UNCHANGED <<rows, storage>>

-----------------------------------------------------------------------------
(* PutContent ("create" a fresh file if there are soft links) and the other *)
(* branch of handlePut ("overwrite" in any case).                           *)

(* Middleware, GetFilesByIDs or IsFileExist, and HookValidateCapacityDiff,  *)
(* which looks at what was read here.                                       *)
OverwriteFile(r, f, n, mode) ==
  /\ reqs[r].pc = "idle"
  /\ f \in Live
  /\ Free({f})
  /\ n > rows[f].size => Remaining >= n
  /\ reqs' = [reqs EXCEPT ![r] = [Idle EXCEPT !.pc = "links", !.target = {f},
                                   !.seen = Fetched({f}), !.size = n, !.mode = mode]]
  /\ UNCHANGED <<rows, storage, disk>>

(* Variant: soft links are not looked for.                                  *)
FindLinks_Never(r, f) ==
  /\ reqs[r].pc = "links"
  /\ reqs[r].target = {f}
  /\ reqs' = [reqs EXCEPT ![r].pc = "probe", ![r].src = reqs[r].seen[f].src,
                          ![r].mode = "overwrite"]
  /\ UNCHANGED <<rows, storage, disk>>

(* RemoveFilesWithSoftLinks of the row: other rows with its source_name.    *)
(* An error of the query counts as "no soft links".  PutContent passes no   *)
(* virtual path to GenerateSavePath, so its path is another one.            *)
HasSoftLinks(r, f) == \E g \in Live \ {f} : rows[g].src = reqs[r].seen[f].src

FindLinks(r, f) ==
  /\ reqs[r].pc = "links"
  /\ reqs[r].target = {f}
  /\ \/ /\ HasSoftLinks(r, f)
        /\ \E p \in IF reqs[r].mode = "create" THEN Path ELSE {reqs[r].seen[f].path} :
             \E s \in GenerateSavePath(p) :
               reqs' = [reqs EXCEPT ![r].pc = "probe", ![r].src = s,
                                    ![r].link = "fresh"]
     \/ /\ ~HasSoftLinks(r, f) \/ fault = "links"
        /\ reqs' = [reqs EXCEPT ![r].pc = "probe", ![r].src = reqs[r].seen[f].src,
                                ![r].mode = "overwrite"]
  /\ UNCHANGED <<rows, storage, disk>>

(* HookUpdateSourceName, by id only; an error of it stops the hooks.        *)
UpdateSourceName(r, f) ==
  rows' = IF f \in Live THEN [rows EXCEPT ![f].src = reqs[r].src] ELSE rows

RelinkFile(r, f) ==
  /\ reqs[r].pc = "relink"
  /\ reqs[r].target = {f}
  /\ \/ UpdateSourceName(r, f) /\ Goto(r, "resize")
     \/ fault = "update" /\ Goto(r, "relinkAgain") /\ UNCHANGED rows
  /\ UNCHANGED <<storage, disk>>

(* File.UpdateSize: the row is matched by id and the size it was read with, *)
(* the counter moves by the difference in any case.                         *)
Matches(f, old) == f \in Live /\ rows[f].size = old

UpdateSize(f, old, new) ==
  /\ storage + new >= old
  /\ storage' = storage + new - old
  /\ rows' = IF Matches(f, old) THEN [rows EXCEPT ![f].size = new] ELSE rows

RollbackSize(old, new) ==
  /\ fault = "update" \/ storage + new < old
  /\ UNCHANGED <<rows, storage>>

(* GenericAfterUpdate.                                                      *)
GenericAfterUpdate(r, f) ==
  LET old == reqs[r].seen[f].size
  IN  /\ reqs[r].pc = "resize"
      /\ reqs[r].target = {f}
      /\ \/ UpdateSize(f, old, reqs[r].size) /\ Finish(r)
         \/ /\ RollbackSize(old, reqs[r].size)
            /\ Goto(r, IF reqs[r].link = "fresh" THEN "relinkAgain" ELSE "clean")
      /\ UNCHANGED disk

(* AfterValidateFailed: the source_name once more, ...                      *)
RelinkAgain(r, f) ==
  /\ reqs[r].pc = "relinkAgain"
  /\ reqs[r].target = {f}
  /\ \/ UpdateSourceName(r, f) /\ Goto(r, "clean")
     \/ fault = "update" /\ Finish(r) /\ UNCHANGED rows
  /\ UNCHANGED <<storage, disk>>

(* ... HookCleanFileContent, which creates the file if it has gone, ...     *)
CleanContent(r) ==
  /\ reqs[r].pc = "clean"
  /\ disk' = [disk EXCEPT ![reqs[r].src] = 0]
  /\ Goto(r, "clear")
  /\ UNCHANGED <<rows, storage>>

(* ... and HookClearFileSize on the copy of the row in the context.         *)
ClearFileSize(r, f) ==
  LET old == reqs[r].seen[f].size
  IN  /\ reqs[r].pc = "clear"
      /\ reqs[r].target = {f}
      /\ UpdateSize(f, old, 0) \/ RollbackSize(old, 0)
      /\ Finish(r)
      /\ UNCHANGED disk

-----------------------------------------------------------------------------
(* FileSystem.Copy: one file, or the files of a folder.                     *)

Copy(r, ids) ==
  /\ reqs[r].pc = "idle"
  /\ ids # {} /\ ids \subseteq Live
  /\ Free(ids)
  /\ reqs' = [reqs EXCEPT ![r] = [Idle EXCEPT !.pc = "copy", !.target = ids,
                                   !.todo = ids, !.seen = Fetched(ids)]]
  /\ UNCHANGED <<rows, storage, disk>>

(* Db.Create of one soft link; it is not charged yet.                       *)
CopyFile(r, f, g, p) ==
  /\ reqs[r].pc = "copy"
  /\ f \in reqs[r].todo
  /\ rows[g].state = "unborn"
  /\ rows' = [rows EXCEPT ![g] = [reqs[r].seen[f] EXCEPT !.path = p]]
  /\ reqs' = [reqs EXCEPT ![r].todo = @ \ {f}]
  /\ UNCHANGED <<storage, disk>>

(* An insert fails: the links made so far stay, uncharged.                  *)
CopyFails(r) ==
  /\ reqs[r].pc = "copy"
  /\ reqs[r].todo # {}
  /\ fault = "insert"
  /\ Finish(r)
  /\ UNCHANGED <<rows, storage, disk>>

SeenTotal(r, ids) ==
  Total(FileId, [f \in FileId |-> IF f \in ids THEN reqs[r].seen[f].size ELSE 0])

(* IncreaseStorageWithoutCheck: no quota, and errors are ignored.           *)
ChargeCopies(r) ==
  /\ reqs[r].pc = "copy"
  /\ reqs[r].todo = {}
  /\ \/ storage' = storage + SeenTotal(r, reqs[r].target)
     \/ fault = "update" /\ UNCHANGED storage
  /\ Finish(r)
  /\ UNCHANGED <<rows, disk>>

-----------------------------------------------------------------------------
(* FileSystem.Rename of a file, by id.                                      *)
Rename(f, p) ==
  /\ f \in Live
  /\ Free({f})
  /\ rows' = [rows EXCEPT ![f].path = p]
  /\ UNCHANGED <<storage, disk, reqs>>

-----------------------------------------------------------------------------
(* FileSystem.Delete; "force" is only passed by the administration.         *)

Delete(r, ids, mode) ==
  /\ reqs[r].pc = "idle"
  /\ ids # {} /\ ids \subseteq Live
  /\ Free(ids)
  /\ reqs' = [reqs EXCEPT ![r] = [Idle EXCEPT !.pc = "filter", !.target = ids,
                                   !.seen = Fetched(ids), !.mode = mode]]
  /\ UNCHANGED <<rows, storage, disk>>

(* Variant: every target loses its physical file.                           *)
FilterLinked_None(r) ==
  /\ reqs[r].pc = "filter"
  /\ reqs' = [reqs EXCEPT ![r].pc = "unlink", ![r].todo = reqs[r].target]
  /\ UNCHANGED <<rows, storage, disk>>

(* RemoveFilesWithSoftLinks: a target keeps its physical file when a row    *)
(* other than one of the targets with that source_name has it too - which,  *)
(* if two targets share it, is each of them.                                *)
Linked(r, f) ==
  LET Same(g) == reqs[r].seen[g].src = reqs[r].seen[f].src
  IN  \E v \in reqs[r].target, g \in Live :
        Same(v) /\ g # v /\ rows[g].src = reqs[r].seen[f].src

FilterLinked(r) ==
  /\ reqs[r].pc = "filter"
  /\ \/ reqs' = [reqs EXCEPT ![r].pc = "unlink",
                             ![r].todo = {f \in reqs[r].target : ~Linked(r, f)}]
     \/ fault = "links" /\ Finish(r)
  /\ UNCHANGED <<rows, storage, disk>>

(* deleteGroupedFile, and the choice of the rows that go: those whose       *)
(* physical file could not be removed stay unless forced.                   *)
DeleteGroupedFile(r, failed) ==
  LET Sources(ids) == {reqs[r].seen[f].src : f \in ids}
      removed == Sources(reqs[r].todo) \ failed
      kept == {f \in reqs[r].target : reqs[r].seen[f].src \notin failed}
  IN  /\ reqs[r].pc = "unlink"
      /\ failed # {} => fault = "remove"
      /\ failed \subseteq {s \in Sources(reqs[r].todo) : disk[s] # NoFile}
      /\ disk' = [s \in Source |-> IF s \in removed THEN NoFile ELSE disk[s]]
      /\ reqs' = [reqs EXCEPT ![r].pc = "commit", ![r].todo = {},
                    ![r].target = IF reqs[r].mode = "force" THEN @ ELSE kept]
      /\ UNCHANGED <<rows, storage>>

(* Variant: the counter is not an unsigned column.                          *)
Deletable_Signed(r) == \A f \in reqs[r].target : Matches(f, reqs[r].seen[f].size)

(* models.DeleteFiles, one transaction.                                     *)
Deletable(r) ==
  /\ \A f \in reqs[r].target : Matches(f, reqs[r].seen[f].size)
  /\ storage >= SeenTotal(r, reqs[r].target)

(* Variant: a physical file that several rows share is refunded once.       *)
DeleteFiles_Distinct(r) ==
  /\ reqs[r].pc = "commit"
  /\ Deletable(r)
  /\ rows' = [f \in FileId |-> IF f \in reqs[r].target THEN Gone ELSE rows[f]]
  /\ storage' = storage - SeenTotal(r, {f \in reqs[r].target :
                            \A g \in Live \ {f} : rows[g].src # rows[f].src})
  /\ Finish(r)
  /\ UNCHANGED disk

DeleteFiles(r) ==
  /\ reqs[r].pc = "commit"
  /\ Deletable(r)
  /\ rows' = [f \in FileId |-> IF f \in reqs[r].target THEN Gone ELSE rows[f]]
  /\ storage' = storage - SeenTotal(r, reqs[r].target)
  /\ Finish(r)
  /\ UNCHANGED disk

DeleteFilesRollback(r) ==
  /\ reqs[r].pc = "commit"
  /\ ~Deletable(r) \/ fault = "update"
  /\ Finish(r)
  /\ UNCHANGED <<rows, storage, disk>>

-----------------------------------------------------------------------------
Crash ==
  /\ fault = "crash"
  /\ reqs' = [r \in Req |-> Idle]
  /\ UNCHANGED <<rows, storage, disk>>

UploadStep(r) ==
  \/ ProbeFile(r) \/ WriteFile(r) \/ CheckName(r)
  \/ AddFileFails(r) \/ DiscardFile(r)
  \/ \E f \in FileId : InsertFile(r, f)

OverwriteStep(r) ==
  \/ CleanContent(r)
  \/ \E f \in FileId : \/ FindLinks(r, f) \/ RelinkFile(r, f) \/ RelinkAgain(r, f)
                       \/ GenericAfterUpdate(r, f) \/ ClearFileSize(r, f)

CopyStep(r) ==
  \/ CopyFails(r) \/ ChargeCopies(r)
  \/ \E f, g \in FileId, p \in Path : CopyFile(r, f, g, p)

DeleteStep(r) ==
  \/ FilterLinked(r) \/ DeleteFiles(r) \/ DeleteFilesRollback(r)
  \/ \E failed \in SUBSET Source : DeleteGroupedFile(r, failed)

Arrival(r) ==
  \/ \E p \in Path, n \in 0..MaxSize : UploadNew(r, p, n)
  \/ \E f \in FileId, n \in 0..MaxSize, mode \in {"create", "overwrite"} :
       OverwriteFile(r, f, n, mode)
  \/ \E ids \in SUBSET FileId : Copy(r, ids)
  \/ \E ids \in SUBSET FileId, mode \in {"create", "force"} : Delete(r, ids, mode)

Next ==
  /\ \/ \E r \in Req : \/ Arrival(r) \/ UploadStep(r) \/ OverwriteStep(r)
                       \/ CopyStep(r) \/ DeleteStep(r)
     \/ \E f \in FileId, p \in Path : Rename(f, p)
     \/ Crash
  /\ UNCHANGED fault

Spec == Init /\ [][Next]_vars

-----------------------------------------------------------------------------
TypeOK ==
  /\ rows \in [FileId -> Row]
  /\ storage \in Nat
  /\ disk \in [Source -> 0..MaxSize \cup {NoFile}]
  /\ reqs \in [Req -> Handler]
  /\ fault \in Fault

Busy(f) == \E r \in Req : f \in reqs[r].target

(* No row loses its physical file to a handler that works on another row,   *)
(* although handlers of different rows that share a file run at the same    *)
(* time: RemoveFilesWithSoftLinks before the removal, by id, in Delete.     *)
NoDangling ==
  \A f \in Live : disk[rows[f].src] = NoFile =>
    \E r \in Req : reqs[r].pc = "commit" /\ f \in reqs[r].target

(* A file nobody is working on has the length its row says, through         *)
(* overwrites of shared and of own physical files.                          *)
SizesTrue == \A f \in Live : ~Busy(f) => disk[rows[f].src] = rows[f].size

(* Both hold as long as nothing but removals fails.                         *)
FilesIntact == Calm => NoDangling /\ SizesTrue

(* Overwriting or deleting one file never changes what another one shows:   *)
(* the content behind a row changes only while a handler works on that row. *)
(* This is what a fresh physical file for a row with soft links is for.     *)
OthersUntouched ==
  [][Calm => \A f \in Live : disk'[rows[f].src] # disk[rows[f].src] => Busy(f)]_vars

(* The counter is the sum of the sizes but for the soft links of a copy     *)
(* that is still running, which Copy charges at its end.                    *)
Uncharged == Total(FileId \X Req,
  [c \in FileId \X Req |->
     IF reqs[c[2]].pc = "copy" /\ c[1] \in reqs[c[2]].target \ reqs[c[2]].todo
       THEN reqs[c[2]].seen[c[1]].size ELSE 0])

(* Calm: the counter is the sum of the sizes of the rows but for Uncharged. *)
(* Whatever fails, the user is never charged for more than the rows hold    *)
(* (DeleteFiles and Copy charge what they have done).                       *)
Charged ==
  /\ Calm => storage + Uncharged = Used
  /\ storage <= Used
=============================================================================

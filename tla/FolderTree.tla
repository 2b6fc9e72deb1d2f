----------------------------- MODULE FolderTree -----------------------------
(***************************************************************************)
(* The folders of one user and the files in them: tables folders and       *)
(* files, and the operations of the web interface, of WebDAV and of import *)
(* tasks on them, one database statement at a time.                        *)
(*                                                                         *)
(* A path is the folder it resolves to; names, sizes and physical files    *)
(* are left out (see ObjectStore).  The ids of the two tables are numbers  *)
(* of their own, so that one number may name a folder and a file.          *)
(***************************************************************************)
EXTENDS Naturals, FiniteSets

CONSTANTS
  FolderId, FileId,    \* ids that may be given out, in increasing order
  OldFolder, OldFile,  \* those in use at the start
  Root,                \* the user's root folder
  Absent, Gone,        \* no row yet; row deleted
  Top,                 \* NULL, the parent of the root
  Request,             \* requests, each made once, numbered as they arrive
  Operation,           \* operations the requests ask for
  MaxPick              \* bound on the objects of one request

ASSUME FolderTreeIds ==
  /\ FolderId \subseteq Nat /\ FileId \subseteq Nat
  /\ OldFolder \subseteq FolderId /\ OldFile \subseteq FileId
  /\ Root \in OldFolder
  /\ {Absent, Gone, Top} \cap Nat = {} /\ Absent # Gone /\ Gone # Top /\ Top # Absent
  /\ Request \subseteq Nat /\ MaxPick \in Nat
ASSUME FolderTreeOps ==
  Operation \subseteq {"mkdir", "import", "move", "copy", "delete", "walk", "compress", "property"}

VARIABLES
  parent,     \* ParentID of each folder, or Absent or Gone
  home,       \* FolderID of each file, or Absent or Gone
  req,        \* progress of the requests
  calm        \* never changes: see Undisturbed

rows == <<parent, home>>
vars == <<rows, req, calm>>

Live == {d \in FolderId : parent[d] \notin {Absent, Gone}}
LiveFiles == {f \in FileId : home[f] \notin {Absent, Gone}}
Children(S) == {d \in FolderId : parent[d] \in S}
FilesIn(S) == {f \in FileId : home[f] \in S}

(* Everything below the folders of S, and S: what every set of folders that *)
(* holds S and the children of its own holds.                              *)
Subtree(S) ==
  {d \in FolderId : \A T \in SUBSET FolderId : S \subseteq T /\ Children(T) \subseteq T => d \in T}

(* fs.IsPathExist: a path leads from the root to a folder.                 *)
PathExist(d) == d \in Subtree({Root})

ReqState == [op : {"none"} \cup Operation,
             pc : {"idle", "mkdir", "import", "folders", "files", "list", "copy",
                   "entries", "insert", "rows", "dirs", "walk", "queued", "compress", "trace",
                   "done", "failed"},
             dirs : SUBSET FolderId, files : SUBSET FileId,  \* objects asked for
             src : FolderId \cup {Absent},   \* folders the paths led to
             dst : FolderId \cup {Absent},
             levels : 0..2,                     \* folders or files still to make
             listed : SUBSET (FolderId \X (FolderId \cup {Top})),
             frontier : SUBSET FolderId,        \* level, or folders, still to list
             copies : [FolderId -> FolderId \cup {Absent}],  \* newIDCache
             todo : SUBSET (FileId \X FolderId),  \* files to copy and where to
             touched : SUBSET (FolderId \cup {Absent})]  \* for Undisturbed only

Idle == [op |-> "none", pc |-> "idle", dirs |-> {}, files |-> {}, src |-> Absent,
         dst |-> Absent, levels |-> 0, listed |-> {}, frontier |-> {},
         copies |-> [d \in FolderId |-> Absent], todo |-> {}, touched |-> {}]

Init ==
  /\ parent \in {p \in [FolderId -> OldFolder \cup {Absent, Top}] :
                   \A d \in FolderId : IF d = Root THEN p[d] = Top
                                       ELSE IF d \in OldFolder
                                         THEN p[d] \in {e \in OldFolder : e < d}
                                         ELSE p[d] = Absent}
  /\ home \in {h \in [FileId -> OldFolder \cup {Absent}] :
                 \A f \in FileId : h[f] = Absent <=> f \notin OldFile}
  /\ req = [r \in Request |-> Idle]
  /\ calm \in BOOLEAN

IdsOf(pairs) == {p[1] : p \in pairs}
Active(r) == req[r].pc \notin {"idle", "done", "failed"}
Copied(r) == {req[r].copies[d] : d \in FolderId} \ {Absent}

(* In a calm environment requests that run at the same time work on        *)
(* different parts of the tree, and none moves a folder below itself.      *)
Touched(r) == req[r].touched \cup Copied(r) \cup {req[r].dst}
Undisturbed(S) ==
  calm => \A q \in Request : Active(q) => S \cap Touched(q) \subseteq {Absent}

To(r, pc) == req' = [req EXCEPT ![r] = [@ EXCEPT !.pc = pc]]
Finish(r, pc) == req' = [req EXCEPT ![r] = [Idle EXCEPT !.pc = pc]]
Start(r, first) ==
  /\ first.op \in Operation
  /\ LET touched == Subtree(first.dirs \cup IF first.levels > 0 THEN {first.dst} ELSE {})
                      \cup {first.src, first.dst}
                      \cup {home[f] : f \in first.files \cap LiveFiles}
     IN  /\ Undisturbed(touched)
         /\ req' = [req EXCEPT ![r] = [first EXCEPT !.touched = IF calm THEN touched ELSE {}]]
  /\ UNCHANGED <<rows, calm>>

(* Ids are given out by the database in increasing order and never again.  *)
NextFolder == CHOOSE d \in FolderId : /\ parent[d] = Absent
                                      /\ \A e \in FolderId : parent[e] = Absent => d <= e
NextFile == CHOOSE f \in FileId : /\ home[f] = Absent
                                  /\ \A g \in FileId : home[g] = Absent => f <= g
FolderLeft == \E d \in FolderId : parent[d] = Absent  \* bounds
FileLeft == \E f \in FileId : home[f] = Absent

-----------------------------------------------------------------------------
(* Creating directories, and import tasks.                                 *)

(* CreateDirectory walks up to the last folder of the path that exists.    *)
CreateDirectory(r, d, n) ==
  /\ PathExist(d)
  /\ Start(r, [Idle EXCEPT !.op = "mkdir", !.pc = "mkdir", !.dst = d, !.levels = n])

(* ImportTask.Do makes a directory first, then rows for the files in it.   *)
ImportFiles(r, d) ==
  /\ PathExist(d)
  /\ Start(r, [Idle EXCEPT !.op = "import", !.pc = "mkdir", !.dst = d, !.levels = 1])

(* FirstOrCreate: the child of that name, or a new one; or the name is     *)
(* that of a file, or illegal.                                             *)
MakeFolder(r) ==
  /\ req[r].pc = "mkdir"
  /\ \/ /\ \E d \in Children({req[r].dst}) \cup (IF FolderLeft THEN {NextFolder} ELSE {}) :
             /\ parent' = [parent EXCEPT ![d] = req[r].dst]
             /\ req' = [req EXCEPT ![r].dst = d, ![r].levels = @ - 1,
                          ![r].pc = IF req[r].levels > 1 THEN "mkdir"
                                    ELSE IF req[r].op = "import" THEN "import" ELSE "done"]
     \/ /\ Finish(r, "failed")
        /\ UNCHANGED parent
  /\ UNCHANGED <<home, calm>>

(* AddFile into the cached folder; a failure skips the file or the rest.   *)
ImportFile(r) ==
  /\ req[r].pc = "import"
  /\ \/ /\ FileLeft
        /\ home' = [home EXCEPT ![NextFile] = req[r].dst]
     \/ UNCHANGED home
  /\ Finish(r, "done")
  /\ UNCHANGED <<parent, calm>>

-----------------------------------------------------------------------------
(* Moving: FileSystem.Move, and moveFiles of WebDAV, which calls it.       *)

Move(r, D, F, s, d) ==
  /\ PathExist(s) /\ PathExist(d)
  /\ calm => d \notin Subtree(D)
  /\ Start(r, [Idle EXCEPT !.op = "move", !.pc = "folders", !.dirs = D, !.files = F,
                           !.src = s, !.dst = d])

MoveFolderTo(r) ==
  LET moved == {d \in req[r].dirs : parent[d] = req[r].src}
  IN  /\ req[r].pc = "folders"
      /\ IF req[r].dst \in req[r].dirs
           THEN Finish(r, "failed") /\ UNCHANGED parent
           ELSE /\ parent' = [d \in FolderId |-> IF d \in moved THEN req[r].dst
                                                 ELSE parent[d]]
                /\ To(r, "files")
      /\ UNCHANGED <<home, calm>>

(* The files are chosen by the ids of the folders.                         *)
MoveFileTo(r) ==
  /\ req[r].pc = "files" /\ req[r].op = "move"
  /\ home' = [f \in FileId |-> IF f \in req[r].dirs /\ home[f] = req[r].src
                               THEN req[r].dst ELSE home[f]]
  /\ Finish(r, "done")
  /\ UNCHANGED <<parent, calm>>

-----------------------------------------------------------------------------
(* Listing level by level: GetRecursiveChildFolder.  (It gives up after    *)
(* 65535 levels, which only a cycle has.)                                  *)

AfterListing(op) ==
  CASE op = "delete" -> "files" [] op = "copy" -> "copy"
    [] op = "compress" -> "queued" [] op = "property" -> "trace"

(* Variant: a level is added to the last ones, not put in their place.     *)
ListLevel_All(r) ==
  LET next == Children(req[r].frontier)
  IN  /\ req[r].pc = "list"
      /\ req' = [req EXCEPT ![r].listed = @ \cup {<<d, parent[d]>> : d \in next},
                            ![r].frontier = @ \cup next,
                            ![r].pc = IF next = {} THEN AfterListing(req[r].op) ELSE "list"]
      /\ UNCHANGED <<rows, calm>>

ListLevel(r) ==
  LET next == Children(req[r].frontier)
  IN  /\ req[r].pc = "list"
      /\ req' = [req EXCEPT ![r].listed = @ \cup {<<d, parent[d]>> : d \in next},
                            ![r].frontier = next,
                            ![r].pc = IF next = {} THEN AfterListing(req[r].op) ELSE "list"]
      /\ UNCHANGED <<rows, calm>>

Listing(r, D) == [Idle EXCEPT !.pc = "list", !.dirs = D, !.frontier = D \cap Live,
                              !.listed = {<<d, parent[d]>> : d \in D \cap Live}]

-----------------------------------------------------------------------------
(* Copying one folder (Folder.CopyFolderTo) or file (MoveOrCopyFileTo).    *)

CopyFolder(r, d, t) ==
  /\ PathExist(t)
  /\ Start(r, [Listing(r, {d}) EXCEPT !.op = "copy", !.src = d, !.dst = t])

CopyFile(r, f, s, t) ==
  /\ PathExist(s) /\ PathExist(t)
  /\ Start(r, [Idle EXCEPT !.op = "copy", !.pc = "entries", !.files = {f},
                           !.src = s, !.dst = t])

(* Where the copy of a listed folder goes, if that is known already.       *)
NewParent(r, d, p) == IF d = req[r].src THEN req[r].dst
                      ELSE IF p = Top THEN Absent ELSE req[r].copies[p]
Uncopied(r) == {d \in IdsOf(req[r].listed) : req[r].copies[d] = Absent}

(* Variant: every copy goes to the destination itself.                     *)
InsertFolder_Flat(r) ==
  /\ req[r].pc = "copy" /\ FolderLeft
  /\ \E x \in req[r].listed :
       /\ req[r].copies[x[1]] = Absent /\ NewParent(r, x[1], x[2]) # Absent
       /\ parent' = [parent EXCEPT ![NextFolder] = req[r].dst]
       /\ req' = [req EXCEPT ![r].copies[x[1]] = NextFolder]
  /\ UNCHANGED <<home, calm>>

InsertFolder(r) ==
  /\ req[r].pc = "copy" /\ FolderLeft
  /\ \E x \in req[r].listed :
       /\ req[r].copies[x[1]] = Absent /\ NewParent(r, x[1], x[2]) # Absent
       /\ parent' = [parent EXCEPT ![NextFolder] = NewParent(r, x[1], x[2])]
       /\ req' = [req EXCEPT ![r].copies[x[1]] = NextFolder]
  /\ UNCHANGED <<home, calm>>

(* Variant: files are copied along before every folder has its copy.       *)
CollectFiles_Early(r) ==
  LET inside == {<<f, req[r].copies[home[f]]>> : f \in FilesIn(IdsOf(req[r].listed))}
  IN  /\ req[r].pc = "copy"
      /\ req' = [req EXCEPT ![r].pc = "insert", ![r].todo = inside]
      /\ UNCHANGED <<rows, calm>>

(* The files of the listed folders, those being uploaded left out.         *)
CollectFiles(r) ==
  LET inside == {<<f, req[r].copies[home[f]]>> : f \in FilesIn(IdsOf(req[r].listed))}
      single == {<<f, req[r].dst>> : f \in {g \in req[r].files : home[g] = req[r].src}}
  IN  /\ \/ req[r].pc = "copy" /\ Uncopied(r) = {}
         \/ req[r].pc = "entries"
      /\ \E uploading \in SUBSET (inside \cup single) :
           req' = [req EXCEPT ![r].pc = "insert", ![r].todo = (inside \cup single) \ uploading]
      /\ UNCHANGED <<rows, calm>>

InsertFile(r) ==
  /\ req[r].pc = "insert" /\ FileLeft
  /\ \E x \in req[r].todo :
       /\ home' = [home EXCEPT ![NextFile] = x[2]]
       /\ req' = [req EXCEPT ![r].todo = @ \ {x}]
  /\ UNCHANGED <<parent, calm>>

(* Here FileSystem.Copy charges the user (see ObjectStore).                *)
EndCopy(r) ==
  /\ req[r].pc = "insert" /\ req[r].todo = {}
  /\ Finish(r, "done")
  /\ UNCHANGED <<rows, calm>>

-----------------------------------------------------------------------------
(* Deleting folders and files.                                             *)

Delete(r, D, F) == Start(r, [Listing(r, D) EXCEPT !.op = "delete", !.files = F])

(* The root is left out, and so are the files that lie in it.              *)
Doomed(r) == IdsOf(req[r].listed) \ {Root}

ListDeleteFiles(r) ==
  /\ req[r].pc = "files" /\ req[r].op = "delete"
  /\ req' = [req EXCEPT ![r].pc = "rows",
               ![r].todo = {<<f, home[f]>> : f \in FilesIn(Doomed(r))
                                                     \cup (req[r].files \cap LiveFiles)}]
  /\ UNCHANGED <<rows, calm>>

(* Variant: folders go although files of theirs could not be removed.      *)
DeleteRows_Careless(r) ==
  LET files == IdsOf(req[r].todo) IN
  /\ req[r].pc = "rows"
  /\ \E failed \in SUBSET files :
       home' = [f \in FileId |-> IF f \in files \ failed THEN Gone ELSE home[f]]
  /\ To(r, "dirs")
  /\ UNCHANGED <<parent, calm>>

(* Files that could not be removed keep their rows.  DeleteFiles rolls     *)
(* back when one of the rows is not there any more.                        *)
DeleteRows(r) ==
  LET files == IdsOf(req[r].todo) IN
  /\ req[r].pc = "rows"
  /\ \E failed \in SUBSET files :
       \/ /\ files \ failed \subseteq LiveFiles
          /\ home' = [f \in FileId |-> IF f \in files \ failed THEN Gone ELSE home[f]]
          /\ IF failed = {} THEN To(r, "dirs") ELSE Finish(r, "failed")
       \/ /\ ~(files \ failed \subseteq LiveFiles)
          /\ Finish(r, "failed")
          /\ UNCHANGED home
  /\ UNCHANGED <<parent, calm>>

DeleteFolders(r) ==
  /\ req[r].pc = "dirs"
  /\ parent' = [d \in FolderId |-> IF d \in Doomed(r) \cap Live THEN Gone ELSE parent[d]]
  /\ Finish(r, "done")
  /\ UNCHANGED <<home, calm>>

-----------------------------------------------------------------------------
(* Walking: for PROPFIND (walkFS) and for archives (doCompress).  A folder *)
(* that is visited is replaced by its children.                            *)

Propfind(r, d) ==
  /\ PathExist(d)
  /\ Start(r, [Idle EXCEPT !.op = "walk", !.pc = "walk", !.dirs = {d}, !.frontier = {d}])

VisitFolder(r) ==
  /\ req[r].pc = "walk"
  /\ \E d \in req[r].frontier :
       LET left == (req[r].frontier \ {d}) \cup Children({d})
       IN  IF left = {} THEN Finish(r, "done")
           ELSE req' = [req EXCEPT ![r].frontier = left]
  /\ UNCHANGED <<rows, calm>>

(* The folders of a download or of a compression task; those of a share    *)
(* must lie in its folder.                                                 *)
Compress(r, D, F) ==
  Start(r, [Idle EXCEPT !.op = "compress", !.pc = "compress", !.dirs = D, !.files = F,
                        !.frontier = D \cap Live])

(* CreateCompressTask lists everything for the size of it, and queues a    *)
(* task ...                                                                *)
CreateCompressTask(r, D, F, t) ==
  /\ PathExist(t)
  /\ Start(r, [Listing(r, D) EXCEPT !.op = "compress", !.files = F])

(* ... which looks for the folders itself.                                 *)
CompressTask(r) ==
  /\ req[r].pc = "queued"
  /\ req' = [req EXCEPT ![r].pc = "compress", ![r].listed = {}, ![r].frontier = req[r].dirs \cap Live]
  /\ UNCHANGED <<rows, calm>>

(* One folder after another; the client may leave between two of those     *)
(* asked for.  The entries of a folder that cannot be read are left out.   *)
CompressFolder(r) ==
  /\ req[r].pc = "compress"
  /\ \/ \E d \in req[r].frontier :
          /\ req' = [req EXCEPT ![r].frontier = (@ \ {d}) \cup Children({d})]
     \/ /\ req[r].frontier = {}
        /\ Finish(r, "done")
     \/ /\ req[r].frontier \cap req[r].dirs # {}
        /\ Finish(r, "failed")
  /\ UNCHANGED <<rows, calm>>

-----------------------------------------------------------------------------
(* GetProperty counts what is in a folder, unless the cache remembers it,  *)
(* and asks for the path of the folder; of a file only for that.           *)
GetProperty(r, d) == Start(r, [Listing(r, {d}) EXCEPT !.op = "property"])
GetFileProperty(r, f) ==
  /\ home[f] \in Live
  /\ Start(r, [Idle EXCEPT !.op = "property", !.pc = "trace", !.dirs = {home[f]}])

(* Folder.TraceRoot calls itself for the parent.                           *)
TraceRoot(r) ==
  LET d == CHOOSE x \in req[r].dirs : TRUE
  IN  /\ req[r].pc = "trace"
      /\ CASE parent[d] \in Live -> req' = [req EXCEPT ![r].dirs = {parent[d]}, ![r].listed = {}]
            [] parent[d] = Top -> Finish(r, "done")
            [] OTHER -> Finish(r, "failed")
      /\ UNCHANGED <<rows, calm>>

-----------------------------------------------------------------------------
(* A statement fails or the server stops: the request ends where it is.    *)
Fails(r) ==
  /\ Active(r)
  /\ Finish(r, "failed")
  /\ UNCHANGED <<rows, calm>>

Step(r) ==
  \/ MakeFolder(r) \/ ImportFile(r) \/ MoveFolderTo(r) \/ MoveFileTo(r)
  \/ ListLevel(r) \/ InsertFolder(r) \/ CollectFiles(r) \/ InsertFile(r)
  \/ EndCopy(r) \/ ListDeleteFiles(r) \/ DeleteRows(r)
  \/ DeleteFolders(r) \/ VisitFolder(r) \/ CompressTask(r) \/ CompressFolder(r)
  \/ TraceRoot(r)

(* Bound: a request names objects where they lie when it is made, or the   *)
(* root.                                                                   *)
Picked == {p \in (SUBSET Live) \X (SUBSET LiveFiles) :
             Cardinality(p[1]) + Cardinality(p[2]) \in 1..MaxPick}
LieIn(s, D, F) == /\ \A d \in D : parent[d] = s \/ (d = Root /\ s = Root)
                  /\ F \subseteq FilesIn({s})

(* The web interface names objects by their ids, the folders they are in   *)
(* by paths.  An administrator deletes files of anybody.                   *)
DeleteObjects(r) == \E p \in Picked : Delete(r, p[1], p[2])
AdminDelete(r) == \E F \in SUBSET LiveFiles \ {{}} : Cardinality(F) <= MaxPick /\ Delete(r, {}, F)
MoveObjects(r) ==
  \E s \in Live : \E p \in Picked : LieIn(s, p[1], p[2]) /\ \E t \in Live : Move(r, p[1], p[2], s, t)
(* Only one object can be copied.                                          *)
CopyObject(r) ==
  \E s, t \in Live : CopyFolder(r, s, t) \/ \E f \in FilesIn({s}) : CopyFile(r, f, s, t)
(* Archive has left what to pack in the cache, for a link that is signed.  *)
DownloadArchived(r) == \E p \in Picked : Compress(r, p[1], p[2])
CompressObjects(r) == \E p \in Picked : \E t \in Live : CreateCompressTask(r, p[1], p[2], t)
ShowObject(r) == (\E d \in Live : GetProperty(r, d)) \/ (\E f \in LiveFiles : GetFileProperty(r, f))

WebRequest(r) ==
  \/ \E d \in Live : CreateDirectory(r, d, 2) \/ ImportFiles(r, d)
  \/ DeleteObjects(r) \/ AdminDelete(r) \/ MoveObjects(r) \/ CopyObject(r)
  \/ DownloadArchived(r) \/ CompressObjects(r) \/ ShowObject(r)

(* WebDAV names every object by its path.                                  *)
Mkcol(r) == \E d \in Live : CreateDirectory(r, d, 1)

(* A file of that path goes before a folder.                               *)
HandleDelete(r) ==
  \/ \E f \in LiveFiles : PathExist(home[f]) /\ Delete(r, {}, {f})
  \/ \E d \in Live : PathExist(d) /\ Delete(r, {d}, {})

(* Nothing is moved within a folder: the object is only renamed then.      *)
(* What lies at the destination is not looked at.                          *)
MoveFiles(r, t) ==
  \/ \E f \in LiveFiles : home[f] # t /\ Move(r, {}, {f}, home[f], t)
  \/ \E d \in Live \ {Root} : parent[d] # t /\ Move(r, {d}, {}, parent[d], t)

CopyFiles(r, t) ==
  \/ \E f \in LiveFiles : CopyFile(r, f, home[f], t)
  \/ \E d \in Live \ {Root} : PathExist(d) /\ CopyFolder(r, d, t)

HandleCopyMove(r) == \E t \in Live : MoveFiles(r, t) \/ CopyFiles(r, t)

NewRequest(r) ==
  /\ req[r].pc = "idle"
  /\ \A q \in Request : q < r => req[q].pc # "idle"
  /\ \/ WebRequest(r)
     \/ Mkcol(r) \/ HandleDelete(r) \/ HandleCopyMove(r)
     \/ \E d \in Live : Propfind(r, d)

Next == \E r \in Request : NewRequest(r) \/ Step(r) \/ Fails(r)

Spec == Init /\ [][Next]_vars

(* Handlers run on; requests and failures are not fair.  When the ids of   *)
(* the instance have run out, an insertion fails (bound).                  *)
FairSpec ==
  /\ Spec
  /\ \A r \in Request : WF_vars(Step(r) \/ (~(FolderLeft /\ FileLeft) /\ Fails(r)))

-----------------------------------------------------------------------------
TypeOK ==
  /\ parent \in [FolderId -> FolderId \cup {Absent, Gone, Top}]
  /\ home \in [FileId -> FolderId \cup {Absent, Gone}]
  /\ req \in [Request -> ReqState]
  /\ calm \in BOOLEAN

(* The root stays where it is, whatever meets: deletes leave it out, and   *)
(* moves choose by a parent it does not have.  Requests on different parts *)
(* of the tree leave a tree: every folder hangs below the root, every file *)
(* lies in a folder, also when a request fails between two statements.     *)
Rooted ==
  /\ parent[Root] = Top /\ \A d \in FolderId \ {Root} : parent[d] # Top
  /\ calm => Live \subseteq Subtree({Root}) /\ \A f \in LiveFiles : home[f] \in Live

(* A copy has the shape of what was copied: its folders hang together as   *)
(* the originals do.                                                       *)
CopyFaithful ==
  calm => \A r \in Request :
    req[r].op = "copy" /\ req[r].pc = "insert" =>
      \A d \in IdsOf(req[r].listed) :
        parent[req[r].copies[d]] = IF d = req[r].src THEN req[r].dst
                                   ELSE req[r].copies[parent[d]]

(* The files asked for are in the destination when a move has succeeded    *)
(* (pkg/webdav/file.go:25: "moveFiles moves files and/or directories from  *)
(* src to dst").                                                           *)
MovedFilesArrive ==
  [][calm => \A r \in Request :
       req[r].pc = "files" /\ req[r].op = "move" /\ req'[r].pc = "done" =>
         \A f \in req[r].files : home[f] = req[r].src => home'[f] = req[r].dst]_vars

(* Requests on different parts of the tree come to an end: their listings  *)
(* and walks meet no cycle.                                                *)
RequestsEnd == \A r \in Request : calm /\ Active(r) ~> ~Active(r)
=============================================================================

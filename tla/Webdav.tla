------------------------------- MODULE Webdav -------------------------------
(***************************************************************************)
(* The WebDAV server (pkg/webdav) on the folders and files of one user:    *)
(* what each request is answered while other requests change the tree.     *)
(*                                                                         *)
(* PROPFIND reads the tree folder by folder and writes its multistatus     *)
(* answer as it goes, one query or entry to a step.  The other methods     *)
(* take effect in one step: FolderTree and ObjectStore model the           *)
(* statements they are made of.  Contents, times and sizes of files are    *)
(* left out.  Locks are announced and never kept: the handlers do not call *)
(* the lock system of MemLS.                                               *)
(***************************************************************************)
EXTENDS Integers, FiniteSets, SequencesExt

CONSTANTS
  Folder, File, Root,   \* rows of the two tables; Root is the user's root
  Id,                   \* their primary keys, each table with its own
  Name,
  Nowhere,              \* no parent: the root's, or that of a missing row
  Outside,              \* a URL without the prefix of the handler
  Paths,                \* paths that requests name, below the account's root
  AccountRoot,          \* path of the WebDAV account
  Request,
  Property,             \* names of properties, without their namespaces
  Bodies, Patches,      \* decoded PROPFIND and PROPPATCH bodies
  OldName, OldParent,   \* the rows at the start
  MaxFault              \* bound on failing queries and writes

Node == Folder \cup File
Row == [parent : Folder \cup {Nowhere}, name : Name]

ASSUME WebdavNodes ==
  /\ IsFiniteSet(Node) /\ Root \in Folder /\ Folder \cap File = {} /\ Nowhere \notin Node
  /\ AccountRoot \in Seq(Name) /\ Paths \subseteq Seq(Name) /\ Outside \notin Seq(Name)
  /\ MaxFault \in Nat
  /\ Id \in [Node -> Nat]
  /\ \A m, n \in Node : m # n /\ (m \in Folder <=> n \in Folder) => Id[m] # Id[n]

(* The properties that tell apart what the table liveProps says of them.   *)
FindFn == {"displayname", "resourcetype", "getetag"}   \* the others are hidden
DirProps == {"displayname", "resourcetype"}
LiveProps == FindFn \cup {"creationdate"}

(* What readPropfind and readProppatch can return.                         *)
ASSUME WebdavBodies ==
  /\ LiveProps \subseteq Property /\ Bodies # {}
  /\ \A b \in Bodies :
       /\ b.kind \in {"empty", "doc", "broken"} /\ {b.allprop, b.propname} \subseteq BOOLEAN
       /\ b.prop \in Seq(Property) /\ (b.kind = "empty" => b.prop = <<>>)
  /\ Patches \subseteq Seq(Seq(Property))
  /\ \A p \in Patches :
       /\ FlattenSeq(p) \in Seq(Property)
       /\ ToSet(FlattenSeq(p)) = UNION {ToSet(p[i]) : i \in DOMAIN p}

(* The tables hold a tree: a row that was removed has nothing in it, and    *)
(* every set of folders has a highest one.                                  *)
IsTree(rows) ==
  /\ rows \in [Node -> Row]
  /\ rows[Root].parent = Nowhere
  /\ \A n \in Node : LET d == rows[n].parent IN
       d \in {Nowhere, Root} \/ rows[d].parent # Nowhere
  /\ \A S \in SUBSET Folder : S # {} => \E d \in S : rows[d].parent \notin S

(* No folder has two folders or two files of one name.  The database does   *)
(* not see to that: AutoMigrate knows no tag unique_index.                  *)
NamesDiffer(rows) ==
  \A m, n \in Node :
    m # n /\ (m \in Folder <=> n \in Folder) /\ rows[m].parent = rows[n].parent
      => rows[m].parent = Nowhere \/ rows[m].name # rows[n].name

OldRow == [n \in Node |-> [parent |-> OldParent[n], name |-> OldName[n]]]
ASSUME OldTree == IsTree(OldRow)

Infinite == -1
InvalidDepth == -2
Depths == {0, 1, Infinite}

VARIABLES
  row,        \* the folders and files
  account,    \* there is a row for the WebDAV account
  req,        \* the requests
  faults      \* counts against MaxFault

vars == <<row, account, req, faults>>

Missing(n) == n # Root /\ row[n].parent = Nowhere
Children(d) == {n \in Node : row[n].parent = d}
Named(S, x) == {n \in S : row[n].name = x}

(* What is below a folder, itself included: the least set of folders that  *)
(* has it and the folders in its folders, and what is in them.             *)
FoldersBelow(d) ==
  LET whole == {S \in SUBSET Folder : d \in S /\ \A e \in Folder : row[e].parent \in S => e \in S}
  IN  {e \in Folder : \A S \in whole : e \in S}
Below(d) == LET dirs == FoldersBelow(d) IN dirs \cup {n \in Node : row[n].parent \in dirs}

(* Of rows that share a name, First finds the one of the lowest key.       *)
Lowest(n) ==
  \A m \in Node : row[m] = row[n] /\ (m \in Folder <=> n \in Folder) => Id[n] <= Id[m]

(* fs.IsPathExist: folder by folder; Nowhere if one is not found.          *)
Trails(base, path) ==
  {t \in [1..Len(path) -> Folder] :
     \A i \in 1..Len(path) :
       /\ row[t[i]].name = path[i]
       /\ row[t[i]].parent = IF i = 1 THEN base ELSE t[i-1]
       /\ Lowest(t[i])}
FolderFrom(base, path) ==
  LET trails == Trails(base, path)
  IN  IF path = <<>> THEN base
      ELSE IF trails = {} THEN Nowhere ELSE (CHOOSE t \in trails : TRUE)[Len(path)]

(* The root that ServeWebDAV gives the file system: that of the account if *)
(* its path leads to a folder, else the user's.                            *)
Base == LET d == FolderFrom(Root, AccountRoot) IN IF d = Nowhere THEN Root ELSE d

FolderAt(path) == FolderFrom(Base, path)
FileAt(path) ==
  LET d == FolderAt(Front(path))
      found == {f \in Named(Children(d) \cap File, Last(path)) : Lowest(f)}
  IN  IF path = <<>> \/ d = Nowhere \/ found = {} THEN Nowhere ELSE CHOOSE f \in found : TRUE
NodeAt(path) == LET d == FolderAt(path) IN IF d # Nowhere THEN d ELSE FileAt(path)

(* A request:                                                              *)
(*   pc      idle, walk, close or done                                     *)
(*   status  of the HTTP answer                                            *)
(*   method  PROPFIND, PROPPATCH or other                                  *)
(*   top, path, depth, body   of PROPFIND: what it asks for                *)
(*   asked   the properties that the body names                            *)
(*   todo    what the recursion of walkFS has still to do                  *)
(*   answer  the entries of the multistatus answer                         *)
(*   closed  the multistatus element is complete                           *)
(*   short   a query of the walk failed                                    *)
(*   cut     a write failed                                                *)
(*   stayed  what has been at its place since the walk began (history)     *)
(*   clash   two rows shared a name in a folder since then (history)       *)
Idle == [pc |-> "idle", status |-> 0, method |-> "other", top |-> Nowhere, path |-> Outside,
         depth |-> 0, body |-> CHOOSE b \in Bodies : TRUE, asked |-> <<>>, todo |-> <<>>,
         answer |-> <<>>, closed |-> FALSE, short |-> FALSE, cut |-> FALSE, stayed |-> {},
         clash |-> FALSE]

Init ==
  /\ row = OldRow
  /\ account = TRUE
  /\ req = [r \in Request |-> Idle]
  /\ faults = 0

(* ServeHTTP: the answer of a request that is handled in one step.         *)
Answer(r, status) == req' = [req EXCEPT ![r] = [Idle EXCEPT !.pc = "done", !.status = status]]

(* A change of the tree: the walks under way see it in what they read next.*)
Change(r, status, rows) ==
  LET moved == {n \in Node : row[n] # rows[n]}
      off == moved \cup UNION {Below(n) : n \in moved \cap Folder}
  IN  /\ row' = rows
      /\ req' = [q \in Request |->
                   IF q = r THEN [Idle EXCEPT !.pc = "done", !.status = status]
                   ELSE [req[q] EXCEPT !.stayed = @ \ off,
                                       !.clash = @ \/ ~NamesDiffer(rows)]]
      /\ UNCHANGED <<account, faults>>

Unchanged == UNCHANGED <<row, account, faults>>
Put(rows, n, d, x) == [rows EXCEPT ![n] = [parent |-> d, name |-> x]]

-----------------------------------------------------------------------------
(* Access: WebDAVAuth, stripPrefix, unknown methods, and the removal of    *)
(* the account in the settings.                                            *)

(* The account is looked up, then whether its group may use WebDAV.        *)
Unauthorized(r) ==
  /\ \/ ~account /\ Answer(r, 401)
     \/ Answer(r, 403)
  /\ Unchanged

Mismatch(r, p) == p = Outside /\ Answer(r, 404) /\ Unchanged
Unsupported(r) == account /\ Answer(r, 400) /\ Unchanged

DeleteAccount ==
  /\ account
  /\ account' = FALSE
  /\ UNCHANGED <<row, req, faults>>

-----------------------------------------------------------------------------
(* The methods other than PROPFIND.                                        *)

HandleOptions(r, p) == Answer(r, 200) /\ Unchanged

HandleGetHeadPost(r, p) ==
  /\ IF FileAt(p) = Nowhere THEN Answer(r, 404)
     ELSE \E s \in {200, 301, 404, 500} : Answer(r, s)    \* the content, elsewhere, or not
  /\ Unchanged

Removed(n) ==
  LET gone == IF n \in Folder THEN Below(n) ELSE {n}
  IN  [m \in Node |-> IF m \in gone THEN [row[m] EXCEPT !.parent = Nowhere] ELSE row[m]]

HandleDelete(r, p) ==
  LET n == IF FileAt(p) # Nowhere THEN FileAt(p) ELSE FolderAt(p)
  IN  IF n = Nowhere THEN Answer(r, 404) /\ Unchanged
      ELSE /\ n # Base                                     \* bound: see FolderTree
           /\ Change(r, 204, Removed(n))

(* Any folder, by the web interface.                                       *)
DeleteElsewhere(r, d) ==
  /\ d # Root /\ ~Missing(d)
  /\ Change(r, 200, Removed(d))

(* CreateDirectory: the name of a folder that is there gives that folder   *)
(* (FirstOrCreate).  FolderTree has the missing folders above it as well.  *)
Spare(S) == \E n \in S : Missing(n)                        \* bound
Made(S, path) ==
  Put(row, CHOOSE n \in S : Missing(n), FolderAt(Front(path)), Last(path))

HandleMkcol(r, p, hasBody) ==
  IF hasBody THEN Answer(r, 415) /\ Unchanged
  ELSE IF FileAt(p) # Nowhere THEN Answer(r, 409) /\ Unchanged
  ELSE IF FolderAt(p) # Nowhere THEN Answer(r, 201) /\ Unchanged
  ELSE /\ FolderAt(Front(p)) # Nowhere /\ Spare(Folder)     \* bounds
       /\ Change(r, 201, Made(Folder, p))

(* A file that exists is overwritten, contents only; else a row is made in *)
(* a folder that CreateDirectory finds or makes.                           *)
HandlePut(r, p) ==
  \/ Answer(r, 405) /\ Unchanged                           \* validation, quota, I/O
  \/ /\ FileAt(p) # Nowhere
     /\ Answer(r, 201) /\ Unchanged
  \/ /\ p # <<>> /\ FileAt(p) = Nowhere
     /\ FolderAt(Front(p)) # Nowhere /\ Spare(File)        \* bound
     /\ Change(r, 201, Made(File, p))

(* copyFiles: the last name of the destination is not looked at, and what  *)
(* has the name of the copy there stays beside it.                         *)
CopyFiles(r, t, dst) ==
  LET d == FolderAt(Front(dst))
      S == IF t \in Folder THEN Below(t) ELSE {t}
      copies == {f \in [S -> {n \in Node : Missing(n)}] :
                   /\ \A m, n \in S : f[m] = f[n] => m = n
                   /\ \A m \in S : m \in Folder <=> f[m] \in Folder}
  IN  IF d = Nowhere THEN Answer(r, 500) /\ Unchanged
      ELSE /\ copies # {}                                  \* bound
           /\ LET f == CHOOSE g \in copies : TRUE
                  of(n) == CHOOSE m \in S : f[m] = n
              IN  Change(r, 204, [n \in Node |->
                    IF n \notin {f[m] : m \in S} THEN row[n]
                    ELSE [parent |-> IF of(n) = t THEN d ELSE f[row[of(n)].parent],
                          name |-> row[of(n)].name]])

(* fs.Move gives MoveOrCopyFileTo the keys of the folders: it moves no      *)
(* file but the one in the same folder whose key is that of the folder.     *)
Along(t) ==
  {t} \cup {f \in File : row[f].parent = row[t].parent /\ Id[f] = Id[t]}

(* moveFiles: to another folder, then to another name, whatever is there   *)
(* (FolderTree also has moves below oneself).                              *)
MoveFiles(r, t, dst) ==
  LET d == FolderAt(Front(dst))
      away == IF row[t].parent # d /\ t \in Folder THEN Along(t) ELSE {}
  IN  IF d \in {Nowhere, t} THEN Answer(r, 500) /\ Unchanged
        ELSE /\ t \in Folder => d \notin Below(t)           \* bound
             /\ Change(r, 204, [n \in Node |->
                  [parent |-> IF n \in away THEN d ELSE row[n].parent,
                   name |-> IF n = t THEN Last(dst) ELSE row[n].name]])

HandleCopyMove(r, method, p, dst, depth) ==
  LET t == NodeAt(p)
  IN  CASE dst = Outside -> Answer(r, 404) /\ Unchanged
        [] dst = p -> Answer(r, 403) /\ Unchanged
        [] dst \notin {Outside, p} /\ t = Nowhere -> Answer(r, 404) /\ Unchanged
        [] OTHER -> IF \/ method = "COPY" /\ depth \in {1, InvalidDepth}
                       \/ method = "MOVE" /\ depth # Infinite
                      THEN Answer(r, 400) /\ Unchanged
                      ELSE /\ p # <<>> /\ dst # <<>> /\ t # Root     \* bound
                           /\ IF method = "COPY" THEN CopyFiles(r, t, dst) ELSE MoveFiles(r, t, dst)

(* A lock is announced to whoever asks, a bad timeout refused.             *)
HandleLock(r, p, timeoutOk) ==
  /\ Answer(r, IF timeoutOk THEN 200 ELSE 400)
  /\ Unchanged
HandleUnlock(r, p) == Answer(r, 204) /\ Unchanged

(* Those of a list that are in K, each as often as the list has it.  Their *)
(* order is left open.                                                     *)
Kept(s, K) ==
  LET at == SetToSeq({i \in DOMAIN s : s[i] \in K})
  IN  [k \in DOMAIN at |-> s[at[k]]]
Left(s, K) == Kept(s, ToSet(s) \ K)

(* patch(): 403 and 424 if one property is live, else 200 for all of them; *)
(* nothing is stored.                                                      *)
Patch(patches) ==
  LET all == FlattenSeq(patches)
      conflict == \E i \in 1..Len(patches) : \E j \in 1..Len(patches[i]) : patches[i][j] \in LiveProps
  IN  IF conflict THEN [ok |-> <<>>, rest |-> Kept(all, LiveProps) \o Left(all, LiveProps)]
                  ELSE [ok |-> all, rest |-> <<>>]

HandleProppatch(r, p, patches, readable) ==
  /\ IF NodeAt(p) = Nowhere THEN Answer(r, 404)
     ELSE IF ~readable THEN Answer(r, 400)                 \* readProppatch
     ELSE LET stats == Patch(patches)
              entry == [path |-> p, node |-> NodeAt(p), ok |-> stats.ok, rest |-> stats.rest]
          IN  req' = [req EXCEPT ![r] =
                [Idle EXCEPT !.pc = "done", !.status = 207, !.method = "PROPPATCH", !.top = NodeAt(p),
                             !.path = p, !.asked = FlattenSeq(patches), !.answer = <<entry>>,
                             !.closed = TRUE]]
  /\ Unchanged

-----------------------------------------------------------------------------
(* PROPFIND.                                                               *)

(* readPropfind: which elements may stand together.                        *)
Acceptable(b) ==
  /\ b.kind # "broken"
  /\ b.kind = "doc" =>
       /\ ~b.allprop => b.include = <<>>
       /\ b.allprop => b.prop = <<>> /\ ~b.propname
       /\ ~(b.prop # <<>> /\ b.propname)
       /\ b.propname \/ b.allprop \/ b.prop # <<>>
AllProp(b) == b.kind = "empty" \/ b.allprop

(* Walks only read: two at a time show no more than one.                   *)
OneWalk == \A r \in Request : req[r].pc \in {"idle", "done"}    \* bound

HandlePropfind(r, p, depth, b) ==
  LET top == NodeAt(p)
      visit == [do |-> "visit", node |-> top, path |-> p, depth |-> depth, dirs |-> {}]
  IN  /\ IF top = Nowhere THEN Answer(r, 404)
         ELSE IF depth = InvalidDepth \/ ~Acceptable(b) THEN Answer(r, 400)
         ELSE OneWalk /\ req' = [req EXCEPT ![r] =
                [Idle EXCEPT !.pc = "walk", !.method = "PROPFIND", !.top = top, !.path = p,
                             !.depth = depth, !.body = b, !.asked = b.prop, !.todo = <<visit>>,
                             !.stayed = IF top \in Folder THEN Below(top) ELSE {top},
                             !.clash = ~NamesDiffer(row)]]
      /\ Unchanged

(* propnames, in an order of its own; props.  A walk names what it visits. *)
Known(n) == {x \in FindFn : x \in DirProps \/ n \notin Folder}
PropToSet(n) == SetToSeq(Known(n))
Props(n, asked) == [ok |-> Kept(asked, Known(n)), rest |-> Left(asked, Known(n))]

(* walkFn: propname, allprop (which is given pf.Prop, empty then) or prop. *)
Entry(b, n, path) ==
  LET stats == IF b.kind = "doc" /\ b.propname THEN [ok |-> PropToSet(n), rest |-> <<>>]
               ELSE IF AllProp(b) THEN Props(n, PropToSet(n))
               ELSE Props(n, b.prop)
  IN  [path |-> path, node |-> n, ok |-> stats.ok, rest |-> stats.rest]

Frame(n, x, path, depth) ==
  [do |-> "visit", node |-> n, path |-> Append(path, x), depth |-> depth, dirs |-> {}]

(* Variants: depth 1 is handed down as it is; infinity is a number, too.   *)
Deeper_Same(depth) == depth

Deeper_Number(depth) == depth - 1

Deeper(depth) == IF depth = 1 THEN 0 ELSE depth

(* An entry is written, the header before the first one; for a folder the  *)
(* query of its folders follows.  A failing query gives no rows.           *)
Visit(r) ==
  LET q == req[r]
      f == Head(q.todo)
      reads == f.node \in Folder /\ f.depth # 0
  IN  /\ f.do = "visit"
      /\ \E failed \in BOOLEAN :
           /\ failed => reads /\ faults < MaxFault
           /\ faults' = IF failed THEN faults + 1 ELSE faults
           /\ req' = [req EXCEPT ![r] = [q EXCEPT
                !.answer = Append(q.answer, Entry(q.body, f.node, f.path)),
                !.status = 207,
                !.short = q.short \/ failed,
                !.todo = IF ~reads THEN Tail(q.todo)
                         ELSE << [f EXCEPT !.do = "files", !.depth = Deeper(f.depth),
                                    !.dirs = IF failed THEN {}
                                             ELSE {<<d, row[d].name>> : d \in Children(f.node) \cap Folder}] >>
                                \o Tail(q.todo)]]
      /\ UNCHANGED <<row, account>>

(* The client has left: the walk stops, and what was written stays short.  *)
WriteFails(r) ==
  /\ Head(req[r].todo).do = "visit"
  /\ faults < MaxFault
  /\ faults' = faults + 1
  /\ req' = [req EXCEPT ![r] = [@ EXCEPT !.cut = TRUE, !.status = 207, !.todo = <<>>, !.pc = "close"]]
  /\ UNCHANGED <<row, account>>

(* The query of the files; the files come before the folders.              *)
ReadFiles(r) ==
  LET q == req[r]
      f == Head(q.todo)
      visits(S) == {Frame(p[1], p[2], f.path, f.depth) : p \in S}
  IN  /\ f.do = "files"
      /\ \E failed \in BOOLEAN :
           /\ failed => faults < MaxFault
           /\ faults' = IF failed THEN faults + 1 ELSE faults
           /\ LET files == IF failed THEN {}
                           ELSE {<<n, row[n].name>> : n \in Children(f.node) \cap File}
              IN  req' = [req EXCEPT ![r] = [q EXCEPT
                    !.short = q.short \/ failed,
                    !.todo = SetToSeq(visits(files)) \o SetToSeq(visits(f.dirs)) \o Tail(q.todo)]]
      /\ UNCHANGED <<row, account>>

Walk(r) ==
  /\ req[r].pc = "walk"
  /\ IF req[r].todo = <<>>
       THEN req' = [req EXCEPT ![r].pc = "close"] /\ Unchanged
       ELSE Visit(r) \/ WriteFails(r) \/ ReadFiles(r)

(* multistatusWriter.close, for a walk that failed as well.                *)
Close(r) ==
  /\ req[r].pc = "close"
  /\ req' = [req EXCEPT ![r].pc = "done", ![r].closed = ~req[r].cut]
  /\ Unchanged

-----------------------------------------------------------------------------
ServeHTTP(r, p) ==
  /\ p # Outside
  /\ account
  /\ \/ HandleGetHeadPost(r, p)
     \/ HandleDelete(r, p)
     \/ HandlePut(r, p)
     \/ \E hasBody \in BOOLEAN : HandleMkcol(r, p, hasBody)
     \/ \E method \in {"COPY", "MOVE"}, dst \in Paths \cup {Outside}, depth \in Depths \cup {InvalidDepth} :
          HandleCopyMove(r, method, p, dst, depth)
     \/ \E timeoutOk \in BOOLEAN : HandleLock(r, p, timeoutOk)
     \/ HandleUnlock(r, p)
     \/ \E depth \in Depths \cup {InvalidDepth}, b \in Bodies : HandlePropfind(r, p, depth, b)
     \/ \E patches \in Patches, readable \in BOOLEAN : HandleProppatch(r, p, patches, readable)

Next ==
  \/ \E r \in Request : Walk(r) \/ Close(r)
  \/ \E r \in Request :
       /\ req[r].pc = "idle"
       /\ \/ Unauthorized(r) \/ Unsupported(r) \/ \E d \in Folder : DeleteElsewhere(r, d)
          \/ \E p \in Paths \cup {Outside} : Mismatch(r, p) \/ ServeHTTP(r, p)
          \/ \E p \in Paths : HandleOptions(r, p)              \* needs no account
  \/ DeleteAccount

Spec == Init /\ [][Next]_vars

-----------------------------------------------------------------------------
ToDo == [do : {"visit", "files"}, node : Node, path : Seq(Name), depth : Depths,
           dirs : SUBSET (Folder \X Name)]
AnEntry == [path : Seq(Name), node : Node, ok : Seq(Property), rest : Seq(Property)]
ReqState ==
  [pc : {"idle", "walk", "close", "done"}, status : Nat, method : {"PROPFIND", "PROPPATCH", "other"},
   top : Node \cup {Nowhere}, path : {Outside} \cup Seq(Name), depth : Depths, body : Bodies,
   asked : Seq(Property), todo : Seq(ToDo), answer : Seq(AnEntry), closed : BOOLEAN,
   short : BOOLEAN, cut : BOOLEAN, stayed : SUBSET Node, clash : BOOLEAN]

(* Rows have parents and names, requests the shape of ReqState; walks go by *)
(* the three depths of walkFS.                                              *)
TypeOK ==
  /\ row \in [Node -> Row] /\ account \in BOOLEAN /\ faults \in 0..MaxFault
  /\ req \in [Request -> ReqState]

IsDir(e) == e.node \in Folder
Of(q, n) == {i \in 1..Len(q.answer) : q.answer[i].node = n}
Wanted(q) ==
  {n \in q.stayed : \/ n = q.top
                    \/ q.depth = Infinite
                    \/ q.depth = 1 /\ row[n].parent = q.top}

(* Of a PROPFIND (walkFS), however the tree changes meanwhile: no href is  *)
(* in the answer twice, unless rows of one kind shared a name in a folder, *)
(* and none is deeper than was asked for.  At its end, unless a query or a *)
(* write failed, the answer begins with the resource itself, and what      *)
(* stayed at its place all the while, and is within the depth, is in it    *)
(* exactly once, below the entry of its folder, even among its namesakes.  *)
EntriesOnce ==
  \A r \in Request : LET q == req[r] IN
    /\ \A i, j \in 1..Len(q.answer) :
         /\ i # j /\ ~q.clash =>
              <<q.answer[i].path, IsDir(q.answer[i])>> # <<q.answer[j].path, IsDir(q.answer[j])>>
         /\ q.depth >= 0 => Len(q.answer[i].path) - Len(q.path) <= q.depth
    /\ q.pc = "close" /\ ~q.cut /\ ~q.short =>
         /\ q.answer[1].node = q.top
         /\ \A n \in Wanted(q) :
              /\ Cardinality(Of(q, n)) = 1
              /\ n # q.top => \E i \in Of(q, n), j \in Of(q, row[n].parent) :
                                q.answer[i].path = Append(q.answer[j].path, row[n].name)

(* Of each resource in an answer: a property that was asked for is reported *)
(* as often as it was asked for, and one of all of them once, found or not  *)
(* but never both (props); what propname names for one resource is found on *)
(* every other of its kind, by all requests; and a PROPPATCH reports failure*)
(* for all properties if one of them is live in any of its instructions,    *)
(* else success for all of them (patch).                                    *)
Times(x, s) == Cardinality({i \in DOMAIN s : s[i] = x})
Reported(e) == ToSet(e.ok) \cup ToSet(e.rest)
PropsOnce ==
  \A r \in Request : LET q == req[r] IN \A e \in ToSet(q.answer) :
    /\ ToSet(e.ok) \cap ToSet(e.rest) = {}
    /\ \A x \in Reported(e) \cup ToSet(q.asked) :
         Times(x, e.ok) + Times(x, e.rest) = IF q.asked = <<>> THEN 1 ELSE Times(x, q.asked)
    /\ q.method = "PROPPATCH" =>
         IF ToSet(q.asked) \cap LiveProps = {} THEN e.rest = <<>> ELSE e.ok = <<>>
    /\ q.method = "PROPFIND" =>
         \A s \in Request : req[s].method = "PROPFIND" =>
           \A f \in ToSet(req[s].answer) : (IsDir(e) <=> IsDir(f)) => ToSet(e.ok) \cap ToSet(f.rest) = {}

(* A multistatus answer has every resource once, and of every resource each *)
(* property once, as the two say, whatever other requests do to the tree    *)
(* meanwhile (walkFS, props, patch).                                        *)
AnsweredOnce == EntriesOnce /\ PropsOnce
=============================================================================

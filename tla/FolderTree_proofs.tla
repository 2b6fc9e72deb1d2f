---------------------------- MODULE FolderTree_proofs ----------------------------
(***************************************************************************)
(* For every number of folders, files and requests: the folders of a user  *)
(* form a tree and every file lies in it, copies have the shape of what    *)
(* was copied, as long as requests that meet work on different parts of    *)
(* the tree; and nothing ever moves or removes the root.                   *)
(***************************************************************************)
EXTENDS FolderTree, WellFoundedInduction, TLAPS

(* What each stage of a request relies on, whatever meets.                 *)
Stage(r) ==
  LET q == req[r] IN
  /\ q.pc = "mkdir" => q.levels \in 1..2 /\ q.op \in {"mkdir", "import"}
  /\ q.pc \in {"mkdir", "import", "folders", "copy", "entries"} => q.dst \in FolderId
  /\ q.pc = "files" => q.op \in {"move", "delete"}
  /\ q.op = "move" /\ q.pc \in {"folders", "files"} => q.src \in FolderId /\ q.dst \in FolderId
  /\ q.pc = "folders" => q.op = "move"
  /\ q.pc = "list" => q.op \in {"delete", "copy", "compress", "property"}
  /\ q.op = "copy" /\ q.pc = "list" => q.dst \in FolderId
  /\ q.pc \in {"copy", "entries", "insert"} => q.op = "copy"
  /\ q.pc = "entries" => q.listed = {}
  /\ q.pc = "trace" \/ q.op = "property" => q.dirs # {}
  /\ q.pc = "import" => q.op = "import"
  /\ q.pc = "trace" => q.op = "property"
  /\ q.pc = "walk" => q.op = "walk"
  /\ q.pc \in {"queued", "compress"} => q.op = "compress"
  /\ q.pc \in {"rows", "dirs"} => q.op = "delete"

Stages == \A r \in Request : Stage(r)

LEMMA Constants ==
  /\ Absent \notin FolderId /\ Gone \notin FolderId /\ Top \notin FolderId
  /\ Absent # Gone /\ Gone # Top /\ Top # Absent
  /\ Root \in FolderId /\ FolderId \subseteq Nat /\ FileId \subseteq Nat
  /\ Operation \subseteq {"mkdir", "import", "move", "copy", "delete", "walk", "compress", "property"}
BY FolderTreeIds, FolderTreeOps

(* Every set of numbers has a least one.                                   *)
LEMMA LeastNumber ==
  ASSUME NEW S \in SUBSET Nat, S # {}
  PROVE  \E d \in S : \A e \in S : d <= e
<1> DEFINE R == OpToRel(<, Nat)
<1>1. IsWellFoundedOn(R, Nat)
  BY NatLessThanWellFounded
<1> HIDE DEF R
<1>2. PICK d \in S : \A y \in S : ~ (<<y, d>> \in R)
  BY <1>1, WFMin
<1>3. \A x, y \in Nat : x < y => <<x, y>> \in R
  BY Zenon DEF R, OpToRel
<1>4. \A e \in S : ~ (e < d)
  BY <1>2, <1>3
<1>5. \A e \in S : e \in Nat /\ d \in Nat /\ ~ (e < d)
  BY <1>4
<1> QED BY <1>5

(* The next id of a table is one that is free.                             *)
LEMMA NextFolderFree ==
  ASSUME FolderLeft
  PROVE  NextFolder \in FolderId /\ parent[NextFolder] = Absent
<1> DEFINE S == {d \in FolderId : parent[d] = Absent}
<1>1. S # {} /\ S \in SUBSET Nat
  BY Constants DEF FolderLeft
<1>2. \E d \in S : \A e \in S : d <= e
  BY <1>1, LeastNumber
<1>3. \E d \in FolderId : parent[d] = Absent /\ \A e \in FolderId : parent[e] = Absent => d <= e
  BY <1>2
<1> QED BY <1>3 DEF NextFolder

LEMMA NextFileFree ==
  ASSUME FileLeft
  PROVE  NextFile \in FileId /\ home[NextFile] = Absent
<1> DEFINE S == {f \in FileId : home[f] = Absent}
<1>1. S # {} /\ S \in SUBSET Nat
  BY Constants DEF FileLeft
<1>2. \E f \in S : \A g \in S : f <= g
  BY <1>1, LeastNumber
<1>3. \E f \in FileId : home[f] = Absent /\ \A g \in FileId : home[g] = Absent => f <= g
  BY <1>2
<1> QED BY <1>3 DEF NextFile

LEMMA IdleType == Idle \in ReqState
BY Constants DEF Idle, ReqState

(* A request that has just been made, or has come to its end.              *)
LEMMA FinishType ==
  ASSUME TypeOK, Stages, NEW r \in Request, NEW pc \in {"done", "failed"}, Finish(r, pc)
  PROVE  req' \in [Request -> ReqState] /\ Stages'
<1>1. [Idle EXCEPT !.pc = pc] \in ReqState
  BY IdleType DEF ReqState
<1>2. req' = [req EXCEPT ![r] = [Idle EXCEPT !.pc = pc]]
  BY DEF Finish
<1>3. req' \in [Request -> ReqState]
  BY <1>1, <1>2 DEF TypeOK
<1>4. req'[r].pc = pc
  BY <1>2, IdleType DEF TypeOK, ReqState
<1>5. req'[r].op = "none"
  BY <1>2 DEF TypeOK, Idle
<1>6. \A q \in Request \ {r} : req'[q] = req[q]
  BY <1>2 DEF TypeOK
<1>7. Stages'
  BY <1>4, <1>5, <1>6 DEF Stages, Stage
<1> QED BY <1>3, <1>7

(* A step changes one request.                                              *)
LEMMA StepType ==
  ASSUME TypeOK, Stages, NEW r \in Request, req'[r] \in ReqState,
         \E h : req' = [req EXCEPT ![r] = h], Stage(r)'
  PROVE  req' \in [Request -> ReqState] /\ Stages'
<1>1. PICK h : req' = [req EXCEPT ![r] = h]
  OBVIOUS
<1>2. /\ req' \in [Request -> ReqState]
      /\ \A q \in Request \ {r} : req'[q] = req[q]
  BY <1>1 DEF TypeOK
<1> QED BY <1>2 DEF Stages, Stage

LEMMA StartType ==
  ASSUME TypeOK, Stages, NEW r \in Request, NEW first \in ReqState, Start(r, first),
         first.pc \in {"mkdir", "import", "folders", "copy", "entries"} => first.dst \in FolderId,
         first.pc = "mkdir" => first.levels \in 1..2 /\ first.op \in {"mkdir", "import"},
         first.pc = "trace" => first.op = "property",
         first.pc = "walk" => first.op = "walk",
         first.pc = "compress" => first.op = "compress",
         first.pc \in {"mkdir", "folders", "entries", "list", "walk", "compress", "trace"},
         first.pc = "folders" => first.op = "move" /\ first.src \in FolderId,
         first.op = "move" => first.pc = "folders",
         first.pc = "list" => first.op \in {"delete", "copy", "compress", "property"},
         first.op = "copy" => first.dst \in FolderId,
         first.pc = "entries" => first.op = "copy" /\ first.listed = {},
         first.pc = "trace" \/ first.op = "property" => first.dirs # {}
  PROVE  TypeOK' /\ Stages'
<1>1. PICK t : /\ t \subseteq FolderId \cup {Absent}
               /\ req' = [req EXCEPT ![r] = [first EXCEPT !.touched = t]]
  <2> DEFINE T == Subtree(first.dirs \cup IF first.levels > 0 THEN {first.dst} ELSE {})
                      \cup {first.src, first.dst}
                      \cup {home[f] : f \in first.files \cap LiveFiles}
  <2>1. T \subseteq FolderId \cup {Absent}
    <3>1. \A f \in LiveFiles : home[f] \in FolderId
      BY DEF TypeOK, LiveFiles
    <3>2. first.src \in FolderId \cup {Absent} /\ first.dst \in FolderId \cup {Absent}
      BY DEF ReqState
    <3> QED BY <3>1, <3>2 DEF Subtree
  <2> HIDE DEF T
  <2>2. req' = [req EXCEPT ![r] = [first EXCEPT !.touched = IF calm THEN T ELSE {}]]
    BY DEF Start, T
  <2> QED BY <2>1, <2>2
<1> DEFINE h == [first EXCEPT !.touched = t]
<1>2. h \in ReqState
  BY <1>1 DEF ReqState
<1>3. req'[r] = h
  BY <1>1 DEF TypeOK
<1>4. /\ h.pc = first.pc /\ h.op = first.op /\ h.levels = first.levels /\ h.dst = first.dst
      /\ h.src = first.src /\ h.listed = first.listed /\ h.dirs = first.dirs
  BY DEF ReqState
<1> HIDE DEF h
<1>5. Stage(r)'
  BY <1>3, <1>4 DEF Stage
<1>6. \E g : req' = [req EXCEPT ![r] = g]
  BY <1>1
<1>7. req' \in [Request -> ReqState] /\ Stages'
  BY <1>2, <1>3, <1>5, <1>6, StepType
<1> QED BY <1>7 DEF Start, TypeOK, rows

LEMMA MakeFolderType ==
  ASSUME TypeOK, Stages, NEW r \in Request, MakeFolder(r)
  PROVE  TypeOK' /\ Stages'
<1>0. req[r] \in ReqState /\ req[r].pc = "mkdir" /\ req[r].dst \in FolderId /\ req[r].levels \in 1..2
  BY DEF TypeOK, Stages, Stage, MakeFolder
<1>1. CASE Finish(r, "failed") /\ UNCHANGED parent
  BY <1>1, FinishType DEF MakeFolder, TypeOK
<1>2. ASSUME NEW d \in Children({req[r].dst}) \cup (IF FolderLeft THEN {NextFolder} ELSE {}),
             parent' = [parent EXCEPT ![d] = req[r].dst],
             req' = [req EXCEPT ![r].dst = d, ![r].levels = @ - 1,
                          ![r].pc = IF req[r].levels > 1 THEN "mkdir"
                                    ELSE IF req[r].op = "import" THEN "import" ELSE "done"]
      PROVE  TypeOK' /\ Stages'
  <2>1. d \in FolderId
    BY <1>2, NextFolderFree DEF Children
  <2>2. parent' \in [FolderId -> FolderId \cup {Absent, Gone, Top}]
    BY <1>0, <1>2 DEF TypeOK
  <2>3. req'[r] = [req[r] EXCEPT !.dst = d, !.levels = req[r].levels - 1,
                     !.pc = IF req[r].levels > 1 THEN "mkdir"
                                    ELSE IF req[r].op = "import" THEN "import" ELSE "done"]
    BY <1>2 DEF TypeOK
  <2>4. req[r].levels - 1 \in 0..2 /\ (req[r].levels > 1 => req[r].levels - 1 \in 1..2)
    BY <1>0
  <2>5. req'[r] \in ReqState
    BY <1>0, <2>1, <2>3, <2>4, ZenonT(60) DEF ReqState
  <2>6. /\ req'[r].dst = d /\ req'[r].op = req[r].op /\ req'[r].dirs = req[r].dirs
        /\ req'[r].levels = req[r].levels - 1
        /\ req'[r].pc \in {"mkdir", "import", "done"}
        /\ req'[r].pc = "mkdir" => req[r].levels > 1
        /\ req'[r].pc = "import" => req[r].op = "import"
    BY <1>0, <2>3 DEF ReqState
  <2>7. Stage(r)'
    <3>1. req[r].op \in {"mkdir", "import"}
      BY <1>0 DEF Stages, Stage
    <3> QED BY <2>1, <2>4, <2>6, <3>1 DEF Stage
  <2>8. \E h : req' = [req EXCEPT ![r] = h]
    BY <1>2
  <2> QED BY <2>2, <2>5, <2>7, <2>8, StepType DEF MakeFolder, TypeOK
<1> QED BY <1>1, <1>2 DEF MakeFolder

LEMMA ImportFileType ==
  ASSUME TypeOK, Stages, NEW r \in Request, ImportFile(r)
  PROVE  TypeOK' /\ Stages'
<1>1. req[r].dst \in FolderId
  BY DEF Stages, Stage, ImportFile
<1>2. home' \in [FileId -> FolderId \cup {Absent, Gone}]
  BY <1>1, NextFileFree DEF ImportFile, TypeOK
<1> QED BY <1>2, FinishType DEF ImportFile, TypeOK

(* A step that only moves the request on to its next stage.                *)
LEMMA ToType ==
  ASSUME TypeOK, Stages, NEW r \in Request, NEW pc, To(r, pc),
         \/ pc = "files" /\ req[r].op = "move" /\ req[r].pc = "folders"
         \/ pc = "dirs" /\ req[r].op = "delete"
  PROVE  req' \in [Request -> ReqState] /\ Stages'
<1>0. req[r] \in ReqState
  BY DEF TypeOK
<1>1. req' = [req EXCEPT ![r] = [req[r] EXCEPT !.pc = pc]]
  BY DEF To
<1>2. req'[r] = [req[r] EXCEPT !.pc = pc]
  BY <1>1 DEF TypeOK
<1>3. req'[r] \in ReqState
  BY <1>0, <1>2 DEF ReqState
<1>4. /\ req'[r].pc = pc /\ req'[r].op = req[r].op
      /\ req'[r].src = req[r].src /\ req'[r].dst = req[r].dst
  BY <1>0, <1>2 DEF ReqState
<1>5. Stage(r)'
  BY <1>4 DEF Stage, Stages
<1> QED BY <1>1, <1>3, <1>5, StepType

LEMMA MoveFolderToType ==
  ASSUME TypeOK, Stages, NEW r \in Request, MoveFolderTo(r)
  PROVE  TypeOK' /\ Stages'
<1>1. req[r].pc = "folders" /\ req[r].op = "move" /\ req[r].dst \in FolderId
  BY DEF Stages, Stage, MoveFolderTo
<1>2. CASE req[r].dst \in req[r].dirs
  BY <1>2, FinishType DEF MoveFolderTo, TypeOK
<1>3. CASE req[r].dst \notin req[r].dirs
  BY <1>1, <1>3, ToType DEF MoveFolderTo, TypeOK
<1> QED BY <1>2, <1>3

LEMMA MoveFileToType ==
  ASSUME TypeOK, Stages, NEW r \in Request, MoveFileTo(r)
  PROVE  TypeOK' /\ Stages'
<1>1. req[r].dst \in FolderId
  BY SMTT(40) DEF Stages, Stage, MoveFileTo
<1> QED BY <1>1, FinishType DEF MoveFileTo, TypeOK

LEMMA ListLevelType ==
  ASSUME TypeOK, Stages, NEW r \in Request, ListLevel(r)
  PROVE  TypeOK' /\ Stages'
<1> DEFINE next == Children(req[r].frontier)
           more == {<<d, parent[d]>> : d \in next}
           pc == IF next = {} THEN AfterListing(req[r].op) ELSE "list"
<1>0. req[r] \in ReqState /\ req[r].pc = "list" /\ req[r].op \in {"delete", "copy", "compress", "property"}
  BY DEF TypeOK, Stages, Stage, ListLevel
<1>1. next \subseteq FolderId /\ \A d \in next : parent[d] \in FolderId
  BY <1>0 DEF Children, ReqState
<1>2. more \in SUBSET (FolderId \X (FolderId \cup {Top}))
  BY <1>1
<1>3. /\ AfterListing(req[r].op) \in {"files", "copy", "queued", "trace"}
      /\ AfterListing(req[r].op) = "files" <=> req[r].op = "delete"
      /\ AfterListing(req[r].op) = "copy" <=> req[r].op = "copy"
      /\ AfterListing(req[r].op) = "trace" <=> req[r].op = "property"
      /\ AfterListing(req[r].op) = "queued" <=> req[r].op = "compress"
  BY <1>0 DEF AfterListing
<1>4. /\ req'[r] = [req[r] EXCEPT !.listed = req[r].listed \cup more, !.frontier = next, !.pc = pc]
      /\ \E h : req' = [req EXCEPT ![r] = h]
      /\ UNCHANGED <<rows, calm>>
  BY DEF TypeOK, ListLevel
<1> HIDE DEF next, more
<1>5. req'[r] \in ReqState
  <2>1. pc \in {"list", "files", "copy", "queued", "trace"}
    BY <1>3
  <2>2. /\ req[r].listed \cup more \in SUBSET (FolderId \X (FolderId \cup {Top}))
        /\ next \in SUBSET FolderId
    BY <1>0, <1>1, <1>2 DEF ReqState
  <2> HIDE DEF pc
  <2>3. req'[r] = [req[r] EXCEPT !.listed = req[r].listed \cup more, !.frontier = next, !.pc = pc]
    BY <1>4
  <2> QED BY <1>0, <2>1, <2>2, <2>3, ZenonT(60) DEF ReqState
<1>6. req'[r].pc = pc /\ req'[r].op = req[r].op /\ req'[r].dst = req[r].dst /\ req'[r].dirs = req[r].dirs
  BY <1>0, <1>4 DEF ReqState
<1>7. Stage(r)'
  <2>1. pc \in {"list", "files", "copy", "queued", "trace"}
    BY <1>3
  <2>2. /\ pc = "files" => req[r].op = "delete"
        /\ pc = "copy" => req[r].op = "copy"
        /\ pc = "trace" => req[r].op = "property"
        /\ pc = "queued" => req[r].op = "compress"
    BY <1>0, <1>3
  <2>3. /\ req[r].op = "copy" => req[r].dst \in FolderId
        /\ req[r].op = "property" => req[r].dirs # {}
    BY <1>0 DEF Stages, Stage
  <2> HIDE DEF pc
  <2> QED BY <1>0, <1>6, <2>1, <2>2, <2>3 DEF Stage
<1> QED BY <1>4, <1>5, <1>7, StepType DEF TypeOK, rows

(* The steps of a copy.                                                     *)
LEMMA InsertFolderType ==
  ASSUME TypeOK, Stages, NEW r \in Request, InsertFolder(r)
  PROVE  TypeOK' /\ Stages'
<1>0. req[r] \in ReqState /\ req[r].pc = "copy" /\ req[r].op = "copy" /\ req[r].dst \in FolderId
  BY DEF TypeOK, Stages, Stage, InsertFolder
<1>1. NextFolder \in FolderId
  BY NextFolderFree DEF InsertFolder
<1>2. PICK x \in req[r].listed :
             /\ req[r].copies[x[1]] = Absent /\ NewParent(r, x[1], x[2]) # Absent
             /\ parent' = [parent EXCEPT ![NextFolder] = NewParent(r, x[1], x[2])]
             /\ req' = [req EXCEPT ![r].copies[x[1]] = NextFolder]
  BY DEF InsertFolder
<1>3. x \in FolderId \X (FolderId \cup {Top}) /\ req[r].copies \in [FolderId -> FolderId \cup {Absent}]
  BY <1>0 DEF ReqState
<1>4. NewParent(r, x[1], x[2]) \in FolderId
  BY <1>0, <1>2, <1>3 DEF NewParent
<1>5. parent' \in [FolderId -> FolderId \cup {Absent, Gone, Top}]
  BY <1>2, <1>4 DEF TypeOK
<1>6. req' = [req EXCEPT ![r] = [req[r] EXCEPT !.copies = [req[r].copies EXCEPT ![x[1]] = NextFolder]]]
  BY <1>0, <1>2 DEF TypeOK
<1>7. req'[r] = [req[r] EXCEPT !.copies = [req[r].copies EXCEPT ![x[1]] = NextFolder]]
  BY <1>6 DEF TypeOK
<1>8. [req[r].copies EXCEPT ![x[1]] = NextFolder] \in [FolderId -> FolderId \cup {Absent}]
  BY <1>1, <1>3
<1>9. req'[r] \in ReqState
  BY <1>0, <1>7, <1>8 DEF ReqState
<1>10. req'[r].pc = "copy" /\ req'[r].op = "copy" /\ req'[r].dst = req[r].dst
  BY <1>0, <1>7 DEF ReqState
<1>11. Stage(r)'
  BY <1>0, <1>10 DEF Stage
<1> QED BY <1>5, <1>6, <1>9, <1>11, StepType DEF InsertFolder, TypeOK

LEMMA CollectFilesType ==
  ASSUME TypeOK, Stages, NEW r \in Request, CollectFiles(r)
  PROVE  TypeOK' /\ Stages'
<1> DEFINE inside == {<<f, req[r].copies[home[f]]>> : f \in FilesIn(IdsOf(req[r].listed))}
           single == {<<f, req[r].dst>> : f \in {g \in req[r].files : home[g] = req[r].src}}
<1>0. /\ req[r] \in ReqState /\ req[r].pc \in {"copy", "entries"} /\ req[r].op = "copy"
      /\ req[r].dst \in FolderId
  BY DEF TypeOK, Stages, Stage, CollectFiles
<1>1. inside \subseteq FileId \X FolderId
  <2> SUFFICES ASSUME NEW f \in FilesIn(IdsOf(req[r].listed))
               PROVE  f \in FileId /\ req[r].copies[home[f]] \in FolderId
    OBVIOUS
  <2>1. f \in FileId /\ home[f] \in IdsOf(req[r].listed)
    BY DEF FilesIn
  <2>2. home[f] \in FolderId
    BY <1>0, <2>1 DEF ReqState, IdsOf
  <2>3. req[r].pc = "copy" /\ Uncopied(r) = {}
    <3>1. CASE req[r].pc = "copy"
      BY <3>1 DEF CollectFiles
    <3>2. CASE req[r].pc = "entries"
      BY <2>1, <3>2 DEF Stages, Stage, IdsOf
    <3> QED BY <1>0, <3>1, <3>2
  <2>4. req[r].copies[home[f]] # Absent
    BY <2>1, <2>3 DEF Uncopied
  <2> QED BY <1>0, <2>1, <2>2, <2>4 DEF ReqState
<1>2. single \subseteq FileId \X FolderId
  BY <1>0 DEF ReqState
<1>3. PICK t \in SUBSET (inside \cup single) :
        /\ req' = [req EXCEPT ![r].pc = "insert", ![r].todo = (inside \cup single) \ t]
        /\ UNCHANGED <<rows, calm>>
  BY DEF CollectFiles
<1>4. (inside \cup single) \ t \subseteq FileId \X FolderId
  BY <1>1, <1>2
<1> HIDE DEF inside, single
<1>5. req'[r] = [req[r] EXCEPT !.pc = "insert", !.todo = (inside \cup single) \ t]
  BY <1>3 DEF TypeOK
<1>6. req'[r] \in ReqState
  BY <1>0, <1>4, <1>5, ZenonT(60) DEF ReqState
<1>7. req'[r].pc = "insert" /\ req'[r].op = "copy"
  BY <1>0, <1>5 DEF ReqState
<1>8. Stage(r)'
  BY <1>7 DEF Stage
<1> QED BY <1>3, <1>6, <1>8, StepType DEF TypeOK, rows

LEMMA InsertFileType ==
  ASSUME TypeOK, Stages, NEW r \in Request, InsertFile(r)
  PROVE  TypeOK' /\ Stages'
<1>0. req[r] \in ReqState /\ req[r].pc = "insert" /\ req[r].op = "copy"
  BY DEF TypeOK, Stages, Stage, InsertFile
<1>1. PICK x \in req[r].todo :
       /\ home' = [home EXCEPT ![NextFile] = x[2]]
       /\ req' = [req EXCEPT ![r].todo = @ \ {x}]
  BY DEF InsertFile
<1>2. x[2] \in FolderId
  BY <1>0, <1>1 DEF ReqState
<1>3. home' \in [FileId -> FolderId \cup {Absent, Gone}]
  BY <1>1, <1>2 DEF TypeOK
<1>4. req'[r] = [req[r] EXCEPT !.todo = req[r].todo \ {x}] /\ \E h : req' = [req EXCEPT ![r] = h]
  BY <1>1 DEF TypeOK
<1>5. req'[r] \in ReqState
  BY <1>0, <1>4 DEF ReqState
<1>6. req'[r].pc = "insert" /\ req'[r].op = "copy"
  BY <1>0, <1>4 DEF ReqState
<1>7. Stage(r)'
  BY <1>6 DEF Stage
<1> QED BY <1>3, <1>4, <1>5, <1>7, StepType DEF InsertFile, TypeOK

(* The steps of a deletion.                                                 *)
LEMMA ListDeleteFilesType ==
  ASSUME TypeOK, Stages, NEW r \in Request, ListDeleteFiles(r)
  PROVE  TypeOK' /\ Stages'
<1> DEFINE t == {<<f, home[f]>> : f \in FilesIn(Doomed(r)) \cup (req[r].files \cap LiveFiles)}
<1>0. req[r] \in ReqState /\ req[r].op = "delete"
  BY DEF TypeOK, ListDeleteFiles
<1>1. t \subseteq FileId \X FolderId
  <2>1. \A f \in FilesIn(Doomed(r)) : f \in FileId /\ home[f] \in FolderId
    BY <1>0 DEF FilesIn, Doomed, IdsOf, ReqState
  <2>2. \A f \in LiveFiles : f \in FileId /\ home[f] \in FolderId
    BY DEF LiveFiles, TypeOK
  <2> QED BY <2>1, <2>2
<1>2. /\ req'[r] = [req[r] EXCEPT !.pc = "rows", !.todo = t]
      /\ \E h : req' = [req EXCEPT ![r] = h]
  BY DEF TypeOK, ListDeleteFiles
<1> HIDE DEF t
<1>3. req'[r] \in ReqState
  BY <1>0, <1>1, <1>2, ZenonT(60) DEF ReqState
<1>4. req'[r].pc = "rows" /\ req'[r].op = "delete"
  BY <1>0, <1>2 DEF ReqState
<1>5. Stage(r)'
  BY <1>4 DEF Stage
<1> QED BY <1>2, <1>3, <1>5, StepType DEF ListDeleteFiles, TypeOK, rows

LEMMA DeleteRowsType ==
  ASSUME TypeOK, Stages, NEW r \in Request, DeleteRows(r)
  PROVE  TypeOK' /\ Stages'
<1>0. req[r].op = "delete"
  BY DEF Stages, Stage, DeleteRows
<1>1. home' \in [FileId -> FolderId \cup {Absent, Gone}]
  BY DEF DeleteRows, TypeOK
<1>2. To(r, "dirs") \/ Finish(r, "failed")
  BY DEF DeleteRows
<1>3. req' \in [Request -> ReqState] /\ Stages'
  BY <1>0, <1>2, FinishType, ToType
<1> QED BY <1>1, <1>3 DEF DeleteRows, TypeOK

LEMMA DeleteFoldersType ==
  ASSUME TypeOK, Stages, NEW r \in Request, DeleteFolders(r)
  PROVE  TypeOK' /\ Stages'
<1>1. parent' \in [FolderId -> FolderId \cup {Absent, Gone, Top}]
  BY DEF DeleteFolders, TypeOK
<1> QED BY <1>1, FinishType DEF DeleteFolders, TypeOK

(* The steps of a request that only reads.                                  *)
LEMMA ReaderType ==
  ASSUME TypeOK, Stages, NEW r \in Request, NEW D \in SUBSET FolderId,
         req[r].pc \in {"walk", "compress", "queued"},
         \/ req' = [req EXCEPT ![r].frontier = D]
         \/ /\ req[r].pc = "queued"
            /\ req' = [req EXCEPT ![r].pc = "compress", ![r].listed = {}, ![r].frontier = D]
  PROVE  req' \in [Request -> ReqState] /\ Stages'
<1>0. req[r] \in ReqState /\ Stage(r)
  BY DEF TypeOK, Stages
<1>1. /\ \/ req'[r] = [req[r] EXCEPT !.frontier = D]
         \/ /\ req[r].pc = "queued"
            /\ req'[r] = [req[r] EXCEPT !.pc = "compress", !.listed = {}, !.frontier = D]
      /\ \E h : req' = [req EXCEPT ![r] = h]
  BY DEF TypeOK
<1>2. req'[r] \in ReqState
  BY <1>0, <1>1 DEF ReqState
<1>3. /\ req'[r].pc = req[r].pc \/ (req[r].pc = "queued" /\ req'[r].pc = "compress")
      /\ req'[r].op = req[r].op /\ req'[r].dirs = req[r].dirs
  BY <1>0, <1>1 DEF ReqState
<1>4. Stage(r)'
  BY <1>0, <1>3 DEF Stage
<1> QED BY <1>1, <1>2, <1>4, StepType

LEMMA VisitFolderType ==
  ASSUME TypeOK, Stages, NEW r \in Request, VisitFolder(r)
  PROVE  TypeOK' /\ Stages'
<1>1. req[r].frontier \subseteq FolderId /\ UNCHANGED <<rows, calm>> /\ req[r].pc = "walk"
  BY DEF TypeOK, ReqState, VisitFolder
<1>2. PICK d \in req[r].frontier :
             \/ Finish(r, "done")
             \/ req' = [req EXCEPT ![r].frontier = (req[r].frontier \ {d}) \cup Children({d})]
  BY DEF VisitFolder
<1>3. (req[r].frontier \ {d}) \cup Children({d}) \in SUBSET FolderId
  BY <1>1 DEF Children
<1>4. req' \in [Request -> ReqState] /\ Stages'
  BY <1>1, <1>2, <1>3, FinishType, ReaderType
<1> QED BY <1>1, <1>4 DEF TypeOK, rows

LEMMA CompressTaskType ==
  ASSUME TypeOK, Stages, NEW r \in Request, CompressTask(r)
  PROVE  TypeOK' /\ Stages'
<1>1. req[r].dirs \cap Live \in SUBSET FolderId /\ UNCHANGED <<rows, calm>> /\ req[r].pc = "queued"
  BY DEF Live, CompressTask
<1>2. req' \in [Request -> ReqState] /\ Stages'
  BY <1>1, ReaderType DEF CompressTask
<1> QED BY <1>1, <1>2 DEF TypeOK, rows

LEMMA CompressFolderType ==
  ASSUME TypeOK, Stages, NEW r \in Request, CompressFolder(r)
  PROVE  TypeOK' /\ Stages'
<1>1. req[r].frontier \subseteq FolderId /\ UNCHANGED <<rows, calm>> /\ req[r].pc = "compress"
  BY DEF TypeOK, ReqState, CompressFolder
<1>2. ASSUME NEW d \in req[r].frontier,
             req' = [req EXCEPT ![r].frontier = (@ \ {d}) \cup Children({d})]
      PROVE  req' \in [Request -> ReqState] /\ Stages'
  <2>1. (req[r].frontier \ {d}) \cup Children({d}) \in SUBSET FolderId
    BY <1>1 DEF Children
  <2>2. req' = [req EXCEPT ![r].frontier = (req[r].frontier \ {d}) \cup Children({d})]
    BY <1>2 DEF TypeOK
  <2> QED BY <1>1, <2>1, <2>2, ReaderType
<1>3. req' \in [Request -> ReqState] /\ Stages'
  BY <1>2, FinishType DEF CompressFolder
<1> QED BY <1>1, <1>3 DEF TypeOK, rows

LEMMA TraceRootType ==
  ASSUME TypeOK, Stages, NEW r \in Request, TraceRoot(r)
  PROVE  TypeOK' /\ Stages'
<1> DEFINE d == CHOOSE x \in req[r].dirs : TRUE
<1>0. req[r] \in ReqState /\ req[r].pc = "trace" /\ UNCHANGED <<rows, calm>>
  BY DEF TypeOK, TraceRoot
<1>1. CASE parent[d] \in Live
  <2>1. /\ req'[r] = [req[r] EXCEPT !.dirs = {parent[d]}, !.listed = {}]
        /\ \E h : req' = [req EXCEPT ![r] = h]
    <3>1. parent[d] # Top
      BY <1>1, Constants DEF Live
    <3>2. req' = [req EXCEPT ![r].dirs = {parent[d]}, ![r].listed = {}]
      BY <1>1, <3>1 DEF TraceRoot
    <3> HIDE DEF d
    <3> QED BY <3>2 DEF TypeOK
  <2>2. req'[r] \in ReqState
    <3>1. {parent[d]} \in SUBSET FolderId
      BY <1>1 DEF Live
    <3> HIDE DEF d
    <3> QED BY <1>0, <2>1, <3>1, ZenonT(60) DEF ReqState
  <2>3. req'[r].pc = "trace" /\ req'[r].op = req[r].op /\ req'[r].dirs # {}
    BY <1>0, <2>1, ZenonT(60) DEF ReqState
  <2>4. Stage(r)'
    BY <1>0, <2>3 DEF Stages, Stage
  <2> QED BY <1>0, <2>1, <2>2, <2>4, StepType DEF TypeOK, rows
<1>2. CASE parent[d] \notin Live
  <2>1. Finish(r, "done") \/ Finish(r, "failed")
    BY <1>2 DEF TraceRoot
  <2> QED BY <1>0, <2>1, FinishType DEF TypeOK, rows
<1> QED BY <1>1, <1>2

LEMMA StepTypes ==
  ASSUME TypeOK, Stages, NEW r \in Request, Step(r) \/ Fails(r)
  PROVE  TypeOK' /\ Stages'
<1>1. CASE EndCopy(r) \/ Fails(r)
  BY <1>1, FinishType DEF EndCopy, Fails, TypeOK, rows
<1> QED
  BY <1>1, MakeFolderType, ImportFileType, MoveFolderToType, MoveFileToType, ListLevelType,
     InsertFolderType, CollectFilesType, InsertFileType, ListDeleteFilesType, DeleteRowsType,
     DeleteFoldersType, VisitFolderType, CompressTaskType, CompressFolderType, TraceRootType
  DEF Step

-----------------------------------------------------------------------------
(* What a request looks like when it is made.                               *)
Listed0(first) ==
  /\ first.frontier = first.dirs
  /\ first.listed = {<<d, parent[d]>> : d \in first.dirs}

Arrives(first) ==
  /\ first \in ReqState /\ first.copies = Idle.copies /\ first.todo = {}
  /\ first.dirs \subseteq Live
  /\ first.src \in Live \cup {Absent} /\ first.dst \in Live \cup {Absent}
  /\ first.levels > 0 => first.dst \in Live
  /\ \/ first.op \in {"mkdir", "import"} /\ first.pc = "mkdir" /\ first.levels \in 1..2 /\ first.dst \in Live
     \/ /\ first.op = "move" /\ first.pc = "folders" /\ first.src \in Live /\ first.dst \in Live
        /\ calm => first.dst \notin Subtree(first.dirs)
     \/ /\ first.op = "copy" /\ first.pc = "list" /\ first.dst \in Live /\ first.dirs = {first.src}
        /\ Listed0(first)
     \/ first.op = "copy" /\ first.pc = "entries" /\ first.dst \in Live /\ first.listed = {}
     \/ first.op \in {"delete", "compress"} /\ first.pc = "list" /\ Listed0(first)
     \/ first.op = "property" /\ first.pc = "list" /\ Listed0(first) /\ first.dirs # {}
     \/ first.op = "walk" /\ first.pc = "walk"
     \/ first.op = "compress" /\ first.pc = "compress"
     \/ first.op = "property" /\ first.pc = "trace" /\ first.dirs # {}

LEMMA LiveFolders ==
  ASSUME TypeOK
  PROVE  /\ Live \subseteq FolderId /\ \A d \in Live : parent[d] \in FolderId \cup {Top}
         /\ LiveFiles \subseteq FileId /\ \A f \in LiveFiles : home[f] \in FolderId
BY DEF TypeOK, Live, LiveFiles

LEMMA CreateDirectoryArrives ==
  ASSUME NEW r, NEW d \in Live, NEW n \in 1..2, CreateDirectory(r, d, n)
  PROVE  \E first : Start(r, first) /\ Arrives(first)
<1> DEFINE first == [Idle EXCEPT !.op = "mkdir", !.pc = "mkdir", !.dst = d, !.levels = n]
<1>1. Start(r, first)
  BY DEF CreateDirectory
<1>2. "mkdir" \in Operation
  BY <1>1 DEF Start, Idle
<1>3. Arrives(first)
  <2>1. first \in ReqState
    <3>1. d \in FolderId /\ n \in 0..2
      BY DEF Live
    <3>2. Idle \in ReqState
      BY IdleType
    <3> QED BY <1>2, <3>1, <3>2, ZenonT(60) DEF ReqState
  <2>2. /\ first.op = "mkdir" /\ first.pc = "mkdir" /\ first.levels \in 1..2 /\ first.dst = d
        /\ first.dirs = {} /\ first.src = Absent /\ first.copies = Idle.copies /\ first.todo = {}
    BY DEF Idle
  <2> HIDE DEF first
  <2> QED BY <2>1, <2>2 DEF Arrives
<1> QED BY <1>1, <1>3

LEMMA ImportFilesArrives ==
  ASSUME NEW r, NEW d \in Live, ImportFiles(r, d)
  PROVE  \E first : Start(r, first) /\ Arrives(first)
<1> DEFINE first == [Idle EXCEPT !.op = "import", !.pc = "mkdir", !.dst = d, !.levels = 1]
<1>1. Start(r, first)
  BY DEF ImportFiles
<1>2. "import" \in Operation
  BY <1>1 DEF Start, Idle
<1>3. Arrives(first)
  <2>1. first \in ReqState
    <3>1. d \in FolderId /\ 1 \in 0..2
      BY DEF Live
    <3>2. Idle \in ReqState
      BY IdleType
    <3> QED BY <1>2, <3>1, <3>2, ZenonT(60) DEF ReqState
  <2>2. /\ first.op = "import" /\ first.pc = "mkdir" /\ first.levels \in 1..2 /\ first.dst = d
        /\ first.dirs = {} /\ first.src = Absent /\ first.copies = Idle.copies /\ first.todo = {}
    BY DEF Idle
  <2> HIDE DEF first
  <2> QED BY <2>1, <2>2 DEF Arrives
<1> QED BY <1>1, <1>3

LEMMA MoveArrives ==
  ASSUME NEW r, NEW D \in SUBSET Live, NEW F \in SUBSET FileId,
         NEW s \in Live, NEW d \in Live, Move(r, D, F, s, d)
  PROVE  \E first : Start(r, first) /\ Arrives(first)
<1> DEFINE first == [Idle EXCEPT !.op = "move", !.pc = "folders", !.dirs = D, !.files = F,
                                 !.src = s, !.dst = d]
<1>1. Start(r, first)
  BY DEF Move
<1>2. "move" \in Operation
  BY <1>1 DEF Start, Idle
<1>3. first \in ReqState
  BY <1>2, IdleType, ZenonT(60) DEF ReqState, Live, Idle
<1>4. /\ first.op = "move" /\ first.pc = "folders" /\ first.dirs = D /\ first.src = s /\ first.dst = d
      /\ first.copies = Idle.copies /\ first.todo = {}
  BY DEF Idle
<1>5. calm => d \notin Subtree(D)
  BY DEF Move
<1> HIDE DEF first
<1>6. Arrives(first)
  BY <1>3, <1>4, <1>5 DEF Arrives
<1> QED BY <1>1, <1>6

(* A request that lists folders first.                                      *)
LEMMA ListingType ==
  ASSUME TypeOK, NEW r, NEW D \in SUBSET Live
  PROVE  /\ Listing(r, D) \in ReqState
         /\ Listing(r, D) = [Idle EXCEPT !.pc = "list", !.dirs = D, !.frontier = D,
                                         !.listed = {<<d, parent[d]>> : d \in D}]
<1> DEFINE L == {<<d, parent[d]>> : d \in D}
<1>1. D \cap Live = D
  OBVIOUS
<1>2. Listing(r, D) = [Idle EXCEPT !.pc = "list", !.dirs = D, !.frontier = D, !.listed = L]
  BY <1>1 DEF Listing
<1>3. D \in SUBSET FolderId /\ L \in SUBSET (FolderId \X (FolderId \cup {Top}))
  BY LiveFolders
<1> HIDE DEF L
<1>4. Listing(r, D) \in ReqState
  BY <1>2, <1>3, IdleType, ZenonT(60) DEF ReqState
<1> QED BY <1>2, <1>4 DEF L

LEMMA CopyFolderArrives ==
  ASSUME TypeOK, NEW r, NEW d \in Live, NEW t \in Live, CopyFolder(r, d, t)
  PROVE  \E first : Start(r, first) /\ Arrives(first)
<1> DEFINE L == {<<x, parent[x]>> : x \in {d}}
           first == [Listing(r, {d}) EXCEPT !.op = "copy", !.src = d, !.dst = t]
<1>1. Start(r, first)
  BY DEF CopyFolder
<1>2. Listing(r, {d}) \in ReqState /\ Listing(r, {d}) = [Idle EXCEPT !.pc = "list", !.dirs = {d},
                                         !.frontier = {d}, !.listed = L]
  BY ListingType
<1> HIDE DEF L
<1>3. first.op = "copy" /\ first.op \in Operation
  BY <1>1, <1>2 DEF Start, ReqState
<1>4. first \in ReqState
  BY <1>2, <1>3, LiveFolders, ZenonT(60) DEF ReqState
<1>5. /\ first.pc = "list" /\ first.dirs = {d} /\ first.frontier = {d} /\ first.listed = L
      /\ first.src = d /\ first.dst = t /\ first.copies = Idle.copies /\ first.todo = {}
      /\ first.levels = 0
  BY <1>2, ZenonT(60) DEF Idle
<1> HIDE DEF first
<1>6. Arrives(first)
  BY <1>3, <1>4, <1>5 DEF Arrives, Listed0, L
<1> QED BY <1>1, <1>6

LEMMA CopyFileArrives ==
  ASSUME TypeOK, NEW r, NEW f \in FileId, NEW s \in Live, NEW t \in Live, CopyFile(r, f, s, t)
  PROVE  \E first : Start(r, first) /\ Arrives(first)
<1> DEFINE first == [Idle EXCEPT !.op = "copy", !.pc = "entries", !.files = {f},
                                 !.src = s, !.dst = t]
<1>1. Start(r, first)
  BY DEF CopyFile
<1>2. "copy" \in Operation
  BY <1>1 DEF Start, Idle
<1>3. first \in ReqState
  BY <1>2, IdleType, LiveFolders, ZenonT(60) DEF ReqState, Idle
<1>4. Arrives(first)
  BY <1>3 DEF Arrives, Idle
<1> QED BY <1>1, <1>4

LEMMA DeleteArrives ==
  ASSUME TypeOK, NEW r, NEW D \in SUBSET Live, NEW F \in SUBSET FileId, Delete(r, D, F)
  PROVE  \E first : Start(r, first) /\ Arrives(first)
<1> DEFINE L == {<<x, parent[x]>> : x \in D}
           first == [Listing(r, D) EXCEPT !.op = "delete", !.files = F]
<1>1. Start(r, first)
  BY DEF Delete
<1>2. Listing(r, D) \in ReqState /\ Listing(r, D) = [Idle EXCEPT !.pc = "list", !.dirs = D,
                                         !.frontier = D, !.listed = L]
  BY ListingType
<1> HIDE DEF L
<1>3. first.op = "delete" /\ first.op \in Operation
  BY <1>1, <1>2 DEF Start, ReqState
<1>4. first \in ReqState
  BY <1>2, <1>3, ZenonT(60) DEF ReqState
<1>5. /\ first.pc = "list" /\ first.dirs = D /\ first.frontier = D /\ first.listed = L
      /\ first.src = Absent /\ first.dst = Absent /\ first.copies = Idle.copies /\ first.todo = {}
      /\ first.levels = 0
  BY <1>2 DEF Idle
<1> HIDE DEF first
<1>6. Arrives(first)
  BY <1>3, <1>4, <1>5 DEF Arrives, Listed0, L
<1> QED BY <1>1, <1>6

LEMMA CreateCompressTaskArrives ==
  ASSUME TypeOK, NEW r, NEW D \in SUBSET Live, NEW F \in SUBSET FileId, NEW t,
         CreateCompressTask(r, D, F, t)
  PROVE  \E first : Start(r, first) /\ Arrives(first)
<1> DEFINE L == {<<x, parent[x]>> : x \in D}
           first == [Listing(r, D) EXCEPT !.op = "compress", !.files = F]
<1>1. Start(r, first)
  BY DEF CreateCompressTask
<1>2. Listing(r, D) \in ReqState /\ Listing(r, D) = [Idle EXCEPT !.pc = "list", !.dirs = D,
                                         !.frontier = D, !.listed = L]
  BY ListingType
<1> HIDE DEF L
<1>3. first.op = "compress" /\ first.op \in Operation
  BY <1>1, <1>2 DEF Start, ReqState
<1>4. first \in ReqState
  BY <1>2, <1>3, ZenonT(60) DEF ReqState
<1>5. /\ first.pc = "list" /\ first.dirs = D /\ first.frontier = D /\ first.listed = L
      /\ first.src = Absent /\ first.dst = Absent /\ first.copies = Idle.copies /\ first.todo = {}
      /\ first.levels = 0
  BY <1>2 DEF Idle
<1> HIDE DEF first
<1>6. Arrives(first)
  BY <1>3, <1>4, <1>5 DEF Arrives, Listed0, L
<1> QED BY <1>1, <1>6

LEMMA GetPropertyArrives ==
  ASSUME TypeOK, NEW r, NEW d \in Live, GetProperty(r, d)
  PROVE  \E first : Start(r, first) /\ Arrives(first)
<1> DEFINE L == {<<x, parent[x]>> : x \in {d}}
           first == [Listing(r, {d}) EXCEPT !.op = "property"]
<1>1. Start(r, first)
  BY DEF GetProperty
<1>2. Listing(r, {d}) \in ReqState /\ Listing(r, {d}) = [Idle EXCEPT !.pc = "list", !.dirs = {d},
                                         !.frontier = {d}, !.listed = L]
  BY ListingType
<1> HIDE DEF L
<1>3. first.op = "property" /\ first.op \in Operation
  BY <1>1, <1>2 DEF Start, ReqState
<1>4. first \in ReqState
  BY <1>2, <1>3, ZenonT(60) DEF ReqState
<1>5. /\ first.pc = "list" /\ first.dirs = {d} /\ first.frontier = {d} /\ first.listed = L
      /\ first.src = Absent /\ first.dst = Absent /\ first.copies = Idle.copies /\ first.todo = {}
      /\ first.levels = 0
  BY <1>2, ZenonT(60) DEF Idle
<1> HIDE DEF first
<1>6. Arrives(first)
  BY <1>3, <1>4, <1>5 DEF Arrives, Listed0, L
<1> QED BY <1>1, <1>6

LEMMA ReaderArrives ==
  ASSUME TypeOK, NEW r, NEW first, NEW D \in SUBSET Live, NEW F \in SUBSET FileId, Start(r, first),
         \/ first = [Idle EXCEPT !.op = "walk", !.pc = "walk", !.dirs = D, !.frontier = D]
         \/ first = [Idle EXCEPT !.op = "compress", !.pc = "compress", !.dirs = D, !.files = F,
                                 !.frontier = D]
         \/ first = [Idle EXCEPT !.op = "property", !.pc = "trace", !.dirs = D] /\ D # {}
  PROVE  Arrives(first)
<1>1. first.op \in Operation /\ D \subseteq FolderId
  BY LiveFolders DEF Start
<1>2. first \in ReqState
  <2>1. CASE first = [Idle EXCEPT !.op = "walk", !.pc = "walk", !.dirs = D, !.frontier = D]
    BY <1>1, <2>1, IdleType, ZenonT(60) DEF ReqState
  <2>2. CASE first = [Idle EXCEPT !.op = "compress", !.pc = "compress", !.dirs = D, !.files = F,
                                  !.frontier = D]
    BY <1>1, <2>2, IdleType, ZenonT(60) DEF ReqState
  <2>3. CASE first = [Idle EXCEPT !.op = "property", !.pc = "trace", !.dirs = D]
    BY <1>1, <2>3, IdleType, ZenonT(60) DEF ReqState
  <2> QED BY <2>1, <2>2, <2>3
<1>3. /\ first.levels = 0 /\ first.copies = Idle.copies /\ first.todo = {} /\ first.dirs = D
      /\ first.src = Absent /\ first.dst = Absent
      /\ \/ first.op = "walk" /\ first.pc = "walk"
         \/ first.op = "compress" /\ first.pc = "compress"
         \/ first.op = "property" /\ first.pc = "trace" /\ D # {}
  BY ZenonT(60) DEF Idle
<1> QED BY <1>2, <1>3 DEF Arrives

(* What a path leads to is there.                                           *)
LEMMA PathLive ==
  ASSUME TypeOK, parent[Root] = Top, NEW d, PathExist(d)
  PROVE  d \in Live
<1>1. Live \in SUBSET FolderId /\ {Root} \subseteq Live
  BY Constants DEF Live
<1>2. Children(Live) \subseteq Live
  BY <1>1, Constants DEF Children, Live
<1> QED BY <1>1, <1>2 DEF PathExist, Subtree

LEMMA Arrival ==
  ASSUME TypeOK, parent[Root] = Top, NEW r, NewRequest(r)
  PROVE  \E first : Start(r, first) /\ Arrives(first)
<1>a. Live \subseteq FolderId /\ LiveFiles \subseteq FileId /\ \A S : FilesIn(S) \subseteq FileId
  BY LiveFolders DEF FilesIn
<1>b. \A p \in Picked : p[1] \in SUBSET Live /\ p[2] \in SUBSET FileId
  BY <1>a, SMTT(40) DEF Picked
<1>1. ASSUME NEW d \in Live, Propfind(r, d)
      PROVE  \E first : Start(r, first) /\ Arrives(first)
  BY <1>1, ReaderArrives, ZenonT(60) DEF Propfind
<1>2. ASSUME NEW D \in SUBSET Live, NEW F \in SUBSET FileId, Compress(r, D, F)
      PROVE  \E first : Start(r, first) /\ Arrives(first)
  <2>1. D \cap Live = D
    BY SMTT(40)
  <2> QED BY <1>2, <2>1, ReaderArrives DEF Compress
<1>3. ASSUME NEW f \in LiveFiles, GetFileProperty(r, f)
      PROVE  \E first : Start(r, first) /\ Arrives(first)
  <2>1. {home[f]} \in SUBSET Live
    BY <1>3 DEF GetFileProperty
  <2> QED BY <1>3, <2>1, ReaderArrives DEF GetFileProperty
<1>4. CASE WebRequest(r)
  <2>1. CASE \E d \in Live : CreateDirectory(r, d, 2) \/ ImportFiles(r, d)
    BY <2>1, CreateDirectoryArrives, ImportFilesArrives
  <2>2. CASE DeleteObjects(r) \/ AdminDelete(r)
    BY <2>2, <1>a, <1>b, DeleteArrives DEF DeleteObjects, AdminDelete
  <2>3. CASE MoveObjects(r)
    BY <2>3, <1>b, MoveArrives DEF MoveObjects
  <2>4. CASE CopyObject(r)
    BY <2>4, <1>a, CopyFolderArrives, CopyFileArrives DEF CopyObject
  <2>5. CASE DownloadArchived(r)
    BY <2>5, <1>b, <1>2 DEF DownloadArchived
  <2>6. CASE CompressObjects(r)
    BY <2>6, <1>b, CreateCompressTaskArrives DEF CompressObjects
  <2>7. CASE ShowObject(r)
    BY <2>7, <1>3, GetPropertyArrives DEF ShowObject
  <2> QED BY <1>4, <2>1, <2>2, <2>3, <2>4, <2>5, <2>6, <2>7 DEF WebRequest
<1>5. CASE Mkcol(r)
  BY <1>5, CreateDirectoryArrives DEF Mkcol
<1>6. CASE HandleDelete(r)
  <2>1. ASSUME NEW f \in LiveFiles, Delete(r, {}, {f})
        PROVE  \E first : Start(r, first) /\ Arrives(first)
    BY <2>1, <1>a, DeleteArrives
  <2>2. ASSUME NEW d \in Live, Delete(r, {d}, {})
        PROVE  \E first : Start(r, first) /\ Arrives(first)
    BY <2>2, DeleteArrives
  <2> QED BY <1>6, <2>1, <2>2 DEF HandleDelete
<1>7. CASE HandleCopyMove(r)
  <2> SUFFICES ASSUME NEW t \in Live, MoveFiles(r, t) \/ CopyFiles(r, t)
               PROVE  \E first : Start(r, first) /\ Arrives(first)
    BY <1>7 DEF HandleCopyMove
  <2>1. CASE MoveFiles(r, t)
    <3>1. ASSUME NEW f \in LiveFiles, Move(r, {}, {f}, home[f], t)
          PROVE  \E first : Start(r, first) /\ Arrives(first)
      <4>1. home[f] \in Live
        BY <3>1, PathLive DEF Move
      <4> QED BY <3>1, <4>1, <1>a, MoveArrives
    <3>2. ASSUME NEW d \in Live, Move(r, {d}, {}, parent[d], t)
          PROVE  \E first : Start(r, first) /\ Arrives(first)
      <4>1. parent[d] \in Live
        BY <3>2, PathLive DEF Move
      <4> QED BY <3>2, <4>1, MoveArrives
    <3> QED BY <2>1, <3>1, <3>2 DEF MoveFiles
  <2>2. CASE CopyFiles(r, t)
    <3>1. ASSUME NEW f \in LiveFiles, CopyFile(r, f, home[f], t)
          PROVE  \E first : Start(r, first) /\ Arrives(first)
      <4>1. home[f] \in Live
        BY <3>1, PathLive DEF CopyFile
      <4> QED BY <3>1, <4>1, <1>a, CopyFileArrives
    <3> QED BY <2>2, <3>1, CopyFolderArrives DEF CopyFiles
  <2> QED BY <2>1, <2>2
<1> QED BY <1>1, <1>4, <1>5, <1>6, <1>7 DEF NewRequest

LEMMA NewRequestType ==
  ASSUME TypeOK, Stages, parent[Root] = Top, NEW r \in Request, NewRequest(r)
  PROVE  TypeOK' /\ Stages'
<1>1. PICK first : Start(r, first) /\ Arrives(first)
  BY Arrival
<1>2. /\ first \in ReqState
      /\ first.pc \in {"mkdir", "import", "folders", "copy", "entries"} => first.dst \in FolderId
      /\ first.pc = "mkdir" => first.levels \in 1..2 /\ first.op \in {"mkdir", "import"}
      /\ first.pc = "trace" => first.op = "property"
      /\ first.pc = "walk" => first.op = "walk"
      /\ first.pc = "compress" => first.op = "compress"
      /\ first.pc \in {"mkdir", "folders", "entries", "list", "walk", "compress", "trace"}
      /\ first.pc = "folders" => first.op = "move" /\ first.src \in FolderId
      /\ first.op = "move" => first.pc = "folders"
      /\ first.pc = "list" => first.op \in {"delete", "copy", "compress", "property"}
      /\ first.op = "copy" => first.dst \in FolderId
      /\ first.pc = "entries" => first.op = "copy" /\ first.listed = {}
      /\ first.pc = "trace" \/ first.op = "property" => first.dirs # {}
  BY <1>1, LiveFolders, SMTT(40) DEF Arrives
<1> QED BY <1>1, <1>2, StartType

-----------------------------------------------------------------------------
(* The root, in every environment.                                          *)
RootStays == parent[Root] = Top /\ \A d \in FolderId \ {Root} : parent[d] # Top

LEMMA RootStep ==
  ASSUME TypeOK, Stages, RootStays, NEW r \in Request, Step(r)
  PROVE  RootStays'
<1>1. CASE parent' = parent
  BY <1>1 DEF RootStays
<1>2. CASE MakeFolder(r)
  <2>1. req[r].dst \in FolderId
    BY <1>2 DEF Stages, Stage, MakeFolder
  <2>2. ASSUME NEW d \in Children({req[r].dst}) \cup (IF FolderLeft THEN {NextFolder} ELSE {}),
               parent' = [parent EXCEPT ![d] = req[r].dst]
        PROVE  RootStays'
    <3>1. d # Root
      BY <2>1, <2>2, NextFolderFree, Constants DEF Children, RootStays
    <3> QED BY <2>1, <2>2, <3>1, Constants DEF RootStays, TypeOK
  <2> QED BY <1>1, <1>2, <2>2 DEF MakeFolder
<1>3. CASE MoveFolderTo(r)
  <2>1. req[r].dst \in FolderId /\ req[r].src \in FolderId
    BY <1>3 DEF Stages, Stage, MoveFolderTo
  <2>2. \A d \in FolderId : parent'[d] = parent[d] \/ (parent'[d] \in FolderId /\ parent[d] \in FolderId)
    BY <1>3, <2>1 DEF MoveFolderTo
  <2> QED BY <2>2, Constants DEF RootStays
<1>4. CASE InsertFolder(r)
  <2>0. req[r] \in ReqState /\ req[r].dst \in FolderId
    BY <1>4 DEF TypeOK, Stages, Stage, InsertFolder
  <2>1. PICK x \in req[r].listed : parent' = [parent EXCEPT ![NextFolder] = NewParent(r, x[1], x[2])]
                                   /\ NewParent(r, x[1], x[2]) # Absent
    BY <1>4 DEF InsertFolder
  <2>2. NewParent(r, x[1], x[2]) \in FolderId
    BY <2>0, <2>1 DEF NewParent, ReqState
  <2>3. NextFolder \in FolderId /\ parent[NextFolder] = Absent
    BY <1>4, NextFolderFree DEF InsertFolder
  <2> QED BY <2>1, <2>2, <2>3, Constants DEF RootStays, TypeOK
<1>5. CASE DeleteFolders(r)
  <2>1. \A d \in FolderId : parent'[d] = parent[d] \/ (parent'[d] = Gone /\ d # Root)
    BY <1>5 DEF DeleteFolders, Doomed
  <2> QED BY <2>1, Constants DEF RootStays
<1> QED
  BY <1>1, <1>2, <1>3, <1>4, <1>5 DEF Step, ImportFile, MoveFileTo, ListLevel, CollectFiles, InsertFile,
     EndCopy, ListDeleteFiles, DeleteRows, VisitFolder, CompressTask, CompressFolder, TraceRoot, rows

Shape == TypeOK /\ Stages /\ RootStays

LEMMA ShapeInit == Init => Shape
<1> SUFFICES ASSUME Init PROVE Shape
  OBVIOUS
<1>1. OldFolder \subseteq FolderId
  BY FolderTreeIds
<1>2. TypeOK
  BY <1>1, IdleType DEF Init, TypeOK
<1>3. Stages
  BY DEF Init, Stages, Stage, Idle
<1>4. RootStays
  <2>1. \A d \in FolderId : IF d = Root THEN parent[d] = Top
                             ELSE IF d \in OldFolder THEN parent[d] \in OldFolder
                             ELSE parent[d] = Absent
    BY DEF Init
  <2>2. parent[Root] = Top
    BY <2>1, Constants
  <2>3. ASSUME NEW d \in FolderId, d # Root PROVE parent[d] # Top
    <3>1. parent[d] \in OldFolder \/ parent[d] = Absent
      BY <2>1, <2>3
    <3>2. Top \notin OldFolder /\ Top # Absent
      BY <1>1, Constants
    <3> QED BY <3>1, <3>2
  <2> QED BY <2>2, <2>3 DEF RootStays
<1> QED BY <1>2, <1>3, <1>4 DEF Shape

LEMMA ShapeStep == Shape /\ [Next]_vars => Shape'
<1> SUFFICES ASSUME Shape, [Next]_vars PROVE Shape'
  OBVIOUS
<1>1. ASSUME NEW r \in Request, Step(r) PROVE Shape'
  BY <1>1, StepTypes, RootStep DEF Shape
<1>2. ASSUME NEW r \in Request, NewRequest(r) PROVE Shape'
  <2>1. parent' = parent
    BY <1>2, Arrival DEF Start, rows, Shape, RootStays
  <2> QED BY <1>2, <2>1, NewRequestType DEF Shape, RootStays
<1>3. ASSUME NEW r \in Request, Fails(r) PROVE Shape'
  BY <1>3, StepTypes DEF Shape, RootStays, Fails, rows
<1>4. CASE UNCHANGED vars
  BY <1>4 DEF vars, rows, Shape, TypeOK, Stages, Stage, RootStays
<1> QED BY <1>1, <1>2, <1>3, <1>4 DEF Next

(* The rows of folders and files and the progress of every request have     *)
(* their types.                                                             *)
THEOREM TypeCorrect == Spec => []TypeOK
<1>1. Init => Shape
  BY ShapeInit
<1>2. Shape /\ [Next]_vars => Shape'
  BY ShapeStep
<1>3. Shape => TypeOK
  BY DEF Shape
<1> QED BY <1>1, <1>2, <1>3, PTL DEF Spec

-----------------------------------------------------------------------------
(* The tree, for any map p from folders to their parents.                   *)
Kids(p, S) == {d \in FolderId : p[d] \in S}
Below(p, S) ==
  {d \in FolderId : \A T \in SUBSET FolderId : S \subseteq T /\ Kids(p, T) \subseteq T => d \in T}
LiveIn(p) == {d \in FolderId : p[d] \notin {Absent, Gone}}

(* Every folder hangs below the root.                                       *)
Tree(p) ==
  \A T \in SUBSET FolderId : Root \in T /\ Kids(p, T) \subseteq T => LiveIn(p) \subseteq T

LEMMA SubtreeBelow ==
  /\ \A S : Subtree(S) = Below(parent, S) /\ Children(S) = Kids(parent, S)
  /\ Live = LiveIn(parent)
BY DEF Subtree, Below, Children, Kids, Live, LiveIn

LEMMA BelowFacts ==
  ASSUME NEW p, NEW S \in SUBSET FolderId
  PROVE  /\ S \subseteq Below(p, S) /\ Below(p, S) \in SUBSET FolderId
         /\ Kids(p, Below(p, S)) \subseteq Below(p, S)
         /\ \A T \in SUBSET FolderId : S \subseteq T /\ Kids(p, T) \subseteq T => Below(p, S) \subseteq T
<1>1. Kids(p, Below(p, S)) \subseteq Below(p, S)
  <2> SUFFICES ASSUME NEW d \in FolderId, p[d] \in Below(p, S),
                      NEW T \in SUBSET FolderId, S \subseteq T, Kids(p, T) \subseteq T
               PROVE  d \in T
    BY DEF Kids, Below
  <2>1. p[d] \in T
    BY DEF Below
  <2> QED BY <2>1 DEF Kids
<1> QED BY <1>1 DEF Below

LEMMA BelowMonotone ==
  ASSUME NEW p, NEW S \in SUBSET FolderId, NEW S2 \in SUBSET FolderId, S2 \subseteq Below(p, S)
  PROVE  Below(p, S2) \subseteq Below(p, S)
BY BelowFacts

(* A new folder below one that is there.                                    *)
LEMMA LeafTree ==
  ASSUME NEW p \in [FolderId -> FolderId \cup {Absent, Gone, Top}], Tree(p),
         NEW n \in FolderId, p[n] = Absent, NEW x \in LiveIn(p)
  PROVE  Tree([p EXCEPT ![n] = x])
<1> DEFINE p2 == [p EXCEPT ![n] = x]
<1> SUFFICES ASSUME NEW T \in SUBSET FolderId, Root \in T, Kids(p2, T) \subseteq T
             PROVE  LiveIn(p2) \subseteq T
  BY DEF Tree
<1>1. \A d \in FolderId : p2[d] = IF d = n THEN x ELSE p[d]
  OBVIOUS
<1> HIDE DEF p2
<1>2. Kids(p, T) \subseteq T
  BY <1>1, Constants DEF Kids
<1>3. LiveIn(p) \subseteq T
  BY <1>2 DEF Tree
<1>4. n \in T
  BY <1>1, <1>3 DEF Kids
<1> QED BY <1>1, <1>3, <1>4 DEF LiveIn

(* The folders of M moved to t, which does not lie below them.              *)
LEMMA GraftTree ==
  ASSUME NEW p, Tree(p), NEW M \in SUBSET LiveIn(p), NEW t \in LiveIn(p), t \notin Below(p, M)
  PROVE  Tree([d \in FolderId |-> IF d \in M THEN t ELSE p[d]])
<1> DEFINE p2 == [d \in FolderId |-> IF d \in M THEN t ELSE p[d]]
<1> SUFFICES ASSUME NEW T \in SUBSET FolderId, Root \in T, Kids(p2, T) \subseteq T
             PROVE  LiveIn(p2) \subseteq T
  BY DEF Tree
<1>0. M \in SUBSET FolderId /\ t \in FolderId
  BY DEF LiveIn
<1>1. \A d \in FolderId : p2[d] = IF d \in M THEN t ELSE p[d]
  OBVIOUS
<1> HIDE DEF p2
<1> DEFINE T2 == T \cup Below(p, M)
<1>2. T2 \in SUBSET FolderId /\ Root \in T2
  BY <1>0, BelowFacts
<1>3. Kids(p, T2) \subseteq T2
  <2> SUFFICES ASSUME NEW d \in FolderId, p[d] \in T2 PROVE d \in T2
    BY DEF Kids
  <2>1. CASE p[d] \in Below(p, M)
    BY <1>0, <2>1, BelowFacts DEF Kids
  <2>2. CASE p[d] \in T /\ d \notin M
    BY <1>1, <2>2 DEF Kids
  <2>3. CASE d \in M
    BY <1>0, <2>3, BelowFacts
  <2> QED BY <2>1, <2>2, <2>3
<1>4. t \in T
  BY <1>2, <1>3 DEF Tree
<1>5. M \subseteq T
  BY <1>0, <1>1, <1>4 DEF Kids
<1>6. Kids(p, T) \subseteq T
  BY <1>1, <1>5 DEF Kids
<1>7. LiveIn(p) \subseteq T
  BY <1>6 DEF Tree
<1> QED BY <1>1, <1>5, <1>7 DEF LiveIn

(* The folders of X removed with all that lies in them.                     *)
LEMMA PruneTree ==
  ASSUME NEW p, Tree(p), NEW X \in SUBSET FolderId, Kids(p, X) \subseteq X
  PROVE  Tree([d \in FolderId |-> IF d \in X \cap LiveIn(p) THEN Gone ELSE p[d]])
<1> DEFINE p2 == [d \in FolderId |-> IF d \in X \cap LiveIn(p) THEN Gone ELSE p[d]]
<1> SUFFICES ASSUME NEW T \in SUBSET FolderId, Root \in T, Kids(p2, T) \subseteq T
             PROVE  LiveIn(p2) \subseteq T
  BY DEF Tree
<1>1. \A d \in FolderId : p2[d] = IF d \in X \cap LiveIn(p) THEN Gone ELSE p[d]
  OBVIOUS
<1> HIDE DEF p2
<1>2. Kids(p, T \cup X) \subseteq T \cup X
  BY <1>1 DEF Kids
<1>3. LiveIn(p) \subseteq T \cup X
  BY <1>2 DEF Tree
<1> QED BY <1>1, <1>3 DEF LiveIn

(* What a folder of the tree lies in is there.                              *)
LEMMA ParentsLive ==
  ASSUME NEW p \in [FolderId -> FolderId \cup {Absent, Gone, Top}], Tree(p), p[Root] = Top
  PROVE  \A d \in LiveIn(p) : d = Root \/ p[d] \in LiveIn(p)
<1> DEFINE T == {d \in LiveIn(p) : d = Root \/ p[d] \in LiveIn(p)}
<1>1. T \in SUBSET FolderId /\ Root \in T
  BY Constants DEF LiveIn
<1>2. Kids(p, T) \subseteq T
  BY Constants DEF Kids, LiveIn
<1> QED BY <1>1, <1>2 DEF Tree

LEMMA RootedTree ==
  ASSUME parent[Root] = Top
  PROVE  Live \subseteq Subtree({Root}) <=> Tree(parent)
<1>1. \A T : {Root} \subseteq T <=> Root \in T
  OBVIOUS
<1>2. Live \subseteq FolderId
  BY DEF Live
<1> QED BY <1>1, <1>2, SubtreeBelow DEF Tree, Below

(* At the start every folder lies in one with a smaller number.             *)
LEMMA TreeInit == Init => Tree(parent)
<1> SUFFICES ASSUME Init, NEW T \in SUBSET FolderId, Root \in T, Kids(parent, T) \subseteq T
             PROVE  LiveIn(parent) \subseteq T
  BY DEF Tree
<1>1. OldFolder \subseteq Nat /\ OldFolder \subseteq FolderId
  BY FolderTreeIds
<1>2. \A d \in FolderId : IF d = Root THEN parent[d] = Top
                          ELSE IF d \in OldFolder THEN parent[d] \in OldFolder /\ parent[d] < d
                          ELSE parent[d] = Absent
  BY DEF Init
<1> DEFINE S == OldFolder \ T
<1>3. S = {}
  <2> SUFFICES ASSUME S # {} PROVE FALSE
    OBVIOUS
  <2>1. PICK d \in S : \A e \in S : d <= e
    BY <1>1, LeastNumber
  <2>2. parent[d] \in OldFolder /\ parent[d] < d
    BY <1>1, <1>2, <2>1
  <2>3. parent[d] \notin S
    <3>0. d \in Nat /\ parent[d] \in Nat
      BY <1>1, <2>2
    <3>1. ~ (d <= parent[d])
      BY <2>2, <3>0
    <3> QED BY <2>1, <3>1
  <2> QED BY <1>1, <2>1, <2>2, <2>3 DEF Kids
<1>4. LiveIn(parent) \subseteq OldFolder
  BY <1>2, FolderTreeIds DEF LiveIn
<1> QED BY <1>3, <1>4

-----------------------------------------------------------------------------
(* Requests in a calm environment.                                          *)

(* The folders that a request works on.                                     *)
Own(r) == Touched(r) \ {Absent}
Listed(r) == IdsOf(req[r].listed)
Inside(h, S) == {f \in FileId : h[f] \in S}

Apart == \A q, r \in Request : q # r /\ Active(q) /\ Active(r) => Own(q) \cap Own(r) = {}
Born == \A r \in Request : Active(r) => \A d \in Own(r) : parent[d] # Absent

(* The listing is true, and the copies so far hang together as their        *)
(* originals do.                                                            *)
Faithful(r) ==
  \A x \in req[r].listed :
    /\ parent[x[1]] = x[2]
    /\ req[r].copies[x[1]] # Absent =>
         /\ NewParent(r, x[1], x[2]) # Absent
         /\ parent[req[r].copies[x[1]]] = NewParent(r, x[1], x[2])

(* What a request relies on at each stage: its destination is there, ...    *)
Arriving(r) ==
  LET q == req[r] IN
  /\ q.op \in {"mkdir", "import", "move", "copy"} \/ q.pc = "mkdir" => q.dst \in LiveIn(parent)
  /\ q.pc = "mkdir" => \/ Below(parent, {q.dst}) \subseteq q.touched
                       \/ Kids(parent, {q.dst}) = {}

(* ... what it moves does not hold the destination, ...                     *)
Moving(r) ==
  LET q == req[r] IN
  q.pc = "folders" => Below(parent, q.dirs) \subseteq q.touched /\ q.dst \notin Below(parent, q.dirs)

(* ... what it has listed is its own, and what lies in it is listed too, or *)
(* in the last level, ...                                                   *)
Descending(r) ==
  LET q == req[r] IN
  /\ q.op \in {"delete", "copy"} => Listed(r) \subseteq q.touched
  /\ q.pc = "list" => /\ Below(parent, Listed(r)) \subseteq q.touched
                      /\ q.frontier \subseteq Listed(r)
                      /\ Kids(parent, Listed(r) \ q.frontier) \subseteq Listed(r)
                      /\ q.op = "copy" => Copied(r) = {}

(* ... no file is left in a folder that goes, ...                           *)
Deleting(r) ==
  LET q == req[r] IN
  /\ q.op = "delete" /\ q.pc # "list" => Kids(parent, Listed(r)) \subseteq Listed(r)
  /\ q.pc = "rows" => Inside(home, Doomed(r)) \subseteq IdsOf(q.todo)
  /\ q.pc = "dirs" => Inside(home, Doomed(r)) = {}

(* ... and its copies are there.                                            *)
Copying(r) ==
  LET q == req[r] IN
  /\ q.op = "copy" => Copied(r) \subseteq LiveIn(parent) /\ Faithful(r)
  /\ q.pc = "insert" => /\ Uncopied(r) = {}
                        /\ \A x \in q.todo : x[2] \in Own(r) \cap LiveIn(parent)

Quiet(r) == Arriving(r) /\ Moving(r) /\ Descending(r) /\ Deleting(r) /\ Copying(r)

Homes == \A f \in FileId : home[f] \notin {Absent, Gone} => home[f] \in LiveIn(parent)

Peace == calm => /\ Tree(parent) /\ Homes
                 /\ Apart /\ Born /\ \A r \in Request : Active(r) => Quiet(r)

LEMMA StageOps ==
  ASSUME Stages, NEW r \in Request
  PROVE  req[r].pc \in {"rows", "dirs"} => req[r].op = "delete"
BY DEF Stages, Stage

LEMMA OwnFolders ==
  ASSUME TypeOK, NEW r \in Request
  PROVE  /\ Own(r) \in SUBSET FolderId /\ Listed(r) \in SUBSET FolderId
         /\ req[r].touched \ {Absent} \subseteq Own(r)
         /\ Copied(r) \in SUBSET FolderId /\ Copied(r) \subseteq Own(r)
         /\ req[r].dst # Absent => req[r].dst \in Own(r)
         /\ \A x \in req[r].listed : x[1] \in Listed(r) /\ x[1] \in FolderId /\ x[2] \in FolderId \cup {Top}
         /\ req[r] \in ReqState
<1>1. req[r] \in ReqState
  BY DEF TypeOK
<1>2. req[r].touched \subseteq FolderId \cup {Absent} /\ req[r].dst \in FolderId \cup {Absent}
  BY <1>1 DEF ReqState
<1>3. Copied(r) \in SUBSET FolderId /\ Absent \notin Copied(r)
  BY <1>1 DEF ReqState, Copied
<1>4. \A x \in req[r].listed : x[1] \in FolderId /\ x[2] \in FolderId \cup {Top}
  BY <1>1 DEF ReqState
<1> QED BY <1>1, <1>2, <1>3, <1>4 DEF Own, Touched, Listed, IdsOf

(* A step of q hangs what it moves, removes or creates below folders of O.  *)
Frame(q, O) ==
  /\ \A d \in FolderId : \/ parent'[d] = parent[d]
                         \/ (d \in O \/ parent[d] = Absent) /\ parent'[d] \in O \cup {Gone}
  /\ \A f \in FileId : home'[f] = home[f] \/ home'[f] \in O \cup {Gone}
  /\ \A r \in Request \ {q} : req'[r] = req[r]

(* So it leaves alone what others rely on, who work elsewhere.              *)
LEMMA OthersQuiet ==
  ASSUME TypeOK, Stages, NEW q \in Request, NEW r \in Request, q # r, Quiet(r),
         \A d \in Own(r) : parent[d] # Absent,
         NEW O \in SUBSET FolderId, O \cap Own(r) = {}, Frame(q, O)
  PROVE  /\ Quiet(r)' /\ Own(r)' = Own(r) /\ (Active(r)' <=> Active(r))
         /\ \A d \in Own(r) : parent'[d] = parent[d]
<1>0. req'[r] = req[r]
  BY DEF Frame
<1>a. /\ Own(r)' = Own(r) /\ Listed(r)' = Listed(r) /\ Copied(r)' = Copied(r) /\ Doomed(r)' = Doomed(r)
      /\ Uncopied(r)' = Uncopied(r) /\ (Active(r)' <=> Active(r))
      /\ \A d, p : NewParent(r, d, p)' = NewParent(r, d, p)
  BY <1>0 DEF Own, Touched, Listed, Copied, Doomed, Uncopied, Active, NewParent
<1>b. \A d \in Own(r) : parent'[d] = parent[d]
  BY OwnFolders DEF Frame
<1>c. \A d \in FolderId : parent'[d] \in Own(r) => parent'[d] = parent[d]
  BY OwnFolders, Constants DEF Frame
<1>d. \A f \in FileId : home'[f] \in Own(r) => home'[f] = home[f]
  BY OwnFolders, Constants DEF Frame
<1>e. Own(r) \cap LiveIn(parent) \subseteq LiveIn(parent')
  BY <1>b DEF LiveIn
<1>f. \A S \in SUBSET Own(r) : /\ Kids(parent', S) \subseteq Kids(parent, S)
                               /\ Inside(home', S) \subseteq Inside(home, S)
  BY <1>c, <1>d DEF Kids, Inside
<1>g. ASSUME NEW S \in SUBSET FolderId, Below(parent, S) \subseteq Own(r)
      PROVE  Below(parent', S) \subseteq Below(parent, S)
  <2>1. Kids(parent', Below(parent, S)) \subseteq Below(parent, S)
    BY <1>f, <1>g, BelowFacts
  <2> QED BY <2>1, BelowFacts
<1>h. Absent \notin LiveIn(parent) /\ LiveIn(parent) \subseteq FolderId
  BY Constants DEF LiveIn
<1>i. /\ \A S \in SUBSET FolderId : S \subseteq req[r].touched => S \subseteq Own(r)
      /\ \A S : Below(parent, S) \in SUBSET FolderId
  BY Constants DEF Own, Touched, Below
<1>j. \A S \in SUBSET FolderId : Below(parent, S) \subseteq req[r].touched
                                => Below(parent', S) \subseteq Below(parent, S)
  BY <1>g, <1>i
<1>1. req[r].dst \in LiveIn(parent) => req[r].dst \in LiveIn(parent')
  BY <1>e, <1>h, OwnFolders
<1>2. req[r].pc = "mkdir" => \/ Below(parent', {req[r].dst}) \subseteq req[r].touched
                             \/ Kids(parent', {req[r].dst}) = {}
  <2> SUFFICES ASSUME req[r].pc = "mkdir"
               PROVE  \/ Below(parent', {req[r].dst}) \subseteq req[r].touched
                      \/ Kids(parent', {req[r].dst}) = {}
    OBVIOUS
  <2>0. req[r].dst \in FolderId /\ req[r].dst \in Own(r)
    BY <1>h, OwnFolders DEF Quiet, Arriving
  <2>1. CASE Below(parent, {req[r].dst}) \subseteq req[r].touched
    BY <1>j, <2>0, <2>1
  <2>2. CASE Kids(parent, {req[r].dst}) = {}
    BY <1>f, <2>0, <2>2
  <2> QED BY <2>1, <2>2 DEF Quiet, Arriving
<1>3. req[r].pc = "folders" => /\ Below(parent', req[r].dirs) \subseteq req[r].touched
                               /\ req[r].dst \notin Below(parent', req[r].dirs)
  <2>1. req[r].dirs \in SUBSET FolderId
    BY OwnFolders DEF ReqState
  <2> QED BY <1>j, <2>1 DEF Quiet, Moving
<1>4. req[r].op \in {"delete", "copy"} => Listed(r) \subseteq Own(r)
  BY <1>i, OwnFolders DEF Quiet, Descending
<1>5. req[r].pc = "list" =>
        /\ Below(parent', Listed(r)) \subseteq req[r].touched
        /\ Kids(parent', Listed(r) \ req[r].frontier) \subseteq Listed(r)
  <2> SUFFICES ASSUME req[r].pc = "list"
               PROVE  /\ Below(parent', Listed(r)) \subseteq req[r].touched
                      /\ Kids(parent', Listed(r) \ req[r].frontier) \subseteq Listed(r)
    OBVIOUS
  <2>1. Listed(r) \in SUBSET FolderId /\ Below(parent, Listed(r)) \subseteq req[r].touched
    BY OwnFolders DEF Quiet, Descending
  <2>2. Listed(r) \ req[r].frontier \in SUBSET Own(r)
    BY <1>i, <2>1, BelowFacts
  <2> QED BY <1>f, <1>j, <2>1, <2>2 DEF Quiet, Descending
<1>6. req[r].op = "delete" /\ req[r].pc # "list" => Kids(parent', Listed(r)) \subseteq Listed(r)
  BY <1>4, <1>f DEF Quiet, Deleting
<1>7. req[r].op = "delete" => Inside(home', Doomed(r)) \subseteq Inside(home, Doomed(r))
  BY <1>4, <1>f DEF Doomed, Listed
<1>8. req[r].op = "copy" => Copied(r) \subseteq LiveIn(parent') /\ Faithful(r)'
  <2> SUFFICES ASSUME req[r].op = "copy"
               PROVE  Copied(r) \subseteq LiveIn(parent') /\ Faithful(r)'
    OBVIOUS
  <2>1. Copied(r) \subseteq LiveIn(parent')
    BY <1>e, OwnFolders DEF Quiet, Copying
  <2>2. ASSUME NEW x \in req[r].listed
        PROVE  /\ parent'[x[1]] = x[2]
               /\ req[r].copies[x[1]] # Absent =>
                    /\ NewParent(r, x[1], x[2]) # Absent
                    /\ parent'[req[r].copies[x[1]]] = NewParent(r, x[1], x[2])
    <3>1. x[1] \in FolderId /\ x[1] \in Own(r)
      BY <1>4, OwnFolders
    <3>2. req[r].copies[x[1]] # Absent => req[r].copies[x[1]] \in Own(r)
      BY <3>1, OwnFolders DEF Copied
    <3> QED BY <1>b, <3>1, <3>2 DEF Quiet, Copying, Faithful
  <2>3. Faithful(r)'
    BY <1>0, <1>a, <2>2 DEF Faithful
  <2> QED BY <2>1, <2>3
<1>9. Arriving(r)' /\ Moving(r)'
  BY <1>0, <1>1, <1>2, <1>3 DEF Quiet, Arriving, Moving
<1>10. Descending(r)'
  BY <1>0, <1>a, <1>5 DEF Quiet, Descending
<1>11. Deleting(r)'
  BY <1>0, <1>a, <1>6, <1>7, StageOps DEF Quiet, Deleting
<1>12. Copying(r)'
  <2>1. req'[r].op = "copy" => Copied(r)' \subseteq LiveIn(parent') /\ Faithful(r)'
    BY <1>0, <1>a, <1>8
  <2>2. req'[r].pc = "insert" => /\ Uncopied(r)' = {}
                                 /\ \A x \in req'[r].todo : x[2] \in Own(r)' \cap LiveIn(parent')
    BY <1>0, <1>a, <1>e DEF Quiet, Copying
  <2> QED BY <2>1, <2>2 DEF Copying
<1> QED BY <1>a, <1>b, <1>9, <1>10, <1>11, <1>12 DEF Quiet

Fresh == {d \in FolderId : parent[d] = Absent /\ parent'[d] # Absent}

(* What a step of r does in a calm environment: it works on its own         *)
(* folders, and new ones, and leaves a tree.                                *)
Good(r) ==
  /\ Frame(r, Own(r)) /\ calm' = calm
  /\ Active(r)' => Quiet(r)' /\ Own(r)' \subseteq Own(r) \cup Fresh
  /\ Tree(parent') /\ Homes'

LEMMA GoodPeace ==
  ASSUME Shape, Peace, calm, NEW r \in Request, Active(r), Good(r)
  PROVE  Peace'
<1>0. TypeOK /\ Stages /\ Apart /\ Born
  BY DEF Shape, Peace
<1>1. Own(r) \in SUBSET FolderId /\ Absent \notin Own(r)
  BY <1>0, OwnFolders, Constants
<1>2. ASSUME NEW q \in Request, q # r, Active(q)'
      PROVE  /\ Quiet(q)' /\ Own(q)' = Own(q) /\ Active(q)
             /\ \A d \in Own(q) : parent'[d] = parent[d] /\ parent[d] # Absent
             /\ Own(q) \cap Own(r) = {} /\ Own(q) \cap Fresh = {}
  <2>1. Active(q)
    BY <1>2 DEF Good, Frame, Active
  <2>2. Quiet(q) /\ Own(q) \cap Own(r) = {} /\ \A d \in Own(q) : parent[d] # Absent
    BY <1>0, <1>2, <2>1 DEF Peace, Apart, Born
  <2> QED BY <1>0, <1>1, <1>2, <2>1, <2>2, OthersQuiet DEF Good, Fresh
<1>3. Apart'
  <2> SUFFICES ASSUME NEW q \in Request, NEW s \in Request, q # s, Active(q)', Active(s)'
               PROVE  Own(q)' \cap Own(s)' = {}
    BY DEF Apart
  <2>1. CASE q # r /\ s # r
    BY <1>0, <1>2, <2>1 DEF Apart
  <2>2. CASE q = r
    <3>1. Own(r)' \subseteq Own(r) \cup Fresh
      BY <2>2 DEF Good
    <3>2. Own(s)' = Own(s) /\ Own(s) \cap Own(r) = {} /\ Own(s) \cap Fresh = {}
      BY <1>2, <2>2
    <3> QED BY <2>2, <3>1, <3>2
  <2>3. CASE s = r
    <3>1. Own(r)' \subseteq Own(r) \cup Fresh
      BY <2>3 DEF Good
    <3>2. Own(q)' = Own(q) /\ Own(q) \cap Own(r) = {} /\ Own(q) \cap Fresh = {}
      BY <1>2, <2>3
    <3> QED BY <2>3, <3>1, <3>2
  <2> QED BY <2>1, <2>2, <2>3
<1>4. Born'
  <2> SUFFICES ASSUME NEW q \in Request, Active(q)', NEW d \in Own(q)' PROVE parent'[d] # Absent
    BY DEF Born
  <2>1. CASE q # r
    BY <1>2, <2>1
  <2>2. CASE q = r
    <3>1. d \in Own(r) \cup Fresh
      BY <2>2 DEF Good
    <3>2. d \in Own(r) => parent[d] # Absent
      BY <1>0 DEF Born
    <3> QED BY <1>1, <3>1, <3>2, Constants DEF Good, Frame, Fresh
  <2> QED BY <2>1, <2>2
<1>5. \A q \in Request : Active(q)' => Quiet(q)'
  BY <1>2 DEF Good
<1> QED BY <1>3, <1>4, <1>5 DEF Peace, Good

(* A request that ends, or only reads.                                      *)
LEMMA EndGood ==
  ASSUME Shape, Peace, calm, NEW r \in Request, NEW pc \in {"done", "failed"}, Finish(r, pc),
         parent' = parent, home' = home, calm' = calm
  PROVE  Good(r)
<1>1. req'[r] = [Idle EXCEPT !.pc = pc] /\ \A q \in Request \ {r} : req'[q] = req[q]
  BY DEF Finish, Shape, TypeOK
<1>2. ~ Active(r)'
  BY <1>1 DEF Active, Idle
<1> QED BY <1>1, <1>2 DEF Good, Frame, Peace, Homes

LEMMA FinishEnds ==
  ASSUME TypeOK, NEW r \in Request, NEW pc \in {"done", "failed"}, Finish(r, pc)
  PROVE  ~ Active(r)' /\ \A q \in Request \ {r} : req'[q] = req[q]
<1>1. req'[r] = [Idle EXCEPT !.pc = pc] /\ \A q \in Request \ {r} : req'[q] = req[q]
  BY DEF Finish, TypeOK
<1> QED BY <1>1 DEF Active, Idle

LEMMA CalmTree ==
  ASSUME Shape, Peace, calm
  PROVE  /\ parent \in [FolderId -> FolderId \cup {Absent, Gone, Top}]
         /\ home \in [FileId -> FolderId \cup {Absent, Gone}]
         /\ Tree(parent) /\ Homes /\ parent[Root] = Top
         /\ \A d \in LiveIn(parent) : d = Root \/ parent[d] \in LiveIn(parent)
         /\ LiveIn(parent) \subseteq FolderId
<1>1. /\ parent \in [FolderId -> FolderId \cup {Absent, Gone, Top}]
      /\ home \in [FileId -> FolderId \cup {Absent, Gone}]
      /\ Tree(parent) /\ Homes /\ parent[Root] = Top
  BY DEF Shape, TypeOK, RootStays, Peace
<1> QED BY <1>1, ParentsLive DEF LiveIn

LEMMA MakeFolderGood ==
  ASSUME Shape, Peace, calm, NEW r \in Request, MakeFolder(r)
  PROVE  Good(r)
<1>0. /\ TypeOK /\ req[r] \in ReqState /\ req[r].pc = "mkdir" /\ req[r].op \in {"mkdir", "import"}
      /\ Quiet(r) /\ req[r].dst \in LiveIn(parent) /\ req[r].dst \in Own(r) /\ req[r].dst \in FolderId
      /\ home' = home /\ calm' = calm
  <2>1. /\ TypeOK /\ req[r].pc = "mkdir" /\ req[r].op \in {"mkdir", "import"} /\ Active(r)
        /\ home' = home /\ calm' = calm
    BY DEF Shape, Stages, Stage, MakeFolder, Active
  <2>2. Quiet(r) /\ req[r].dst \in LiveIn(parent) /\ req[r].dst \in FolderId
    BY <2>1 DEF Peace, Quiet, Arriving, LiveIn
  <2> QED BY <2>1, <2>2, OwnFolders, Constants
<1>1. CASE Finish(r, "failed") /\ UNCHANGED parent
  BY <1>0, <1>1, EndGood
<1>2. ASSUME NEW d \in Kids(parent, {req[r].dst}) \cup (IF FolderLeft THEN {NextFolder} ELSE {}),
             parent' = [parent EXCEPT ![d] = req[r].dst],
             req' = [req EXCEPT ![r].dst = d, ![r].levels = @ - 1,
                          ![r].pc = IF req[r].levels > 1 THEN "mkdir"
                                    ELSE IF req[r].op = "import" THEN "import" ELSE "done"]
      PROVE  Good(r)
  <2>1. /\ req'[r].dst = d /\ req'[r].op = req[r].op /\ req'[r].touched = req[r].touched
        /\ req'[r].copies = req[r].copies
        /\ req'[r].pc \in {"mkdir", "import", "done"}
    BY <1>0, <1>2 DEF TypeOK, ReqState
  <2>2. \A q \in Request \ {r} : req'[q] = req[q]
    BY <1>0, <1>2 DEF TypeOK
  <2>3. Own(r)' = (req[r].touched \cup Copied(r) \cup {d}) \ {Absent}
    BY <2>1 DEF Own, Touched, Copied
  <2>4. CASE d \in Kids(parent, {req[r].dst})
    <3>1. parent[d] = req[r].dst /\ d \in FolderId
      BY <2>4 DEF Kids
    <3>2. parent' = parent
      BY <1>0, <1>2, <3>1, CalmTree
    <3>3. d \in LiveIn(parent)
      BY <1>0, <3>1, Constants DEF LiveIn
    <3>4. Below(parent, {req[r].dst}) \subseteq req[r].touched
      BY <1>0, <2>4 DEF Quiet, Arriving
    <3>5. {d} \subseteq Below(parent, {req[r].dst})
      BY <1>0, <2>4, BelowFacts DEF Kids
    <3>6. Below(parent, {d}) \subseteq req[r].touched
      BY <1>0, <3>1, <3>4, <3>5, BelowMonotone
    <3>7. Own(r)' \subseteq Own(r)
      BY <2>3, <3>4, <3>5 DEF Own, Touched
    <3>8. Quiet(r)'
      BY <1>0, <2>1, <3>2, <3>3, <3>6
      DEF Quiet, Arriving, Moving, Descending, Deleting, Copying
    <3> QED BY <1>0, <2>2, <3>2, <3>7, <3>8, CalmTree DEF Good, Frame, Homes
  <2>5. CASE FolderLeft /\ d = NextFolder
    <3>1. d \in FolderId /\ parent[d] = Absent
      BY <2>5, NextFolderFree
    <3>2. \A e \in FolderId : parent'[e] = IF e = d THEN req[r].dst ELSE parent[e]
      BY <1>0, <1>2, CalmTree
    <3>3. d \in LiveIn(parent') /\ LiveIn(parent) \subseteq LiveIn(parent') /\ d \in Fresh
      BY <1>0, <3>1, <3>2, Constants DEF LiveIn, Fresh
    <3>4. Kids(parent', {d}) = {}
      <4> SUFFICES ASSUME NEW e \in FolderId, parent'[e] = d PROVE FALSE
        BY DEF Kids
      <4>1. d \notin LiveIn(parent)
        BY <3>1 DEF LiveIn
      <4>2. e # d
        BY <1>0, <3>2, <4>1
      <4>3. parent[e] = d /\ e \in LiveIn(parent)
        BY <3>1, <3>2, <4>2, Constants DEF LiveIn
      <4> QED BY <3>1, <4>1, <4>3, CalmTree, Constants
    <3>5. Tree(parent')
      BY <1>0, <1>2, <3>1, CalmTree, LeafTree
    <3>6. Own(r)' \subseteq Own(r) \cup Fresh
      BY <2>3, <3>3 DEF Own, Touched
    <3>7. Quiet(r)'
      BY <1>0, <2>1, <3>3, <3>4
      DEF Quiet, Arriving, Moving, Descending, Deleting, Copying
    <3>8. Homes'
      BY <1>0, <3>3, CalmTree DEF Homes
    <3>9. Frame(r, Own(r))
      BY <1>0, <2>2, <3>1, <3>2 DEF Frame
    <3> QED BY <1>0, <3>5, <3>6, <3>7, <3>8, <3>9 DEF Good
  <2> QED BY <1>2, <2>4, <2>5
<1>3. \A S : Children(S) = Kids(parent, S)
  BY SubtreeBelow
<1> QED BY <1>1, <1>2, <1>3 DEF MakeFolder

LEMMA ImportFileGood ==
  ASSUME Shape, Peace, calm, NEW r \in Request, ImportFile(r)
  PROVE  Good(r)
<1>0. /\ TypeOK /\ Active(r) /\ req[r].pc = "import" /\ req[r].op = "import" /\ parent' = parent /\ calm' = calm
  BY DEF Shape, Stages, Stage, ImportFile, Active
<1>1. req[r].dst \in LiveIn(parent) /\ req[r].dst \in Own(r)
  <2>1. req[r].dst \in LiveIn(parent)
    BY <1>0 DEF Peace, Quiet, Arriving
  <2> QED BY <1>0, <2>1, OwnFolders, Constants DEF LiveIn
<1>2. \A f \in FileId : home'[f] = home[f] \/ home'[f] = req[r].dst
  BY CalmTree DEF ImportFile
<1>3. Homes'
  BY <1>0, <1>1, <1>2, CalmTree DEF Homes
<1> QED BY <1>0, <1>1, <1>2, <1>3, CalmTree, FinishEnds DEF Good, Frame, ImportFile

(* A step that leaves the rows alone.                                       *)
LEMMA StillGood ==
  ASSUME Shape, Peace, calm, NEW r \in Request,
         parent' = parent, home' = home, calm' = calm,
         \A q \in Request \ {r} : req'[q] = req[q],
         Active(r)' => Quiet(r)' /\ Own(r)' \subseteq Own(r)
  PROVE  Good(r)
BY CalmTree DEF Good, Frame, Homes

LEMMA MoveFolderToGood ==
  ASSUME Shape, Peace, calm, NEW r \in Request, MoveFolderTo(r)
  PROVE  Good(r)
<1> DEFINE M == {d \in req[r].dirs : parent[d] = req[r].src}
<1>0. /\ TypeOK /\ req[r] \in ReqState /\ req[r].pc = "folders" /\ req[r].op = "move" /\ Quiet(r)
      /\ req[r].src \in FolderId /\ req[r].dirs \in SUBSET FolderId /\ home' = home /\ calm' = calm
  <2>1. /\ TypeOK /\ Active(r) /\ req[r].pc = "folders" /\ req[r].op = "move" /\ req[r].src \in FolderId
        /\ home' = home /\ calm' = calm
    BY DEF Shape, Stages, Stage, MoveFolderTo, Active
  <2>2. Quiet(r)
    BY <2>1 DEF Peace
  <2> QED BY <2>1, <2>2, OwnFolders DEF ReqState
<1>1. /\ req[r].dst \in LiveIn(parent) /\ req[r].dst \in Own(r) /\ req[r].dst \in FolderId
      /\ Below(parent, req[r].dirs) \subseteq Own(r) /\ req[r].dst \notin Below(parent, req[r].dirs)
  <2>1. /\ req[r].dst \in LiveIn(parent) /\ Below(parent, req[r].dirs) \subseteq req[r].touched
        /\ req[r].dst \notin Below(parent, req[r].dirs)
    BY <1>0 DEF Quiet, Arriving, Moving
  <2>2. Below(parent, req[r].dirs) \subseteq FolderId
    BY <1>0, BelowFacts
  <2> QED BY <1>0, <2>1, <2>2, OwnFolders, Constants DEF LiveIn
<1>2. CASE req[r].dst \in req[r].dirs
  BY <1>0, <1>2, EndGood DEF MoveFolderTo
<1>3. CASE req[r].dst \notin req[r].dirs
  <2>1. /\ parent' = [d \in FolderId |-> IF d \in M THEN req[r].dst ELSE parent[d]]
        /\ req' = [req EXCEPT ![r] = [req[r] EXCEPT !.pc = "files"]]
    BY <1>3 DEF MoveFolderTo, To
  <2>2. /\ req'[r].pc = "files" /\ req'[r].op = "move" /\ req'[r].dst = req[r].dst
        /\ req'[r].touched = req[r].touched /\ req'[r].copies = req[r].copies
        /\ \A q \in Request \ {r} : req'[q] = req[q]
    BY <1>0, <2>1 DEF TypeOK, ReqState
  <2>3. M \in SUBSET LiveIn(parent)
    BY <1>0, Constants DEF LiveIn
  <2>4. M \in SUBSET FolderId /\ M \subseteq Below(parent, req[r].dirs)
    BY <1>0, BelowFacts
  <2>5. Below(parent, M) \subseteq Below(parent, req[r].dirs)
    BY <1>0, <2>4, BelowMonotone
  <2> HIDE DEF M
  <2>6. Tree(parent')
    BY <1>1, <2>1, <2>3, <2>5, CalmTree, GraftTree
  <2>7. \A d \in FolderId : parent'[d] = IF d \in M THEN req[r].dst ELSE parent[d]
    BY <2>1
  <2>8. LiveIn(parent') = LiveIn(parent)
    BY <1>1, <2>3, <2>7, Constants DEF LiveIn
  <2>9. Quiet(r)'
    BY <1>0, <1>1, <2>2, <2>8 DEF Quiet, Arriving, Moving, Descending, Deleting, Copying
  <2>10. Own(r)' = Own(r)
    BY <2>2 DEF Own, Touched, Copied
  <2>11. Frame(r, Own(r))
    BY <1>0, <1>1, <2>2, <2>4, <2>7 DEF Frame
  <2> QED BY <1>0, <2>6, <2>8, <2>9, <2>10, <2>11, CalmTree DEF Good, Homes
<1> QED BY <1>2, <1>3

LEMMA MoveFileToGood ==
  ASSUME Shape, Peace, calm, NEW r \in Request, MoveFileTo(r)
  PROVE  Good(r)
<1>0. /\ TypeOK /\ Active(r) /\ req[r].op = "move" /\ parent' = parent /\ calm' = calm
  BY DEF Shape, MoveFileTo, Active
<1>1. req[r].dst \in LiveIn(parent) /\ req[r].dst \in Own(r)
  <2>1. req[r].dst \in LiveIn(parent)
    BY <1>0 DEF Peace, Quiet, Arriving
  <2> QED BY <1>0, <2>1, OwnFolders, Constants DEF LiveIn
<1>2. \A f \in FileId : home'[f] = home[f] \/ home'[f] = req[r].dst
  BY DEF MoveFileTo
<1>3. Homes'
  BY <1>0, <1>1, <1>2, CalmTree DEF Homes
<1> QED BY <1>0, <1>1, <1>2, <1>3, CalmTree, FinishEnds DEF Good, Frame, MoveFileTo

LEMMA ListLevelGood ==
  ASSUME Shape, Peace, calm, NEW r \in Request, ListLevel(r)
  PROVE  Good(r)
<1> DEFINE next == Kids(parent, req[r].frontier)
           more == {<<d, parent[d]>> : d \in next}
           L == Listed(r)
<1>0. /\ TypeOK /\ req[r] \in ReqState /\ req[r].pc = "list" /\ Quiet(r)
      /\ req[r].op \in {"delete", "copy", "compress", "property"}
      /\ parent' = parent /\ home' = home /\ calm' = calm
      /\ L \in SUBSET FolderId /\ Below(parent, L) \subseteq req[r].touched
      /\ req[r].frontier \subseteq L /\ Kids(parent, L \ req[r].frontier) \subseteq L
      /\ req[r].op = "copy" => Copied(r) = {}
  <2>1. /\ TypeOK /\ Active(r) /\ req[r].pc = "list" /\ parent' = parent /\ home' = home /\ calm' = calm
        /\ req[r].op \in {"delete", "copy", "compress", "property"}
    BY DEF Shape, Stages, Stage, ListLevel, Active, rows
  <2>2. Quiet(r)
    BY <2>1 DEF Peace
  <2> QED BY <2>1, <2>2, OwnFolders DEF Quiet, Descending
<1>1. /\ req'[r].listed = req[r].listed \cup more /\ req'[r].frontier = next
      /\ req'[r].pc = IF next = {} THEN AfterListing(req[r].op) ELSE "list"
      /\ req'[r].op = req[r].op /\ req'[r].dst = req[r].dst /\ req'[r].src = req[r].src
      /\ req'[r].touched = req[r].touched /\ req'[r].copies = req[r].copies
      /\ \A q \in Request \ {r} : req'[q] = req[q]
  <2>1. next = Children(req[r].frontier)
    BY SubtreeBelow
  <2>2. req' = [req EXCEPT ![r] = [req[r] EXCEPT !.listed = req[r].listed \cup more, !.frontier = next,
                            !.pc = IF next = {} THEN AfterListing(req[r].op) ELSE "list"]]
    BY <1>0, <2>1 DEF ListLevel, TypeOK
  <2> HIDE DEF next, more
  <2> QED BY <1>0, <2>2 DEF TypeOK, ReqState
<1>2. Listed(r)' = L \cup next
  <2>1. \A d : d \in Listed(r)' <=> \E p \in req'[r].listed : d = p[1]
    BY DEF Listed, IdsOf
  <2>2. \A d : d \in L <=> \E p \in req[r].listed : d = p[1]
    BY DEF Listed, IdsOf
  <2>3. \A d : (\E p \in more : d = p[1]) <=> d \in next
    <3> HIDE DEF next
    <3>1. \A p \in more : p[1] \in next
      OBVIOUS
    <3>2. \A d \in next : <<d, parent[d]>> \in more /\ <<d, parent[d]>>[1] = d
      OBVIOUS
    <3> HIDE DEF more
    <3> QED BY <3>1, <3>2
  <2> HIDE DEF next, more, L
  <2> QED BY <1>1, <2>1, <2>2, <2>3
<1>3. next \in SUBSET FolderId /\ L \cup next \subseteq Below(parent, L)
  <2>1. L \subseteq Below(parent, L) /\ Kids(parent, Below(parent, L)) \subseteq Below(parent, L)
    BY <1>0, BelowFacts
  <2>2. next \subseteq Below(parent, L)
    BY <1>0, <2>1 DEF Kids
  <2> QED BY <2>1, <2>2 DEF Kids
<1>4. Below(parent, L \cup next) \subseteq req[r].touched
  BY <1>0, <1>3, BelowMonotone
<1>5. Kids(parent, L) \subseteq L \cup next
  BY <1>0 DEF Kids
<1>6. /\ req'[r].pc \in {"list", "files", "copy", "queued", "trace"}
      /\ req'[r].pc # "list" => next = {}
  BY <1>0, <1>1 DEF AfterListing
<1>7. req[r].op = "copy" => Faithful(r)' /\ Copied(r)' = {}
  <2> SUFFICES ASSUME req[r].op = "copy" PROVE Faithful(r)' /\ Copied(r)' = {}
    OBVIOUS
  <2>1. Copied(r)' = {}
    BY <1>0, <1>1 DEF Copied
  <2>2. \A x \in req[r].listed : parent[x[1]] = x[2]
    BY <1>0 DEF Quiet, Copying, Faithful
  <2>3. \A x \in req'[r].listed : parent[x[1]] = x[2] /\ x[1] \in FolderId
    BY <1>0, <1>1, <1>3, <2>2 DEF ReqState
  <2>4. \A d \in FolderId : req'[r].copies[d] = Absent
    BY <2>1 DEF Copied
  <2> QED BY <1>0, <2>1, <2>3, <2>4 DEF Faithful
<1> HIDE DEF next, more
<1>8. Arriving(r)' /\ Moving(r)'
  BY <1>0, <1>1, <1>6 DEF Quiet, Arriving, Moving
<1>9. Descending(r)'
  <2>1. L \cup next \subseteq req[r].touched
    BY <1>0, <1>3
  <2>2. Kids(parent, (L \cup next) \ next) \subseteq L \cup next
    BY <1>5 DEF Kids
  <2> QED BY <1>0, <1>1, <1>2, <1>4, <1>7, <2>1, <2>2 DEF Descending
<1>10. Deleting(r)' /\ Copying(r)'
  <2>1. next = {} => Kids(parent, L \cup next) \subseteq L \cup next
    BY <1>5
  <2>2. Deleting(r)'
    BY <1>0, <1>1, <1>2, <1>6, <2>1 DEF Deleting
  <2>3. Copying(r)'
    BY <1>1, <1>6, <1>7 DEF Copying
  <2> QED BY <2>2, <2>3
<1>11. Own(r)' = Own(r)
  BY <1>1 DEF Own, Touched, Copied
<1> QED BY <1>0, <1>1, <1>8, <1>9, <1>10, <1>11, StillGood DEF Quiet

LEMMA InsertFolderGood ==
  ASSUME Shape, Peace, calm, NEW r \in Request, InsertFolder(r)
  PROVE  Good(r)
<1> DEFINE n == NextFolder
<1>0. /\ TypeOK /\ req[r] \in ReqState /\ req[r].pc = "copy" /\ req[r].op = "copy" /\ Quiet(r) /\ Active(r)
      /\ home' = home /\ calm' = calm /\ n \in FolderId /\ parent[n] = Absent
  <2>1. /\ TypeOK /\ req[r].pc = "copy" /\ req[r].op = "copy" /\ Active(r) /\ FolderLeft
        /\ home' = home /\ calm' = calm
    BY DEF Shape, Stages, Stage, InsertFolder, Active
  <2> QED BY <2>1, NextFolderFree, OwnFolders DEF Peace
<1>1. PICK x \in req[r].listed :
             /\ req[r].copies[x[1]] = Absent /\ NewParent(r, x[1], x[2]) # Absent
             /\ parent' = [parent EXCEPT ![n] = NewParent(r, x[1], x[2])]
             /\ req' = [req EXCEPT ![r].copies[x[1]] = n]
  BY DEF InsertFolder
<1> DEFINE t == NewParent(r, x[1], x[2])
<1>2. /\ req[r].dst \in LiveIn(parent) /\ req[r].dst \in Own(r)
      /\ Copied(r) \subseteq LiveIn(parent) /\ Copied(r) \subseteq Own(r)
      /\ Listed(r) \subseteq req[r].touched /\ Faithful(r)
      /\ req[r].copies \in [FolderId -> FolderId \cup {Absent}]
      /\ x[1] \in FolderId /\ x[2] \in FolderId \cup {Top}
  <2>1. /\ req[r].dst \in LiveIn(parent) /\ Copied(r) \subseteq LiveIn(parent)
        /\ Listed(r) \subseteq req[r].touched /\ Faithful(r)
    BY <1>0 DEF Quiet, Arriving, Copying, Descending
  <2> QED BY <1>0, <2>1, OwnFolders, Constants DEF LiveIn, ReqState
<1>3. t \in LiveIn(parent) /\ t \in Own(r) /\ t \in FolderId /\ t # n
  <2>1. t = req[r].dst \/ t \in Copied(r)
    BY <1>1, <1>2 DEF NewParent, Copied
  <2> QED BY <1>0, <1>2, <2>1 DEF LiveIn
<1>4. \A e \in FolderId : parent'[e] = IF e = n THEN t ELSE parent[e]
  BY <1>0, <1>1, CalmTree
<1>5. n \in LiveIn(parent') /\ LiveIn(parent) \subseteq LiveIn(parent') /\ n \in Fresh
  BY <1>0, <1>3, <1>4, Constants DEF LiveIn, Fresh
<1>6. Tree(parent')
  BY <1>0, <1>1, <1>3, CalmTree, LeafTree
<1>7. /\ req'[r].copies = [req[r].copies EXCEPT ![x[1]] = n]
      /\ req'[r].pc = "copy" /\ req'[r].op = "copy" /\ req'[r].dst = req[r].dst /\ req'[r].src = req[r].src
      /\ req'[r].touched = req[r].touched /\ req'[r].listed = req[r].listed
      /\ \A q \in Request \ {r} : req'[q] = req[q]
  <2>1. req' = [req EXCEPT ![r] = [req[r] EXCEPT !.copies = [req[r].copies EXCEPT ![x[1]] = n]]]
    BY <1>0, <1>1 DEF TypeOK
  <2> QED BY <1>0, <2>1 DEF TypeOK, ReqState
<1> HIDE DEF n
<1>8. \A d \in FolderId : req'[r].copies[d] = IF d = x[1] THEN n ELSE req[r].copies[d]
  BY <1>2, <1>7
<1>9. Copied(r)' \subseteq Copied(r) \cup {n}
  BY <1>8 DEF Copied
<1>10. Own(r)' \subseteq Own(r) \cup Fresh
  BY <1>5, <1>7, <1>9 DEF Own, Touched
<1>11. Faithful(r)'
  <2> SUFFICES ASSUME NEW y \in req'[r].listed
               PROVE  /\ parent'[y[1]] = y[2]
                      /\ req'[r].copies[y[1]] # Absent =>
                           /\ NewParent(r, y[1], y[2])' # Absent
                           /\ parent'[req'[r].copies[y[1]]] = NewParent(r, y[1], y[2])'
    BY DEF Faithful
  <2>1. y[1] \in FolderId /\ y[2] \in FolderId \cup {Top} /\ y \in req[r].listed
    BY <1>0, <1>7, OwnFolders
  <2>2. parent[y[1]] = y[2]
    BY <1>2, <2>1 DEF Faithful
  <2>3. parent'[y[1]] = y[2]
    BY <1>0, <1>4, <2>1, <2>2, Constants
  <2>4. ASSUME NewParent(r, y[1], y[2]) # Absent
        PROVE  NewParent(r, y[1], y[2])' = NewParent(r, y[1], y[2])
    <3>1. CASE y[1] = req[r].src
      BY <1>7, <3>1 DEF NewParent
    <3>2. CASE y[1] # req[r].src
      <4>1. y[2] # Top /\ req[r].copies[y[2]] # Absent /\ y[2] \in FolderId
        BY <2>1, <2>4, <3>2 DEF NewParent
      <4>2. req'[r].copies[y[2]] = req[r].copies[y[2]]
        BY <1>1, <1>8, <4>1
      <4> QED BY <1>7, <3>2, <4>2 DEF NewParent
    <3> QED BY <3>1, <3>2
  <2>5. CASE y[1] = x[1]
    <3>1. y[2] = x[2]
      BY <1>2, <2>2, <2>5 DEF Faithful
    <3>2. NewParent(r, y[1], y[2]) = t /\ t # Absent
      BY <1>1, <2>5, <3>1
    <3>3. req'[r].copies[y[1]] = n /\ parent'[n] = t
      BY <1>0, <1>4, <1>8, <2>1, <2>5
    <3> HIDE DEF t
    <3> QED BY <2>3, <2>4, <3>2, <3>3
  <2>6. CASE y[1] # x[1]
    <3>1. req'[r].copies[y[1]] = req[r].copies[y[1]]
      BY <1>8, <2>1, <2>6
    <3>2. ASSUME req[r].copies[y[1]] # Absent
          PROVE  /\ NewParent(r, y[1], y[2]) # Absent
                 /\ parent'[req[r].copies[y[1]]] = NewParent(r, y[1], y[2])
      <4>1. req[r].copies[y[1]] \in Copied(r)
        BY <2>1, <3>2 DEF Copied
      <4>2. req[r].copies[y[1]] \in LiveIn(parent)
        BY <1>2, <4>1
      <4>3. req[r].copies[y[1]] # n /\ req[r].copies[y[1]] \in FolderId
        BY <1>0, <4>2 DEF LiveIn
      <4> QED BY <1>2, <1>4, <2>1, <3>2, <4>3 DEF Faithful
    <3> QED BY <2>3, <2>4, <3>1, <3>2
  <2> QED BY <2>5, <2>6
<1> HIDE DEF t
<1>12. Quiet(r)'
  <2>1. Copied(r)' \subseteq LiveIn(parent') /\ req[r].dst \in LiveIn(parent')
    BY <1>2, <1>5, <1>9
  <2>2. Listed(r)' \subseteq req[r].touched
    BY <1>2, <1>7 DEF Listed
  <2> QED BY <1>7, <1>11, <2>1, <2>2 DEF Quiet, Arriving, Moving, Descending, Deleting, Copying
<1>13. Homes'
  BY <1>0, <1>5, CalmTree DEF Homes
<1>14. Frame(r, Own(r))
  BY <1>0, <1>3, <1>4, <1>7 DEF Frame
<1> QED BY <1>0, <1>6, <1>10, <1>12, <1>13, <1>14 DEF Good

LEMMA CollectFilesGood ==
  ASSUME Shape, Peace, calm, NEW r \in Request, CollectFiles(r)
  PROVE  Good(r)
<1>0. /\ TypeOK /\ req[r] \in ReqState /\ req[r].op = "copy" /\ Quiet(r) /\ Active(r)
      /\ parent' = parent /\ home' = home /\ calm' = calm /\ Uncopied(r) = {}
  <2>1. /\ TypeOK /\ req[r].op = "copy" /\ Active(r) /\ parent' = parent /\ home' = home /\ calm' = calm
    BY DEF Shape, Stages, Stage, CollectFiles, Active, rows
  <2>2. Uncopied(r) = {}
    <3>1. CASE req[r].pc = "entries"
      BY <3>1 DEF Shape, Stages, Stage, Uncopied, IdsOf
    <3> QED BY <3>1 DEF CollectFiles
  <2> QED BY <2>1, <2>2, OwnFolders DEF Peace
<1>1. /\ req[r].dst \in LiveIn(parent) /\ req[r].dst \in Own(r)
      /\ Copied(r) \subseteq LiveIn(parent) /\ Copied(r) \subseteq Own(r)
      /\ Listed(r) \subseteq req[r].touched /\ Faithful(r)
  <2>1. /\ req[r].dst \in LiveIn(parent) /\ Copied(r) \subseteq LiveIn(parent)
        /\ Listed(r) \subseteq req[r].touched /\ Faithful(r)
    BY <1>0 DEF Quiet, Arriving, Copying, Descending
  <2> QED BY <1>0, <2>1, OwnFolders, Constants DEF LiveIn
<1> DEFINE inside == {<<f, req[r].copies[home[f]]>> : f \in FilesIn(IdsOf(req[r].listed))}
           single == {<<f, req[r].dst>> : f \in {g \in req[r].files : home[g] = req[r].src}}
<1>2. PICK u \in SUBSET (inside \cup single) :
        req' = [req EXCEPT ![r].pc = "insert", ![r].todo = (inside \cup single) \ u]
  BY DEF CollectFiles
<1>3. \A z \in inside \cup single : z[2] \in Own(r) \cap LiveIn(parent)
  <2>1. ASSUME NEW f \in FilesIn(IdsOf(req[r].listed))
        PROVE  req[r].copies[home[f]] \in Copied(r)
    <3>1. home[f] \in Listed(r) /\ home[f] \in FolderId
      BY <1>0, <2>1, OwnFolders DEF FilesIn, Listed
    <3>2. req[r].copies[home[f]] # Absent
      BY <1>0, <3>1 DEF Uncopied, Listed
    <3> QED BY <3>1, <3>2 DEF Copied
  <2>2. \A z \in inside : z[2] \in Copied(r)
    BY <2>1
  <2>3. \A z \in single : z[2] = req[r].dst
    OBVIOUS
  <2> HIDE DEF inside, single
  <2> QED BY <1>1, <2>2, <2>3
<1> HIDE DEF inside, single
<1>4. /\ req'[r].pc = "insert" /\ req'[r].op = "copy" /\ req'[r].dst = req[r].dst /\ req'[r].src = req[r].src
      /\ req'[r].touched = req[r].touched /\ req'[r].listed = req[r].listed
      /\ req'[r].copies = req[r].copies /\ req'[r].todo \subseteq inside \cup single
      /\ \A q \in Request \ {r} : req'[q] = req[q]
  BY <1>0, <1>2 DEF TypeOK, ReqState
<1>5. /\ Own(r)' = Own(r) /\ Listed(r)' = Listed(r) /\ Copied(r)' = Copied(r)
      /\ Uncopied(r)' = {} /\ Faithful(r)'
  BY <1>0, <1>1, <1>4 DEF Own, Touched, Listed, Copied, Uncopied, Faithful, NewParent
<1>6. Quiet(r)'
  BY <1>0, <1>1, <1>3, <1>4, <1>5 DEF Quiet, Arriving, Moving, Descending, Deleting, Copying
<1> QED BY <1>0, <1>4, <1>5, <1>6, StillGood

LEMMA InsertFileGood ==
  ASSUME Shape, Peace, calm, NEW r \in Request, InsertFile(r)
  PROVE  Good(r)
<1>0. /\ TypeOK /\ req[r] \in ReqState /\ req[r].op = "copy" /\ req[r].pc = "insert" /\ Quiet(r) /\ Active(r)
      /\ parent' = parent /\ calm' = calm
  <2>1. TypeOK /\ req[r].op = "copy" /\ req[r].pc = "insert" /\ Active(r) /\ parent' = parent /\ calm' = calm
    BY DEF Shape, Stages, Stage, InsertFile, Active
  <2> QED BY <2>1, OwnFolders DEF Peace
<1>1. PICK x \in req[r].todo :
        /\ home' = [home EXCEPT ![NextFile] = x[2]]
        /\ req' = [req EXCEPT ![r].todo = @ \ {x}]
  BY DEF InsertFile
<1>2. x[2] \in Own(r) \cap LiveIn(parent)
  BY <1>0 DEF Quiet, Copying
<1>3. \A f \in FileId : home'[f] = home[f] \/ home'[f] = x[2]
  BY <1>1, CalmTree
<1>4. /\ req'[r].pc = "insert" /\ req'[r].op = "copy" /\ req'[r].dst = req[r].dst /\ req'[r].src = req[r].src
      /\ req'[r].touched = req[r].touched /\ req'[r].listed = req[r].listed
      /\ req'[r].copies = req[r].copies /\ req'[r].todo \subseteq req[r].todo
      /\ \A q \in Request \ {r} : req'[q] = req[q]
  BY <1>0, <1>1 DEF TypeOK, ReqState
<1>5. /\ Own(r)' = Own(r) /\ Listed(r)' = Listed(r) /\ Copied(r)' = Copied(r)
      /\ Uncopied(r)' = Uncopied(r) /\ (Faithful(r) => Faithful(r)')
  BY <1>0, <1>4 DEF Own, Touched, Listed, Copied, Uncopied, Faithful, NewParent
<1>6. Quiet(r)'
  BY <1>0, <1>4, <1>5 DEF Quiet, Arriving, Moving, Descending, Deleting, Copying
<1>7. Homes'
  BY <1>0, <1>2, <1>3, CalmTree DEF Homes
<1> QED BY <1>0, <1>2, <1>3, <1>4, <1>5, <1>6, <1>7, CalmTree DEF Good, Frame

LEMMA ListDeleteFilesGood ==
  ASSUME Shape, Peace, calm, NEW r \in Request, ListDeleteFiles(r)
  PROVE  Good(r)
<1> DEFINE T == {<<f, home[f]>> : f \in FilesIn(Doomed(r)) \cup (req[r].files \cap LiveFiles)}
<1>0. /\ TypeOK /\ req[r] \in ReqState /\ req[r].op = "delete" /\ req[r].pc = "files" /\ Quiet(r)
      /\ parent' = parent /\ home' = home /\ calm' = calm
  <2>1. /\ TypeOK /\ req[r].op = "delete" /\ req[r].pc = "files" /\ Active(r)
        /\ parent' = parent /\ home' = home /\ calm' = calm
    BY DEF Shape, ListDeleteFiles, Active, rows
  <2> QED BY <2>1, OwnFolders DEF Peace
<1>1. Inside(home, Doomed(r)) \subseteq IdsOf(T)
  <2> SUFFICES ASSUME NEW f \in FileId, home[f] \in Doomed(r) PROVE \E p \in T : f = p[1]
    BY DEF Inside, IdsOf
  <2>1. <<f, home[f]>> \in T /\ <<f, home[f]>>[1] = f
    BY DEF FilesIn
  <2> QED BY <2>1
<1> HIDE DEF T
<1>2. /\ req'[r].pc = "rows" /\ req'[r].op = "delete" /\ req'[r].todo = T
      /\ req'[r].dst = req[r].dst /\ req'[r].touched = req[r].touched
      /\ req'[r].listed = req[r].listed /\ req'[r].copies = req[r].copies
      /\ \A q \in Request \ {r} : req'[q] = req[q]
  <2>1. req' = [req EXCEPT ![r] = [req[r] EXCEPT !.pc = "rows", !.todo = T]]
    BY <1>0 DEF ListDeleteFiles, TypeOK, T
  <2> QED BY <1>0, <2>1 DEF TypeOK, ReqState
<1>3. /\ Own(r)' = Own(r) /\ Listed(r)' = Listed(r) /\ Doomed(r)' = Doomed(r)
  BY <1>2 DEF Own, Touched, Copied, Listed, Doomed
<1>4. Quiet(r)'
  BY <1>0, <1>1, <1>2, <1>3 DEF Quiet, Arriving, Moving, Descending, Deleting, Copying
<1> QED BY <1>0, <1>2, <1>3, <1>4, StillGood

LEMMA DeleteRowsGood ==
  ASSUME Shape, Peace, calm, NEW r \in Request, DeleteRows(r)
  PROVE  Good(r)
<1> DEFINE files == IdsOf(req[r].todo)
<1>0. /\ TypeOK /\ req[r] \in ReqState /\ req[r].op = "delete" /\ req[r].pc = "rows" /\ Quiet(r)
      /\ parent' = parent /\ calm' = calm
  <2>1. /\ TypeOK /\ req[r].op = "delete" /\ req[r].pc = "rows" /\ Active(r) /\ parent' = parent /\ calm' = calm
    BY DEF Shape, Stages, Stage, DeleteRows, Active
  <2> QED BY <2>1, OwnFolders DEF Peace
<1>1. PICK failed \in SUBSET files :
       \/ /\ home' = [f \in FileId |-> IF f \in files \ failed THEN Gone ELSE home[f]]
          /\ IF failed = {} THEN To(r, "dirs") ELSE Finish(r, "failed")
       \/ Finish(r, "failed") /\ UNCHANGED home
  BY DEF DeleteRows
<1>2. \A f \in FileId : home'[f] = home[f] \/ home'[f] = Gone
  BY <1>1
<1>3. Homes'
  BY <1>0, <1>2, CalmTree DEF Homes
<1>4. CASE Finish(r, "failed")
  BY <1>0, <1>2, <1>3, <1>4, CalmTree, FinishEnds DEF Good, Frame
<1>5. CASE /\ To(r, "dirs")
           /\ home' = [f \in FileId |-> IF f \in files THEN Gone ELSE home[f]]
  <2>1. /\ req'[r].pc = "dirs" /\ req'[r].op = "delete"
        /\ req'[r].dst = req[r].dst /\ req'[r].touched = req[r].touched
        /\ req'[r].listed = req[r].listed /\ req'[r].copies = req[r].copies
        /\ \A q \in Request \ {r} : req'[q] = req[q]
    BY <1>0, <1>5 DEF To, TypeOK, ReqState
  <2>2. /\ Own(r)' = Own(r) /\ Listed(r)' = Listed(r) /\ Doomed(r)' = Doomed(r)
    BY <2>1 DEF Own, Touched, Copied, Listed, Doomed
  <2>3. Inside(home', Doomed(r)) = {}
    <3> SUFFICES ASSUME NEW f \in FileId, home'[f] \in Doomed(r) PROVE FALSE
      BY DEF Inside
    <3>1. Gone \notin Doomed(r)
      BY <1>0, OwnFolders, Constants DEF Doomed, Listed
    <3>2. f \notin files /\ home[f] \in Doomed(r)
      BY <1>5, <3>1
    <3> QED BY <1>0, <3>2 DEF Quiet, Deleting, Inside
  <2>4. Quiet(r)'
    BY <1>0, <2>1, <2>2, <2>3 DEF Quiet, Arriving, Moving, Descending, Deleting, Copying
  <2> QED BY <1>0, <1>2, <1>3, <2>1, <2>2, <2>4, CalmTree DEF Good, Frame
<1> QED BY <1>1, <1>4, <1>5

LEMMA DeleteFoldersGood ==
  ASSUME Shape, Peace, calm, NEW r \in Request, DeleteFolders(r)
  PROVE  Good(r)
<1>0. /\ TypeOK /\ req[r].op = "delete" /\ req[r].pc = "dirs" /\ Quiet(r) /\ Active(r)
      /\ home' = home /\ calm' = calm
  <2>1. /\ TypeOK /\ req[r].op = "delete" /\ req[r].pc = "dirs" /\ Active(r) /\ home' = home /\ calm' = calm
    BY DEF Shape, Stages, Stage, DeleteFolders, Active
  <2> QED BY <2>1 DEF Peace
<1>1. /\ Doomed(r) \in SUBSET FolderId /\ Doomed(r) \subseteq Own(r)
      /\ Kids(parent, Listed(r)) \subseteq Listed(r) /\ Inside(home, Doomed(r)) = {}
  <2>1. /\ Listed(r) \subseteq req[r].touched /\ Inside(home, Doomed(r)) = {}
        /\ Kids(parent, Listed(r)) \subseteq Listed(r)
    BY <1>0 DEF Quiet, Descending, Deleting
  <2>2. Listed(r) \in SUBSET FolderId /\ req[r].touched \ {Absent} \subseteq Own(r)
    BY <1>0, OwnFolders
  <2>3. Doomed(r) = Listed(r) \ {Root}
    BY DEF Doomed, Listed
  <2> QED BY <2>1, <2>2, <2>3, Constants
<1>2. Kids(parent, Doomed(r)) \subseteq Doomed(r)
  <2> SUFFICES ASSUME NEW d \in FolderId, parent[d] \in Doomed(r) PROVE d \in Doomed(r)
    BY DEF Kids
  <2>1. d # Root
    BY <1>1, CalmTree, Constants
  <2>2. parent[d] \in Listed(r)
    BY DEF Doomed, Listed
  <2> QED BY <1>1, <2>1, <2>2 DEF Kids, Doomed, Listed
<1>3. parent' = [d \in FolderId |-> IF d \in Doomed(r) \cap LiveIn(parent) THEN Gone ELSE parent[d]]
  BY SubtreeBelow DEF DeleteFolders
<1>4. Tree(parent')
  BY <1>1, <1>2, <1>3, CalmTree, PruneTree
<1>5. \A d \in FolderId : parent'[d] = IF d \in Doomed(r) \cap LiveIn(parent) THEN Gone ELSE parent[d]
  BY <1>3
<1>6. Homes'
  <2> SUFFICES ASSUME NEW f \in FileId, home[f] \notin {Absent, Gone} PROVE home[f] \in LiveIn(parent')
    BY <1>0 DEF Homes
  <2>1. home[f] \in LiveIn(parent) /\ home[f] \in FolderId
    BY CalmTree DEF Homes
  <2>2. home[f] \notin Doomed(r)
    BY <1>1 DEF Inside
  <2> QED BY <1>5, <2>1, <2>2 DEF LiveIn
<1>7. ~ Active(r)' /\ \A q \in Request \ {r} : req'[q] = req[q]
  BY <1>0, FinishEnds DEF DeleteFolders
<1> QED BY <1>0, <1>1, <1>4, <1>5, <1>6, <1>7 DEF Good, Frame

(* A request that only reads relies on nothing.                             *)
LEMMA ReaderGood ==
  ASSUME Shape, Peace, calm, NEW r \in Request,
         req[r].op \in {"walk", "compress", "property"},
         parent' = parent, home' = home, calm' = calm,
         \A q \in Request \ {r} : req'[q] = req[q],
         req'[r].op = req[r].op, req'[r].pc \in {"walk", "compress", "trace"},
         req'[r].dst = req[r].dst, req'[r].touched = req[r].touched, req'[r].copies = req[r].copies
  PROVE  Good(r)
<1>1. Own(r)' = Own(r)
  BY DEF Own, Touched, Copied
<1>2. Quiet(r)'
  BY DEF Quiet, Arriving, Moving, Descending, Deleting, Copying
<1> QED BY <1>1, <1>2, StillGood

LEMMA VisitFolderGood ==
  ASSUME Shape, Peace, calm, NEW r \in Request, VisitFolder(r)
  PROVE  Good(r)
<1>0. /\ TypeOK /\ req[r] \in ReqState /\ req[r].op = "walk" /\ req[r].pc = "walk"
      /\ parent' = parent /\ home' = home /\ calm' = calm
  BY OwnFolders DEF Shape, Stages, Stage, VisitFolder, rows
<1>1. PICK D : Finish(r, "done") \/ req' = [req EXCEPT ![r].frontier = D]
  BY DEF VisitFolder
<1>2. CASE Finish(r, "done")
  BY <1>0, <1>2, EndGood
<1>3. CASE req' = [req EXCEPT ![r].frontier = D]
  <2>1. /\ req'[r].op = req[r].op /\ req'[r].pc = "walk" /\ req'[r].dst = req[r].dst
        /\ req'[r].touched = req[r].touched /\ req'[r].copies = req[r].copies
        /\ \A q \in Request \ {r} : req'[q] = req[q]
    BY <1>0, <1>3 DEF TypeOK, ReqState
  <2> QED BY <1>0, <2>1, ReaderGood
<1> QED BY <1>1, <1>2, <1>3

LEMMA CompressTaskGood ==
  ASSUME Shape, Peace, calm, NEW r \in Request, CompressTask(r)
  PROVE  Good(r)
<1>0. /\ TypeOK /\ req[r] \in ReqState /\ req[r].op = "compress"
      /\ parent' = parent /\ home' = home /\ calm' = calm
  BY OwnFolders DEF Shape, Stages, Stage, CompressTask, rows
<1>1. /\ req'[r].op = req[r].op /\ req'[r].pc = "compress" /\ req'[r].dst = req[r].dst
      /\ req'[r].touched = req[r].touched /\ req'[r].copies = req[r].copies
      /\ \A q \in Request \ {r} : req'[q] = req[q]
  BY <1>0 DEF CompressTask, TypeOK, ReqState
<1> QED BY <1>0, <1>1, ReaderGood

LEMMA CompressFolderGood ==
  ASSUME Shape, Peace, calm, NEW r \in Request, CompressFolder(r)
  PROVE  Good(r)
<1>0. /\ TypeOK /\ req[r] \in ReqState /\ req[r].op = "compress" /\ req[r].pc = "compress"
      /\ parent' = parent /\ home' = home /\ calm' = calm
  BY OwnFolders DEF Shape, Stages, Stage, CompressFolder, rows
<1>1. CASE Finish(r, "done") \/ Finish(r, "failed")
  BY <1>0, <1>1, EndGood
<1>2. ASSUME NEW d, req' = [req EXCEPT ![r].frontier = (@ \ {d}) \cup Children({d})]
      PROVE  Good(r)
  <2>1. /\ req'[r].op = req[r].op /\ req'[r].pc = "compress" /\ req'[r].dst = req[r].dst
        /\ req'[r].touched = req[r].touched /\ req'[r].copies = req[r].copies
        /\ \A q \in Request \ {r} : req'[q] = req[q]
    BY <1>0, <1>2 DEF TypeOK, ReqState
  <2> QED BY <1>0, <2>1, ReaderGood
<1> QED BY <1>1, <1>2 DEF CompressFolder

LEMMA TraceRootGood ==
  ASSUME Shape, Peace, calm, NEW r \in Request, TraceRoot(r)
  PROVE  Good(r)
<1>0. /\ TypeOK /\ req[r] \in ReqState /\ req[r].op = "property" /\ req[r].pc = "trace"
      /\ parent' = parent /\ home' = home /\ calm' = calm
  BY OwnFolders DEF Shape, Stages, Stage, TraceRoot, rows
<1>1. PICK p : \/ Finish(r, "done") \/ Finish(r, "failed")
               \/ req' = [req EXCEPT ![r].dirs = {p}, ![r].listed = {}]
  <2> DEFINE d == CHOOSE x \in req[r].dirs : TRUE
  <2>1. CASE parent[d] \in Live
    <3>1. parent[d] # Top
      BY <2>1, Constants DEF Live
    <3> QED BY <2>1, <3>1 DEF TraceRoot
  <2>2. CASE parent[d] \notin Live
    BY <2>2 DEF TraceRoot
  <2> QED BY <2>1, <2>2
<1>2. CASE Finish(r, "done") \/ Finish(r, "failed")
  BY <1>0, <1>2, EndGood
<1>3. CASE req' = [req EXCEPT ![r].dirs = {p}, ![r].listed = {}]
  <2>1. /\ req'[r].op = req[r].op /\ req'[r].pc = "trace" /\ req'[r].dst = req[r].dst
        /\ req'[r].touched = req[r].touched /\ req'[r].copies = req[r].copies
        /\ \A q \in Request \ {r} : req'[q] = req[q]
    BY <1>0, <1>3 DEF TypeOK, ReqState
  <2> QED BY <1>0, <2>1, ReaderGood
<1> QED BY <1>1, <1>2, <1>3

LEMMA StepGood ==
  ASSUME Shape, Peace, calm, NEW r \in Request, Step(r) \/ Fails(r)
  PROVE  Good(r) /\ Active(r)
<1>1. CASE EndCopy(r) \/ Fails(r)
  BY <1>1, EndGood DEF EndCopy, Fails, Active, rows
<1>2. Step(r) => Active(r)
  BY DEF Step, MakeFolder, ImportFile, MoveFolderTo, MoveFileTo, ListLevel, InsertFolder, CollectFiles,
         InsertFile, EndCopy, ListDeleteFiles, DeleteRows, DeleteFolders, VisitFolder, CompressTask,
         CompressFolder, TraceRoot, Active
<1> QED
  BY <1>1, <1>2, MakeFolderGood, ImportFileGood, MoveFolderToGood, MoveFileToGood, ListLevelGood,
     InsertFolderGood, CollectFilesGood, InsertFileGood, ListDeleteFilesGood, DeleteRowsGood,
     DeleteFoldersGood, VisitFolderGood, CompressTaskGood, CompressFolderGood, TraceRootGood
  DEF Step

-----------------------------------------------------------------------------
(* A request that is made keeps away from what the others work on.          *)
LEMMA StartPeace ==
  ASSUME Shape, Peace, calm, NEW r \in Request, req[r].pc = "idle",
         NEW first, Start(r, first), Arrives(first)
  PROVE  Peace'
<1> DEFINE S == first.dirs \cup IF first.levels > 0 THEN {first.dst} ELSE {}
           T == Subtree(S) \cup {first.src, first.dst} \cup {home[f] : f \in first.files \cap LiveFiles}
<1>0. /\ TypeOK /\ Stages /\ first \in ReqState /\ Apart /\ Born
      /\ parent' = parent /\ home' = home /\ calm' = calm
      /\ \A d \in FolderId : first.copies[d] = Absent
  BY DEF Shape, Start, Arrives, rows, Peace, Idle
<1>1. /\ Undisturbed(T) /\ req' = [req EXCEPT ![r] = [first EXCEPT !.touched = T]]
  BY DEF Start
<1>2. /\ first.dirs \in SUBSET LiveIn(parent)
      /\ first.src \in LiveIn(parent) \cup {Absent} /\ first.dst \in LiveIn(parent) \cup {Absent}
      /\ S \in SUBSET LiveIn(parent) /\ S \in SUBSET FolderId /\ first.dirs \subseteq S
      /\ first.dirs \in SUBSET FolderId
      /\ first.levels > 0 => first.dst \in S
      /\ Subtree(S) = Below(parent, S)
  <2>1. /\ first.dirs \in SUBSET LiveIn(parent) /\ (first.levels > 0 => first.dst \in LiveIn(parent))
        /\ first.src \in LiveIn(parent) \cup {Absent} /\ first.dst \in LiveIn(parent) \cup {Absent}
    BY SubtreeBelow DEF Arrives
  <2>2. LiveIn(parent) \subseteq FolderId
    BY DEF LiveIn
  <2>3. S \in SUBSET LiveIn(parent) /\ first.dirs \subseteq S /\ (first.levels > 0 => first.dst \in S)
    BY <2>1
  <2>4. Subtree(S) = Below(parent, S)
    BY SubtreeBelow
  <2> HIDE DEF S
  <2>5. first.dirs \in SUBSET FolderId /\ S \in SUBSET FolderId
    BY <2>1, <2>2, <2>3
  <2> QED BY <2>1, <2>3, <2>4, <2>5
<1> HIDE DEF S
<1>3. \A D \in SUBSET FolderId : D \subseteq S => Below(parent, D) \subseteq T
  BY <1>2, BelowFacts, BelowMonotone
<1>4. S \subseteq T /\ first.dst \in T
  BY <1>2, BelowFacts
<1>5. \A d \in T \ {Absent} : d \in FolderId /\ parent[d] # Absent
  <2> DEFINE V == {d \in FolderId : parent[d] # Absent}
  <2>1. V \in SUBSET FolderId /\ Kids(parent, V) \subseteq V
    BY Constants DEF Kids
  <2>2. LiveIn(parent) \subseteq V
    BY DEF LiveIn
  <2>3. Below(parent, S) \subseteq V
    <3>1. S \subseteq V
      BY <1>2, <2>2
    <3> HIDE DEF V
    <3> QED BY <1>2, <2>1, <3>1, BelowFacts
  <2>4. \A f \in LiveFiles : home[f] \in V
    BY <2>2, CalmTree DEF Homes, LiveFiles
  <2> QED BY <1>2, <2>2, <2>3, <2>4
<1> HIDE DEF T
<1>6. /\ req'[r].op = first.op /\ req'[r].pc = first.pc /\ req'[r].dirs = first.dirs
      /\ req'[r].src = first.src /\ req'[r].dst = first.dst /\ req'[r].listed = first.listed
      /\ req'[r].frontier = first.frontier /\ req'[r].copies = first.copies /\ req'[r].todo = first.todo
      /\ req'[r].touched = T
      /\ \A q \in Request \ {r} : req'[q] = req[q]
  BY <1>0, <1>1 DEF TypeOK, ReqState
<1>7. Copied(r)' = {} /\ Own(r)' = T \ {Absent}
  BY <1>0, <1>4, <1>6 DEF Copied, Own, Touched
<1>8. ASSUME NEW q \in Request, q # r, Active(q)'
      PROVE  /\ Quiet(q)' /\ Own(q)' = Own(q) /\ Active(q)
             /\ Own(q) \cap T = {}
             /\ \A d \in Own(q) : parent[d] # Absent
  <2>1. Active(q)
    BY <1>6, <1>8 DEF Active
  <2>2. Quiet(q) /\ \A d \in Own(q) : parent[d] # Absent
    BY <1>0, <2>1 DEF Peace, Born
  <2>3. Frame(r, {})
    BY <1>0, <1>6 DEF Frame
  <2>4. Quiet(q)' /\ Own(q)' = Own(q)
    BY <1>0, <1>8, <2>2, <2>3, OthersQuiet
  <2>5. Own(q) \cap T = {}
    BY <1>1, <2>1 DEF Undisturbed, Own
  <2> QED BY <2>1, <2>2, <2>4, <2>5
<1>9. Apart'
  <2> SUFFICES ASSUME NEW q \in Request, NEW s \in Request, q # s, Active(q)', Active(s)'
               PROVE  Own(q)' \cap Own(s)' = {}
    BY DEF Apart
  <2>1. CASE q # r /\ s # r
    BY <1>0, <1>8, <2>1 DEF Apart
  <2>2. CASE q = r
    BY <1>7, <1>8, <2>2
  <2>3. CASE s = r
    BY <1>7, <1>8, <2>3
  <2> QED BY <2>1, <2>2, <2>3
<1>10. Born'
  BY <1>0, <1>5, <1>7, <1>8 DEF Born
<1>11. Arriving(r)'
  <2>1. first.pc = "mkdir" => first.dst \in LiveIn(parent) /\ Below(parent, {first.dst}) \subseteq T
    <3> SUFFICES ASSUME first.pc = "mkdir"
                 PROVE  first.dst \in LiveIn(parent) /\ Below(parent, {first.dst}) \subseteq T
      OBVIOUS
    <3>1. first.levels \in 1..2 /\ first.dst \in LiveIn(parent)
      BY SubtreeBelow DEF Arrives
    <3>2. {first.dst} \in SUBSET FolderId /\ {first.dst} \subseteq S
      BY <1>2, <3>1
    <3> QED BY <1>3, <3>1, <3>2
  <2>2. first.op \in {"mkdir", "import", "move", "copy"} => first.dst \in LiveIn(parent)
    BY SubtreeBelow DEF Arrives
  <2> QED BY <1>0, <1>6, <2>1, <2>2 DEF Arriving
<1>12. Moving(r)'
  <2>1. first.pc = "folders" => first.dst \notin Below(parent, first.dirs)
    BY SubtreeBelow DEF Arrives
  <2> QED BY <1>0, <1>2, <1>3, <1>6, <2>1 DEF Moving
<1>13. first.pc = "list" => /\ Listed(r)' = first.dirs /\ first.frontier = first.dirs
                            /\ \A x \in first.listed : parent[x[1]] = x[2] /\ x[1] \in FolderId
  <2> SUFFICES ASSUME first.pc = "list"
               PROVE  /\ Listed(r)' = first.dirs /\ first.frontier = first.dirs
                      /\ \A x \in first.listed : parent[x[1]] = x[2] /\ x[1] \in FolderId
    OBVIOUS
  <2>1. Listed0(first)
    BY DEF Arrives
  <2>2. \A x \in first.listed : x[1] \in first.dirs /\ parent[x[1]] = x[2]
    BY <2>1 DEF Listed0
  <2>3. \A d \in first.dirs : <<d, parent[d]>> \in first.listed /\ <<d, parent[d]>>[1] = d
    BY <2>1 DEF Listed0
  <2>4. \A d : d \in Listed(r)' <=> \E x \in first.listed : d = x[1]
    BY <1>6 DEF Listed, IdsOf
  <2>5. first.dirs \subseteq Listed(r)'
    <3> SUFFICES ASSUME NEW d \in first.dirs PROVE d \in Listed(r)'
      OBVIOUS
    <3> QED BY <2>3, <2>4
  <2>6. Listed(r)' \subseteq first.dirs
    BY <2>2, <2>4
  <2>7. first.frontier = first.dirs
    BY <2>1 DEF Listed0
  <2>8. \A x \in first.listed : parent[x[1]] = x[2] /\ x[1] \in FolderId
    BY <1>2, <2>2
  <2> QED BY <2>5, <2>6, <2>7, <2>8
<1>14. first.op = "copy" => Faithful(r)' /\ (first.pc # "list" => Listed(r)' = {})
  <2>1. first.op = "copy" => first.pc = "list" \/ first.listed = {}
    BY DEF Arrives
  <2>2. first.listed = {} => Listed(r)' = {} /\ Faithful(r)'
    <3> SUFFICES ASSUME first.listed = {} PROVE Listed(r)' = {} /\ Faithful(r)'
      OBVIOUS
    <3>1. req'[r].listed = {}
      BY <1>6
    <3>2. \A d : d \notin Listed(r)'
      BY <3>1 DEF Listed, IdsOf
    <3> QED BY <3>1, <3>2 DEF Faithful
  <2>3. first.pc = "list" => Faithful(r)'
    BY <1>0, <1>6, <1>13 DEF Faithful
  <2> QED BY <2>1, <2>2, <2>3
<1>15. Descending(r)'
  <2>1. first.pc = "list" => Below(parent, Listed(r)') \subseteq T /\ Listed(r)' \subseteq T
    BY <1>2, <1>3, <1>4, <1>13
  <2>2. first.op = "delete" => first.pc = "list"
    BY DEF Arrives
  <2>3. Kids(parent, {}) = {}
    BY DEF Kids
  <2>4. first.pc = "list" => Listed(r)' \ first.frontier = {} /\ first.frontier \subseteq Listed(r)'
    BY <1>13
  <2> QED BY <1>0, <1>6, <1>7, <1>14, <2>1, <2>2, <2>3, <2>4 DEF Descending
<1>16. Deleting(r)' /\ Copying(r)'
  <2>1. /\ first.op = "delete" => first.pc = "list"
        /\ first.pc \notin {"rows", "dirs", "insert"}
    BY DEF Arrives
  <2> QED BY <1>6, <1>7, <1>14, <2>1 DEF Deleting, Copying
<1>17. \A q \in Request : Active(q)' => Quiet(q)'
  BY <1>8, <1>11, <1>12, <1>15, <1>16 DEF Quiet
<1> QED BY <1>0, <1>9, <1>10, <1>17, CalmTree DEF Peace, Homes

IInv == Shape /\ Peace

LEMMA PeaceInit == Init => IInv
<1> SUFFICES ASSUME Init PROVE Peace
  BY ShapeInit DEF IInv
<1>1. \A r \in Request : ~ Active(r)
  BY DEF Init, Active, Idle
<1>2. Homes
  <2> SUFFICES ASSUME NEW f \in FileId, home[f] \notin {Absent, Gone} PROVE home[f] \in LiveIn(parent)
    BY DEF Homes
  <2>1. home[f] \in OldFolder
    BY DEF Init
  <2>2. parent[home[f]] \in OldFolder \cup {Top} /\ home[f] \in FolderId
    BY <2>1, FolderTreeIds DEF Init
  <2> QED BY <2>2, FolderTreeIds, Constants DEF LiveIn
<1> QED BY <1>1, <1>2, TreeInit DEF Peace, Apart, Born

LEMMA PeaceStep == IInv /\ [Next]_vars => IInv'
<1> SUFFICES ASSUME IInv, [Next]_vars PROVE Peace'
  BY ShapeStep DEF IInv
<1>1. calm' = calm
  <2>1. ASSUME NEW r \in Request, NewRequest(r) PROVE calm' = calm
    BY <2>1, Arrival DEF IInv, Shape, RootStays, Start
  <2>2. ASSUME NEW r \in Request, Step(r) \/ Fails(r) PROVE calm' = calm
    BY <2>2 DEF Step, MakeFolder, ImportFile, MoveFolderTo, MoveFileTo, ListLevel, InsertFolder, CollectFiles,
         InsertFile, EndCopy, ListDeleteFiles, DeleteRows, DeleteFolders, VisitFolder, CompressTask,
         CompressFolder, TraceRoot, Fails
  <2> QED BY <2>1, <2>2 DEF Next, vars
<1>2. CASE ~ calm
  BY <1>1, <1>2 DEF Peace
<1>3. CASE calm
  <2>1. ASSUME NEW r \in Request, NewRequest(r) PROVE Peace'
    <3>1. req[r].pc = "idle"
      BY <2>1 DEF NewRequest
    <3> QED BY <1>3, <2>1, <3>1, Arrival, StartPeace DEF IInv, Shape, RootStays
  <2>2. ASSUME NEW r \in Request, Step(r) \/ Fails(r) PROVE Peace'
    BY <1>3, <2>2, StepGood, GoodPeace DEF IInv
  <2>3. CASE UNCHANGED vars
    <3>1. parent' = parent /\ home' = home /\ req' = req /\ calm' = calm
      BY <2>3 DEF vars, rows
    <3>2. \A r \in Request : (Active(r)' <=> Active(r)) /\ Own(r)' = Own(r)
      BY <3>1 DEF Active, Own, Touched, Copied
    <3>3. Apart' /\ Born'
      BY <1>3, <3>1, <3>2 DEF IInv, Peace, Apart, Born
    <3>4. ASSUME NEW r \in Request, Quiet(r) PROVE Quiet(r)'
      <4>1. /\ Listed(r)' = Listed(r) /\ Doomed(r)' = Doomed(r) /\ Uncopied(r)' = Uncopied(r)
            /\ Copied(r)' = Copied(r)
        BY <3>1 DEF Listed, Doomed, Uncopied, Copied
      <4>2. Faithful(r) => Faithful(r)'
        BY <3>1 DEF Faithful, NewParent
      <4>3. Arriving(r)' /\ Moving(r)' /\ Descending(r)'
        BY <3>1, <3>4, <4>1 DEF Quiet, Arriving, Moving, Descending
      <4> QED BY <3>1, <3>2, <3>4, <4>1, <4>2, <4>3 DEF Quiet, Deleting, Copying
    <3> QED BY <1>3, <3>1, <3>2, <3>3, <3>4 DEF IInv, Peace, Homes
  <2> QED BY <2>1, <2>2, <2>3 DEF Next
<1> QED BY <1>2, <1>3

(* Whatever requests meet, the root stays the root; and if they work on     *)
(* different parts of the tree, every folder hangs below it and every file  *)
(* lies in a folder, after every database statement of Move, CopyFolderTo,  *)
(* Delete, CreateDirectory and the import, failed requests included.        *)
THEOREM RootedAlways == Spec => []Rooted
<1>1. IInv => Rooted
  <2> SUFFICES ASSUME IInv PROVE Rooted
    OBVIOUS
  <2>1. RootStays
    BY DEF IInv, Shape
  <2>2. calm => Live \subseteq Subtree({Root}) /\ \A f \in LiveFiles : home[f] \in Live
    <3> SUFFICES ASSUME calm PROVE Live \subseteq Subtree({Root}) /\ \A f \in LiveFiles : home[f] \in Live
      OBVIOUS
    <3>1. Tree(parent) /\ Homes /\ parent[Root] = Top
      BY CalmTree DEF IInv
    <3>2. Live \subseteq Subtree({Root})
      BY <3>1, RootedTree
    <3> QED BY <3>1, <3>2, SubtreeBelow DEF Homes, LiveFiles
  <2> QED BY <2>1, <2>2 DEF RootStays, Rooted
<1> QED BY <1>1, PeaceInit, PeaceStep, PTL DEF Spec

(* When CopyFolderTo has inserted its folders, each copy lies in the copy   *)
(* of what the original lies in, and the first in the destination.          *)
THEOREM CopiesAreFaithful == Spec => []CopyFaithful
<1>1. IInv => CopyFaithful
  <2> SUFFICES ASSUME IInv, calm, NEW r \in Request, req[r].op = "copy", req[r].pc = "insert",
                      NEW d \in IdsOf(req[r].listed)
               PROVE  parent[req[r].copies[d]] = IF d = req[r].src THEN req[r].dst
                                                 ELSE req[r].copies[parent[d]]
    BY DEF CopyFaithful
  <2>1. Faithful(r) /\ Uncopied(r) = {}
    BY DEF IInv, Peace, Quiet, Copying, Active
  <2>2. PICK x \in req[r].listed : d = x[1]
    BY DEF IdsOf
  <2>3. req[r].copies[d] # Absent
    BY <2>1 DEF Uncopied
  <2>4. /\ parent[d] = x[2] /\ NewParent(r, d, x[2]) # Absent
        /\ parent[req[r].copies[d]] = NewParent(r, d, x[2])
    BY <2>1, <2>2, <2>3 DEF Faithful
  <2> QED BY <2>4 DEF NewParent
<1> QED BY <1>1, PeaceInit, PeaceStep, PTL DEF Spec
=============================================================================

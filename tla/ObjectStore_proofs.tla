-------------------------- MODULE ObjectStore_proofs --------------------------
(***************************************************************************)
(* Proofs about ObjectStore for every number of files, names and handlers, *)
(* every size and quota, and every choice of what fails.                   *)
(*                                                                         *)
(* Neither Charged nor FilesIntact is inductive.  Both rest on Alone: what *)
(* a handler has read of its rows stays true while it works on them.  The  *)
(* counter is then followed through copies that are not charged yet, and   *)
(* each physical file through the handler that may change it: nobody else  *)
(* knows the name of a new one (Fresh), and no other row has an old one    *)
(* (Sole).                                                                 *)
(***************************************************************************)
EXTENDS ObjectStore, FiniteSetTheorems, TLAPS

(* Nobody else works on the rows of a handler, which it knows as they are.  *)
Holds(r) ==
  /\ \A f \in reqs[r].target :
       f \in Live /\ reqs[r].seen[f].state = "live" /\ rows[f].size = reqs[r].seen[f].size
  /\ reqs[r].todo \subseteq reqs[r].target

Alone ==
  /\ \A r, q \in Req : r # q => reqs[r].target \cap reqs[q].target = {}
  /\ \A r \in Req : Holds(r)
  /\ \A f \in FileId \ Live : rows[f] \in {Blank, Gone}

(* The rows a handler has copied without charging the copies.               *)
Copied(r) == IF reqs[r].pc = "copy" THEN reqs[r].target \ reqs[r].todo ELSE {}

Pending == [f \in FileId |-> IF \E r \in Req : f \in Copied(r) THEN rows[f].size ELSE 0]
Owed    == Total(FileId, Pending)

Balance ==
  /\ storage + Owed <= Used
  /\ Calm => storage + Owed = Used

(* Handlers that make a physical file, and those that change that of their  *)
(* row in place.                                                            *)
MakesNew(r) ==
  \/ reqs[r].pc \in {"probe", "write"} /\ (reqs[r].target = {} \/ reqs[r].link = "fresh")
  \/ reqs[r].pc \in {"check", "insert", "discardAgain", "relink"}
ChangesOwn(r) ==
  reqs[r].pc \in {"probe", "write", "resize"} /\ reqs[r].target # {} /\ reqs[r].link = "own"

(* Only r knows the name s; only the row f has its physical file.           *)
Fresh(s, r) ==
  /\ s \in Key
  /\ \A f \in FileId : rows[f].src # s
  /\ \A q \in Req : (q # r => reqs[q].src # s) /\ \A f \in FileId : reqs[q].seen[f].src # s

Sole(f) == \A g \in Live \ {f} : rows[g].src # rows[f].src

Stage(r) ==
  /\ reqs[r].pc \notin {"discard", "relinkAgain", "clean", "clear"}
  /\ reqs[r].pc = "links" => reqs[r].link = "own"
  /\ MakesNew(r) => Fresh(reqs[r].src, r)
  /\ ChangesOwn(r) => \A f \in reqs[r].target : rows[f].src = reqs[r].src /\ Sole(f)
  /\ reqs[r].pc \in {"check", "insert", "relink"} => disk[reqs[r].src] = reqs[r].size
  /\ reqs[r].pc = "resize" =>
       \A f \in reqs[r].target : rows[f].src = reqs[r].src /\ disk[reqs[r].src] = reqs[r].size
  /\ reqs[r].pc = "unlink" => \A f \in reqs[r].todo : Sole(f)
  /\ reqs[r].pc \notin {"resize", "commit"} =>
       \A f \in reqs[r].target : reqs[r].seen[f].src = rows[f].src

(* A row shows what was stored, but at the end of its overwriting or        *)
(* deletion.                                                                *)
Whole(f) ==
  /\ rows[f].src \in Key
  /\ \/ disk[rows[f].src] = rows[f].size
     \/ \E r \in Req : f \in reqs[r].target /\ reqs[r].pc \in {"resize", "commit"}

Files == (\A r \in Req : Stage(r)) /\ \A f \in Live : Whole(f)
Store == Calm => Files


Sizes(S) == [S -> 0..MaxSize]

LEMMA BlocksFinite ==
  ASSUME NEW S, IsFiniteSet(S), NEW size
  PROVE  IsFiniteSet(Blocks(S, size)) /\ Total(S, size) \in Nat
<1>1. IsFiniteSet(1..MaxSize)
  BY SizesNat, FS_Interval
<1>2. IsFiniteSet(S \X (1..MaxSize))
  BY <1>1, FS_Product
<1>3. IsFiniteSet(Blocks(S, size))
  BY <1>2, FS_Subset DEF Blocks
<1> QED BY <1>3, FS_CardinalityType DEF Total

LEMMA DisjointUnion ==
  ASSUME NEW A, IsFiniteSet(A), NEW B, IsFiniteSet(B), A \cap B = {}
  PROVE  Cardinality(A \cup B) = Cardinality(A) + Cardinality(B)
<1>1. Cardinality(A) \in Nat /\ Cardinality(B) \in Nat
  BY FS_CardinalityType
<1>2. Cardinality(A \cap B) = 0
  BY FS_EmptySet, Zenon
<1>3. Cardinality(A \cup B) = Cardinality(A) + Cardinality(B) - Cardinality(A \cap B)
  BY FS_Union, Zenon
<1>4. Cardinality(A \cup B) = Cardinality(A) + Cardinality(B) - 0
  BY <1>2, <1>3, Zenon
<1> QED BY <1>1, <1>4

(* A sum is the sum over a part and the sum over the rest.                  *)
LEMMA TotalSplit ==
  ASSUME NEW S, IsFiniteSet(S), NEW size \in Sizes(S), NEW T
  PROVE  Total(S, size) = Total(S, [x \in S |-> IF x \in T THEN size[x] ELSE 0])
                        + Total(S, [x \in S |-> IF x \in T THEN 0 ELSE size[x]])
<1> DEFINE in  == [x \in S |-> IF x \in T THEN size[x] ELSE 0]
           out == [x \in S |-> IF x \in T THEN 0 ELSE size[x]]
<1>1. Blocks(S, size) = Blocks(S, in) \cup Blocks(S, out)
  BY SizesNat DEF Blocks, Sizes
<1>2. Blocks(S, in) \cap Blocks(S, out) = {}
  BY SizesNat DEF Blocks, Sizes
<1>3. IsFiniteSet(Blocks(S, in)) /\ IsFiniteSet(Blocks(S, out))
  BY BlocksFinite
<1>4. Cardinality(Blocks(S, size)) = Cardinality(Blocks(S, in)) + Cardinality(Blocks(S, out))
  <2> DEFINE A == Blocks(S, in)
             B == Blocks(S, out)
  <2>1. A \cap B = {} /\ IsFiniteSet(A) /\ IsFiniteSet(B) /\ Blocks(S, size) = A \cup B
    BY <1>1, <1>2, <1>3
  <2> HIDE DEF A, B
  <2>2. Cardinality(Blocks(S, size)) = Cardinality(A) + Cardinality(B)
    BY <2>1, DisjointUnion
  <2> QED BY <2>2 DEF A, B
<1> QED BY <1>4 DEF Total

(* The sum of a single size.                                                *)
LEMMA TotalSingle ==
  ASSUME NEW S, NEW x \in S, NEW n \in 0..MaxSize
  PROVE  Total(S, [y \in S |-> IF y \in {x} THEN n ELSE 0]) = n
<1>1. Blocks(S, [y \in S |-> IF y \in {x} THEN n ELSE 0]) = {x} \X (1..n)
  BY SizesNat DEF Blocks
<1>2. IsFiniteSet(1..n) /\ Cardinality(1..n) = n
  BY SizesNat, FS_Interval
<1>3. IsFiniteSet({x}) /\ Cardinality({x}) = 1
  BY FS_Singleton
<1>4. Cardinality({x} \X (1..n)) = 1 * n
  BY <1>2, <1>3, FS_Product, ZenonT(90)
<1>5. Cardinality({x} \X (1..n)) = n
  BY <1>4, SizesNat
<1> QED BY <1>1, <1>5 DEF Total

(* Changing one size changes the sum by as much.                            *)
LEMMA TotalUpdate ==
  ASSUME NEW S, IsFiniteSet(S), NEW f \in Sizes(S), NEW g \in Sizes(S),
         NEW x \in S, \A y \in S \ {x} : g[y] = f[y]
  PROVE  Total(S, g) = Total(S, f) - f[x] + g[x]
<1> DEFINE rest == [y \in S |-> IF y \in {x} THEN 0 ELSE f[y]]
<1>1. rest = [y \in S |-> IF y \in {x} THEN 0 ELSE g[y]]
  OBVIOUS
<1>2. /\ [y \in S |-> IF y \in {x} THEN f[y] ELSE 0] = [y \in S |-> IF y \in {x} THEN f[x] ELSE 0]
      /\ [y \in S |-> IF y \in {x} THEN g[y] ELSE 0] = [y \in S |-> IF y \in {x} THEN g[x] ELSE 0]
  OBVIOUS
<1>3. f[x] \in 0..MaxSize /\ g[x] \in 0..MaxSize
  BY DEF Sizes
<1>4. Total(S, f) = Total(S, [y \in S |-> IF y \in {x} THEN f[y] ELSE 0]) + Total(S, rest)
  BY TotalSplit, ZenonT(90)
<1>5. Total(S, g) = Total(S, [y \in S |-> IF y \in {x} THEN g[y] ELSE 0]) + Total(S, rest)
  <2>1. Total(S, g) = Total(S, [y \in S |-> IF y \in {x} THEN g[y] ELSE 0])
                    + Total(S, [y \in S |-> IF y \in {x} THEN 0 ELSE g[y]])
    BY TotalSplit, ZenonT(90)
  <2> QED BY <1>1, <2>1, Zenon
<1>6. Total(S, rest) \in Nat
  BY BlocksFinite
<1> HIDE DEF rest
<1>7. Total(S, f) = f[x] + Total(S, rest)
  <2>1. Total(S, [y \in S |-> IF y \in {x} THEN f[x] ELSE 0]) = f[x]
    BY <1>3, TotalSingle
  <2> QED BY <1>2, <1>4, <2>1, Zenon
<1>8. Total(S, g) = g[x] + Total(S, rest)
  <2>1. Total(S, [y \in S |-> IF y \in {x} THEN g[x] ELSE 0]) = g[x]
    BY <1>3, TotalSingle
  <2> QED BY <1>2, <1>5, <2>1, Zenon
<1> DEFINE sumf == Total(S, f)
           sumg == Total(S, g)
           sumr == Total(S, rest)
           oldx == f[x]
           newx == g[x]
<1>9. sumf = oldx + sumr /\ sumg = newx + sumr
  BY <1>7, <1>8
<1>10. oldx \in Nat /\ newx \in Nat /\ sumr \in Nat
  BY <1>3, <1>6, SizesNat
<1> HIDE DEF sumf, sumg, sumr, oldx, newx
<1>11. sumg = sumf - oldx + newx
  BY <1>9, <1>10
<1> QED BY <1>11 DEF sumf, sumg, oldx, newx

(* Larger sizes have a larger sum.                                          *)
LEMMA TotalMonotone ==
  ASSUME NEW S, IsFiniteSet(S), NEW f \in Sizes(S), NEW g \in Sizes(S),
         \A x \in S : f[x] <= g[x]
  PROVE  Total(S, f) <= Total(S, g)
<1>1. Blocks(S, f) \subseteq Blocks(S, g)
  BY SizesNat DEF Blocks, Sizes
<1> QED BY <1>1, BlocksFinite, FS_Subset DEF Total

-----------------------------------------------------------------------------
(* Types.                                                                   *)

Types ==
  /\ rows \in [FileId -> Row]
  /\ storage \in Nat
  /\ disk \in [Source -> 0..MaxSize \cup {NoFile}]
  /\ reqs \in [Req -> Handler]

LEMMA InPc ==
  /\ "idle" \in Pc /\ "links" \in Pc /\ "probe" \in Pc /\ "write" \in Pc
  /\ "check" \in Pc /\ "insert" \in Pc /\ "discard" \in Pc /\ "discardAgain" \in Pc
  /\ "relink" \in Pc /\ "resize" \in Pc /\ "relinkAgain" \in Pc /\ "clean" \in Pc
  /\ "clear" \in Pc /\ "copy" \in Pc /\ "filter" \in Pc /\ "unlink" \in Pc
  /\ "commit" \in Pc
  BY DEF Pc

LEMMA BlankType == Blank \in Row /\ Gone \in Row
  BY SizesNat DEF Blank, Gone, Row

Unseen == [f \in FileId |-> Blank]

LEMMA FetchedType ==
  ASSUME Types, NEW ids
  PROVE  Fetched(ids) \in [FileId -> Row]
  BY BlankType DEF Fetched, Types

LEMMA SavePathType ==
  ASSUME NEW p \in Path
  PROVE  GenerateSavePath(p) \subseteq Source
  BY DEF GenerateSavePath, Source

LEMMA IdleType ==
  /\ Idle \in Handler
  /\ Idle.pc = "idle" /\ Idle.target = {} /\ Idle.todo = {} /\ Idle.seen = Unseen
  /\ Idle.src = NoPath /\ Idle.size = 0 /\ Idle.link = "own"
<1>1. Unseen \in [FileId -> Row]
  BY BlankType DEF Unseen
<1>2. Idle = [pc |-> "idle", target |-> {}, todo |-> {}, seen |-> Unseen, path |-> NoPath,
              src |-> NoPath, size |-> 0, mode |-> "create", link |-> "own"]
  BY Zenon DEF Idle, Unseen
<1>3. QED
  BY <1>1, <1>2, InPc, SizesNat DEF Handler

(* The fields of a handler.                                                 *)
LEMMA Fields ==
  ASSUME NEW h \in Handler
  PROVE  /\ h.pc \in Pc /\ h.target \in SUBSET FileId /\ h.todo \in SUBSET FileId
         /\ h.seen \in [FileId -> Row] /\ h.path \in Path \cup {NoPath}
         /\ h.src \in Source \cup {NoPath} /\ h.size \in 0..MaxSize
         /\ h.mode \in {"create", "overwrite", "force"} /\ h.link \in {"own", "fresh"}
  BY DEF Handler

Others(r) == \A q \in Req \ {r} : reqs'[q] = reqs[q]

LEMMA Becomes ==
  ASSUME Types, NEW r \in Req, NEW h \in Handler, reqs' = [reqs EXCEPT ![r] = h]
  PROVE  /\ reqs' \in [Req -> Handler]
         /\ reqs'[r] = h
         /\ Others(r)
  BY DEF Types, Others

(* A handler that goes on, with what it knows.                              *)
Kept(r) ==
  /\ reqs'[r].target = reqs[r].target /\ reqs'[r].todo = reqs[r].todo
  /\ reqs'[r].seen = reqs[r].seen /\ reqs'[r].src = reqs[r].src
  /\ reqs'[r].size = reqs[r].size /\ reqs'[r].mode = reqs[r].mode
  /\ reqs'[r].link = reqs[r].link

LEMMA Goes ==
  ASSUME Types, NEW r \in Req, NEW pc \in Pc, Goto(r, pc)
  PROVE  /\ reqs' \in [Req -> Handler]
         /\ reqs'[r].pc = pc /\ Kept(r) /\ Others(r)
<1> DEFINE h == [reqs[r] EXCEPT !.pc = pc]
<1>1. reqs' = [reqs EXCEPT ![r] = h]
  BY Zenon DEF Goto
<1>2. reqs[r] \in Handler
  BY DEF Types
<1>3. /\ h \in Handler /\ h.pc = pc
      /\ h.target = reqs[r].target /\ h.todo = reqs[r].todo
      /\ h.seen = reqs[r].seen /\ h.src = reqs[r].src
      /\ h.size = reqs[r].size /\ h.mode = reqs[r].mode
      /\ h.link = reqs[r].link
  BY <1>2 DEF Handler
<1> HIDE DEF h
<1>4. QED
  BY <1>1, <1>3, Becomes DEF Kept

Ended(r) == reqs'[r] = Idle

LEMMA Finishes ==
  ASSUME Types, NEW r \in Req, Finish(r)
  PROVE  /\ reqs' \in [Req -> Handler]
         /\ Ended(r) /\ Others(r)
  BY IdleType, Becomes DEF Finish, Ended

-----------------------------------------------------------------------------
(* What each step does to the tables and to its handler.                    *)

Quiet == UNCHANGED <<rows, storage, disk>>

LEMMA UploadNewDoes ==
  ASSUME Types, NEW r \in Req, NEW p \in Path, NEW n \in 0..MaxSize, UploadNew(r, p, n)
  PROVE  /\ Types' /\ Others(r) /\ Quiet
         /\ reqs'[r].pc = "probe" /\ reqs'[r].target = {} /\ reqs'[r].todo = {}
         /\ reqs'[r].seen = Unseen /\ reqs'[r].src \in GenerateSavePath(p)
<1>1. PICK s \in GenerateSavePath(p) :
        reqs' = [reqs EXCEPT ![r] = [Idle EXCEPT !.pc = "probe", !.path = p,
                                                 !.src = s, !.size = n]]
  BY Zenon DEF UploadNew
<1> DEFINE h == [Idle EXCEPT !.pc = "probe", !.path = p, !.src = s, !.size = n]
<1>2. s \in Source /\ "probe" \in Pc
  BY SavePathType, InPc
<1>3. /\ h \in Handler
      /\ h.pc = "probe" /\ h.target = {} /\ h.todo = {} /\ h.seen = Unseen /\ h.src = s
  BY <1>2, IdleType DEF Handler
<1> HIDE DEF h
<1>4. QED
  BY <1>1, <1>3, Becomes DEF UploadNew, Types, Quiet, h

(* A handler that starts takes rows nobody works on, as they are.           *)
Takes(r, target) ==
  /\ reqs'[r].target = target /\ reqs'[r].seen = Fetched(target)
  /\ target \subseteq Live /\ Free(target)

LEMMA OverwriteFileDoes ==
  ASSUME Types, NEW r \in Req, NEW f \in FileId, NEW n \in 0..MaxSize,
         NEW mode \in {"create", "overwrite"}, OverwriteFile(r, f, n, mode)
  PROVE  /\ Types' /\ Others(r) /\ Quiet /\ reqs[r].pc = "idle"
         /\ Takes(r, {f})
         /\ reqs'[r].pc = "links" /\ reqs'[r].todo = {} /\ reqs'[r].src = NoPath
         /\ reqs'[r].link = "own"
<1> DEFINE seen == Fetched({f})
           h    == [Idle EXCEPT !.pc = "links", !.target = {f}, !.seen = seen,
                           !.size = n, !.mode = mode]
<1>1. reqs' = [reqs EXCEPT ![r] = h]
  BY Zenon DEF OverwriteFile
<1>2. seen \in [FileId -> Row]
  BY FetchedType
<1> HIDE DEF seen
<1>3. mode \in {"create", "overwrite", "force"} /\ "links" \in Pc /\ {f} \in SUBSET FileId
  BY InPc
<1>4. /\ h \in Handler
      /\ h.pc = "links" /\ h.target = {f} /\ h.todo = {} /\ h.seen = seen /\ h.src = NoPath
      /\ h.link = "own"
  BY <1>2, <1>3, IdleType DEF Handler
<1> HIDE DEF h
<1>5. QED
  BY <1>1, <1>4, Becomes DEF OverwriteFile, Types, Quiet, Takes, seen

LEMMA CopyDoes ==
  ASSUME Types, NEW r \in Req, NEW ids \in SUBSET FileId, Copy(r, ids)
  PROVE  /\ Types' /\ Others(r) /\ Quiet
         /\ ids \subseteq Live /\ Free(ids)
         /\ reqs'[r].pc = "copy" /\ reqs'[r].target = ids /\ reqs'[r].todo = ids
         /\ reqs'[r].seen = Fetched(ids) /\ reqs'[r].src = NoPath
<1> DEFINE seen == Fetched(ids)
           h    == [Idle EXCEPT !.pc = "copy", !.target = ids, !.todo = ids, !.seen = seen]
<1>1. reqs' = [reqs EXCEPT ![r] = h]
  BY Zenon DEF Copy
<1>2. seen \in [FileId -> Row]
  BY FetchedType
<1> HIDE DEF seen
<1>3. "copy" \in Pc
  BY InPc
<1>4. /\ h \in Handler
      /\ h.pc = "copy" /\ h.target = ids /\ h.todo = ids /\ h.seen = seen /\ h.src = NoPath
  BY <1>2, <1>3, IdleType DEF Handler
<1> HIDE DEF h
<1>5. QED
  BY <1>1, <1>4, Becomes DEF Copy, Types, Quiet, seen

LEMMA DeleteDoes ==
  ASSUME Types, NEW r \in Req, NEW ids \in SUBSET FileId,
         NEW mode \in {"create", "force"}, Delete(r, ids, mode)
  PROVE  /\ Types' /\ Others(r) /\ Quiet
         /\ ids \subseteq Live /\ Free(ids)
         /\ reqs'[r].pc = "filter" /\ reqs'[r].target = ids /\ reqs'[r].todo = {}
         /\ reqs'[r].seen = Fetched(ids) /\ reqs'[r].src = NoPath
<1> DEFINE seen == Fetched(ids)
           h    == [Idle EXCEPT !.pc = "filter", !.target = ids, !.seen = seen, !.mode = mode]
<1>1. reqs' = [reqs EXCEPT ![r] = h]
  BY Zenon DEF Delete
<1>2. seen \in [FileId -> Row]
  BY FetchedType
<1> HIDE DEF seen
<1>3. mode \in {"create", "overwrite", "force"} /\ "filter" \in Pc
  BY InPc
<1>4. /\ h \in Handler
      /\ h.pc = "filter" /\ h.target = ids /\ h.todo = {} /\ h.seen = seen /\ h.src = NoPath
  BY <1>2, <1>3, IdleType DEF Handler
<1> HIDE DEF h
<1>5. QED
  BY <1>1, <1>4, Becomes DEF Delete, Types, Quiet, seen

LEMMA ArrivalDoes ==
  ASSUME Types, NEW r \in Req, Arrival(r)
  PROVE  /\ Types' /\ Others(r) /\ Quiet
         /\ reqs[r].pc = "idle"
         /\ Takes(r, reqs'[r].target)
         /\ \/ /\ reqs'[r].pc = "probe" /\ reqs'[r].target = {} /\ reqs'[r].todo = {}
               /\ \E p \in Path : reqs'[r].src \in GenerateSavePath(p)
            \/ /\ reqs'[r].pc \in {"links", "filter"} /\ reqs'[r].todo = {} /\ reqs'[r].src = NoPath
               /\ reqs'[r].pc = "links" => reqs'[r].link = "own"
            \/ /\ reqs'[r].pc = "copy" /\ reqs'[r].todo = reqs'[r].target
               /\ reqs'[r].src = NoPath
<1>1. ASSUME NEW p \in Path, NEW n \in 0..MaxSize, UploadNew(r, p, n)
      PROVE  /\ Types' /\ Others(r) /\ Quiet /\ reqs[r].pc = "idle"
             /\ Takes(r, {})
             /\ reqs'[r].pc = "probe" /\ reqs'[r].target = {} /\ reqs'[r].todo = {}
             /\ reqs'[r].src \in GenerateSavePath(p)
  <2>1. Fetched({}) = Unseen
    BY DEF Fetched, Unseen
  <2>2. Free({}) /\ reqs[r].pc = "idle"
    BY <1>1 DEF Free, UploadNew
  <2>3. /\ Types' /\ Others(r) /\ Quiet
        /\ reqs'[r].pc = "probe" /\ reqs'[r].target = {} /\ reqs'[r].todo = {}
        /\ reqs'[r].seen = Unseen /\ reqs'[r].src \in GenerateSavePath(p)
    BY <1>1, UploadNewDoes
  <2>4. QED
    BY <2>1, <2>2, <2>3 DEF Takes
<1>2. ASSUME NEW ids \in SUBSET FileId, Copy(r, ids)
      PROVE  /\ Types' /\ Others(r) /\ Quiet /\ reqs[r].pc = "idle"
             /\ Takes(r, ids)
             /\ reqs'[r].pc = "copy" /\ reqs'[r].todo = reqs'[r].target /\ reqs'[r].src = NoPath
  BY <1>2, CopyDoes DEF Takes, Copy
<1>3. ASSUME NEW ids \in SUBSET FileId, NEW mode \in {"create", "force"}, Delete(r, ids, mode)
      PROVE  /\ Types' /\ Others(r) /\ Quiet /\ reqs[r].pc = "idle"
             /\ Takes(r, ids)
             /\ reqs'[r].pc = "filter" /\ reqs'[r].todo = {} /\ reqs'[r].src = NoPath
  BY <1>3, DeleteDoes DEF Takes, Delete
<1>4. /\ Types' /\ Others(r) /\ Quiet /\ reqs[r].pc = "idle"
      /\ \E target \in SUBSET FileId : Takes(r, target)
      /\ \/ /\ reqs'[r].pc = "probe" /\ reqs'[r].target = {} /\ reqs'[r].todo = {}
            /\ \E p \in Path : reqs'[r].src \in GenerateSavePath(p)
         \/ /\ reqs'[r].pc = "links" /\ reqs'[r].todo = {} /\ reqs'[r].src = NoPath
            /\ reqs'[r].link = "own"
         \/ reqs'[r].pc = "filter" /\ reqs'[r].todo = {} /\ reqs'[r].src = NoPath
         \/ /\ reqs'[r].pc = "copy" /\ reqs'[r].todo = reqs'[r].target
            /\ reqs'[r].src = NoPath
  <2>1. {} \in SUBSET FileId /\ \A f \in FileId : {f} \in SUBSET FileId
    OBVIOUS
  <2>2. CASE \E p \in Path, n \in 0..MaxSize : UploadNew(r, p, n)
    BY <2>1, <2>2, <1>1, Zenon
  <2>3. CASE \E f \in FileId, n \in 0..MaxSize, mode \in {"create", "overwrite"} :
               OverwriteFile(r, f, n, mode)
    BY <2>1, <2>3, OverwriteFileDoes, Zenon
  <2>4. CASE \E ids \in SUBSET FileId : Copy(r, ids)
    BY <2>4, <1>2, Zenon
  <2>5. CASE \E ids \in SUBSET FileId, mode \in {"create", "force"} : Delete(r, ids, mode)
    BY <2>5, <1>3, Zenon
  <2>6. QED
    BY <1>1, <2>2, <2>3, <2>4, <2>5, Zenon DEF Arrival
<1>5. Takes(r, reqs'[r].target)
  BY <1>4 DEF Takes
<1>6. QED
  BY <1>4, <1>5

LEMMA ProbeFileDoes ==
  ASSUME Types, NEW r \in Req, ProbeFile(r)
  PROVE  /\ Types' /\ Others(r) /\ Quiet
         /\ reqs[r].pc = "probe"
         /\ \/ Ended(r)
            \/ reqs'[r].pc = "write" /\ Kept(r)
<1>0. reqs[r].pc = "probe" /\ Quiet
  BY DEF ProbeFile, Quiet
<1>1. CASE Finish(r)
  BY <1>0, <1>1, Finishes DEF Types, Quiet
<1>2. CASE Goto(r, "write")
  BY <1>0, <1>2, InPc, Goes DEF Types, Quiet
<1>3. QED
  BY <1>1, <1>2 DEF ProbeFile

LEMMA WriteFileDoes ==
  ASSUME Types, NEW r \in Req, WriteFile(r)
  PROVE  /\ Types' /\ Others(r) /\ UNCHANGED <<rows, storage>>
         /\ reqs[r].pc = "write"
         /\ \/ /\ disk' = [disk EXCEPT ![reqs[r].src] = reqs[r].size]
               /\ reqs'[r].pc = AfterPut(r) /\ Kept(r)
            \/ fault = "write" /\ Ended(r)
<1>1. reqs[r].size \in 0..MaxSize
  BY Fields DEF Types
<1>2. CASE /\ disk' = [disk EXCEPT ![reqs[r].src] = reqs[r].size]
           /\ Goto(r, AfterPut(r))
  <2>1. AfterPut(r) \in Pc
    BY InPc DEF AfterPut
  <2>2. QED
    BY <1>1, <1>2, <2>1, Goes DEF WriteFile, Types
<1>3. CASE /\ fault = "write"
           /\ \E n \in 0..(reqs[r].size - 1) : disk' = [disk EXCEPT ![reqs[r].src] = n]
           /\ Finish(r)
  <2>1. PICK n \in 0..(reqs[r].size - 1) : disk' = [disk EXCEPT ![reqs[r].src] = n]
    BY <1>3
  <2>2. n \in 0..MaxSize
    BY <1>1, SizesNat
  <2>3. QED
    BY <1>3, <2>1, <2>2, Finishes DEF WriteFile, Types
<1>4. QED
  BY <1>2, <1>3 DEF WriteFile

LEMMA CheckNameDoes ==
  ASSUME Types, NEW r \in Req, CheckName(r)
  PROVE  /\ Types' /\ Others(r) /\ Quiet
         /\ reqs[r].pc = "check"
         /\ reqs'[r].pc \in {"discardAgain", "insert"} /\ Kept(r)
<1>1. Goto(r, "discardAgain") \/ Goto(r, "insert")
  BY DEF CheckName
<1>2. QED
  BY <1>1, InPc, Goes DEF CheckName, Types, Quiet

LEMMA InsertFileDoes ==
  ASSUME Types, NEW r \in Req, NEW f \in FileId, InsertFile(r, f)
  PROVE  /\ Types' /\ Others(r) /\ Ended(r) /\ UNCHANGED disk
         /\ reqs[r].pc = "insert"
         /\ rows[f].state = "unborn"
         /\ rows'[f].state = "live" /\ rows'[f].src = reqs[r].src
         /\ rows'[f].size = reqs[r].size
         /\ \A g \in FileId \ {f} : rows'[g] = rows[g]
         /\ storage' = storage + reqs[r].size
<1> DEFINE row == [state |-> "live", path |-> reqs[r].path,
                   src |-> reqs[r].src, size |-> reqs[r].size]
<1>1. row \in Row
  BY Fields DEF Types, Row
<1>2. row.state = "live" /\ row.src = reqs[r].src /\ row.size = reqs[r].size
  OBVIOUS
<1>3. rows' = [rows EXCEPT ![f] = row]
  BY Zenon DEF InsertFile
<1> HIDE DEF row
<1>4. reqs[r].size \in Nat
  BY Fields, SizesNat DEF Types
<1>5. QED
  BY <1>1, <1>2, <1>3, <1>4, Finishes DEF InsertFile, Types

LEMMA AddFileFailsDoes ==
  ASSUME Types, NEW r \in Req, AddFileFails(r)
  PROVE  /\ Types' /\ Others(r) /\ Quiet
         /\ reqs[r].pc = "insert" /\ fault = "insert"
         /\ reqs'[r].pc = "discard" /\ Kept(r)
  BY InPc, Goes DEF AddFileFails, Types, Quiet

LEMMA DiscardFileDoes ==
  ASSUME Types, NEW r \in Req, DiscardFile(r)
  PROVE  /\ Types' /\ Others(r) /\ UNCHANGED <<rows, storage>>
         /\ disk' = [disk EXCEPT ![reqs[r].src] = NoFile] \/ UNCHANGED disk
         /\ \/ reqs[r].pc = "discard" /\ reqs'[r].pc = "discardAgain" /\ Kept(r)
            \/ reqs[r].pc = "discardAgain" /\ Ended(r)
<1>1. \/ reqs[r].pc = "discard" /\ Goto(r, "discardAgain")
      \/ reqs[r].pc = "discardAgain" /\ Finish(r)
  BY DEF DiscardFile
<1>2. QED
  BY <1>1, InPc, Goes, Finishes DEF DiscardFile, Types

(* Every name that GenerateSavePath may give.                               *)
NewSource == UNION {GenerateSavePath(p) : p \in Path \cup {NoPath}}

LEMMA FindLinksDoes ==
  ASSUME Types, NEW r \in Req, NEW f \in FileId, FindLinks(r, f)
  PROVE  /\ reqs' \in [Req -> Handler] /\ Others(r) /\ Quiet
         /\ reqs[r].pc = "links" /\ reqs[r].target = {f}
         /\ reqs'[r].pc = "probe" /\ reqs'[r].target = {f}
         /\ reqs'[r].todo = reqs[r].todo /\ reqs'[r].seen = reqs[r].seen
         /\ \/ reqs'[r].link = "fresh" /\ reqs'[r].src \in NewSource
            \/ /\ ~HasSoftLinks(r, f) \/ fault = "links"
               /\ reqs'[r].src = reqs[r].seen[f].src
               /\ reqs'[r].link = reqs[r].link
<1>0. /\ reqs[r] \in Handler /\ "probe" \in Pc /\ reqs[r].seen \in [FileId -> Row]
      /\ reqs[r].seen[f].src \in Source \cup {NoPath}
      /\ reqs[r].seen[f].path \in Path \cup {NoPath}
  BY InPc, Fields DEF Types, Row
<1>1. CASE \E p \in IF reqs[r].mode = "create" THEN Path ELSE {reqs[r].seen[f].path} :
             \E s \in GenerateSavePath(p) :
               reqs' = [reqs EXCEPT ![r].pc = "probe", ![r].src = s, ![r].link = "fresh"]
  <2>0. PICK p \in Path \cup {NoPath} : \E s \in GenerateSavePath(p) :
          reqs' = [reqs EXCEPT ![r].pc = "probe", ![r].src = s, ![r].link = "fresh"]
    BY <1>0, <1>1
  <2>1. PICK s \in GenerateSavePath(p) :
          reqs' = [reqs EXCEPT ![r].pc = "probe", ![r].src = s, ![r].link = "fresh"]
    BY <2>0
  <2> DEFINE h == [reqs[r] EXCEPT !.pc = "probe", !.src = s, !.link = "fresh"]
  <2>2. reqs' = [reqs EXCEPT ![r] = h]
    BY <2>1, Zenon
  <2>3. s \in Source \cup {NoPath} /\ s \in NewSource
    BY <2>1 DEF GenerateSavePath, NewSource, Source
  <2>4. /\ h \in Handler /\ h.pc = "probe" /\ h.target = reqs[r].target
        /\ h.todo = reqs[r].todo /\ h.seen = reqs[r].seen /\ h.src = s /\ h.link = "fresh"
    BY <1>0, <2>3 DEF Handler
  <2> HIDE DEF h
  <2>5. QED
    BY <2>2, <2>3, <2>4, Becomes DEF FindLinks, Quiet
<1>2. CASE /\ ~HasSoftLinks(r, f) \/ fault = "links"
           /\ reqs' = [reqs EXCEPT ![r].pc = "probe", ![r].src = reqs[r].seen[f].src,
                                   ![r].mode = "overwrite"]
  <2> DEFINE s == reqs[r].seen[f].src
             h == [reqs[r] EXCEPT !.pc = "probe", !.src = s, !.mode = "overwrite"]
  <2>1. reqs' = [reqs EXCEPT ![r] = h]
    BY <1>2, Zenon
  <2>2. /\ h \in Handler /\ h.pc = "probe" /\ h.target = reqs[r].target
        /\ h.todo = reqs[r].todo /\ h.seen = reqs[r].seen /\ h.src = s /\ h.link = reqs[r].link
    BY <1>0 DEF Handler
  <2> HIDE DEF h
  <2>3. QED
    BY <1>2, <2>1, <2>2, Becomes DEF FindLinks, Quiet
<1>3. QED
  BY <1>1, <1>2 DEF FindLinks

(* HookUpdateSourceName.                                                    *)
LEMMA UpdateSourceNameDoes ==
  ASSUME Types, NEW r \in Req, NEW f \in FileId, UpdateSourceName(r, f)
  PROVE  /\ rows' \in [FileId -> Row]
         /\ \A g \in FileId \ {f} : rows'[g] = rows[g]
         /\ rows'[f].size = rows[f].size /\ rows'[f].state = rows[f].state
         /\ f \in Live => rows'[f].src = reqs[r].src
         /\ f \notin Live => rows' = rows
<1> DEFINE row == [rows[f] EXCEPT !.src = reqs[r].src]
<1>1. reqs[r].src \in Source \cup {NoPath} /\ rows[f] \in Row
  BY Fields DEF Types
<1>2. row \in Row /\ row.size = rows[f].size /\ row.state = rows[f].state /\ row.src = reqs[r].src
  BY <1>1 DEF Row
<1>3. CASE f \in Live
  <2>1. rows' = [rows EXCEPT ![f] = row]
    BY <1>3 DEF UpdateSourceName
  <2> HIDE DEF row
  <2>2. QED
    BY <1>2, <1>3, <2>1 DEF Types
<1>4. QED
  BY <1>3 DEF UpdateSourceName, Types

LEMMA RelinkFileDoes ==
  ASSUME Types, NEW r \in Req, NEW f \in FileId, RelinkFile(r, f)
  PROVE  /\ Types' /\ Others(r) /\ UNCHANGED <<storage, disk>>
         /\ reqs[r].pc = "relink" /\ reqs[r].target = {f} /\ Kept(r)
         /\ \/ UpdateSourceName(r, f) /\ reqs'[r].pc = "resize"
            \/ fault = "update" /\ reqs'[r].pc = "relinkAgain" /\ UNCHANGED rows
<1>1. CASE UpdateSourceName(r, f) /\ Goto(r, "resize")
  BY <1>1, InPc, Goes, UpdateSourceNameDoes DEF RelinkFile, Types
<1>2. CASE fault = "update" /\ Goto(r, "relinkAgain") /\ UNCHANGED rows
  BY <1>2, InPc, Goes DEF RelinkFile, Types
<1>3. QED
  BY <1>1, <1>2 DEF RelinkFile

LEMMA RelinkAgainDoes ==
  ASSUME Types, NEW r \in Req, NEW f \in FileId, RelinkAgain(r, f)
  PROVE  /\ Types' /\ Others(r) /\ UNCHANGED <<storage, disk>>
         /\ reqs[r].pc = "relinkAgain" /\ reqs[r].target = {f}
         /\ \/ UpdateSourceName(r, f) /\ reqs'[r].pc = "clean" /\ Kept(r)
            \/ Ended(r) /\ UNCHANGED rows
<1>1. CASE UpdateSourceName(r, f) /\ Goto(r, "clean")
  BY <1>1, InPc, Goes, UpdateSourceNameDoes DEF RelinkAgain, Types
<1>2. CASE fault = "update" /\ Finish(r) /\ UNCHANGED rows
  BY <1>2, Finishes DEF RelinkAgain, Types
<1>3. QED
  BY <1>1, <1>2 DEF RelinkAgain

LEMMA UpdateSizeDoes ==
  ASSUME Types, NEW f \in FileId, NEW old \in 0..MaxSize, NEW new \in 0..MaxSize,
         UpdateSize(f, old, new)
  PROVE  /\ rows' \in [FileId -> Row] /\ storage' \in Nat
         /\ storage' = storage + new - old
         /\ \A g \in FileId \ {f} : rows'[g] = rows[g]
         /\ rows'[f].state = rows[f].state /\ rows'[f].src = rows[f].src
         /\ Matches(f, old) => rows'[f].size = new
         /\ ~Matches(f, old) => rows' = rows
<1> DEFINE row == [rows[f] EXCEPT !.size = new]
<1>1. rows[f] \in Row
  BY DEF Types
<1>2. row \in Row /\ row.size = new /\ row.state = rows[f].state /\ row.src = rows[f].src
  BY <1>1 DEF Row
<1>3. storage' \in Nat /\ storage' = storage + new - old
  BY SizesNat DEF UpdateSize, Types
<1>4. CASE Matches(f, old)
  <2>1. rows' = [rows EXCEPT ![f] = row]
    BY <1>4 DEF UpdateSize
  <2> HIDE DEF row
  <2>2. QED
    BY <1>2, <1>3, <1>4, <2>1 DEF Types
<1>5. QED
  BY <1>3, <1>4 DEF UpdateSize, Types

LEMMA GenericAfterUpdateDoes ==
  ASSUME Types, NEW r \in Req, NEW f \in FileId, GenericAfterUpdate(r, f)
  PROVE  /\ Types' /\ Others(r) /\ UNCHANGED disk
         /\ reqs[r].pc = "resize" /\ reqs[r].target = {f}
         /\ \/ UpdateSize(f, reqs[r].seen[f].size, reqs[r].size) /\ Ended(r)
            \/ /\ RollbackSize(reqs[r].seen[f].size, reqs[r].size)
               /\ reqs'[r].pc \in {"relinkAgain", "clean"} /\ Kept(r)
<1> DEFINE old == reqs[r].seen[f].size
           new == reqs[r].size
<1>1. old \in 0..MaxSize /\ new \in 0..MaxSize
  BY Fields DEF Types, Row
<1>2. CASE UpdateSize(f, old, new) /\ Finish(r)
  BY <1>1, <1>2, Finishes, UpdateSizeDoes DEF GenericAfterUpdate, Types
<1>3. CASE RollbackSize(old, new) /\ (Goto(r, "relinkAgain") \/ Goto(r, "clean"))
  <2>1. reqs' \in [Req -> Handler] /\ Kept(r) /\ Others(r) /\ reqs'[r].pc \in {"relinkAgain", "clean"}
    BY <1>3, InPc, Goes
  <2>2. QED
    BY <1>3, <2>1 DEF GenericAfterUpdate, Types, RollbackSize
<1>4. QED
  BY <1>2, <1>3 DEF GenericAfterUpdate

LEMMA CleanContentDoes ==
  ASSUME Types, NEW r \in Req, CleanContent(r)
  PROVE  /\ Types' /\ Others(r) /\ UNCHANGED <<rows, storage>>
         /\ reqs[r].pc = "clean" /\ reqs'[r].pc = "clear" /\ Kept(r)
<1>1. 0 \in 0..MaxSize /\ disk' = [disk EXCEPT ![reqs[r].src] = 0]
  BY SizesNat DEF CleanContent
<1>2. QED
  BY <1>1, InPc, Goes, ZenonT(90) DEF CleanContent, Types

LEMMA ClearFileSizeDoes ==
  ASSUME Types, NEW r \in Req, NEW f \in FileId, ClearFileSize(r, f)
  PROVE  /\ Types' /\ Others(r) /\ Ended(r) /\ UNCHANGED disk
         /\ reqs[r].pc = "clear" /\ reqs[r].target = {f}
         /\ \/ UpdateSize(f, reqs[r].seen[f].size, 0)
            \/ UNCHANGED <<rows, storage>>
<1> DEFINE old == reqs[r].seen[f].size
<1>1. old \in 0..MaxSize /\ 0 \in 0..MaxSize
  BY Fields, SizesNat DEF Types, Row
<1>2. CASE UpdateSize(f, old, 0)
  BY <1>1, <1>2, Finishes, UpdateSizeDoes DEF ClearFileSize, Types
<1>3. CASE RollbackSize(old, 0)
  BY <1>3, Finishes DEF ClearFileSize, Types, RollbackSize
<1>4. QED
  BY <1>2, <1>3 DEF ClearFileSize

LEMMA CopyFileDoes ==
  ASSUME Types, NEW r \in Req, NEW f \in FileId, NEW g \in FileId, NEW p \in Path,
         CopyFile(r, f, g, p)
  PROVE  /\ Types' /\ Others(r) /\ UNCHANGED <<storage, disk>>
         /\ reqs[r].pc = "copy" /\ reqs'[r].pc = "copy"
         /\ f \in reqs[r].todo /\ rows[g].state = "unborn"
         /\ reqs'[r].target = reqs[r].target /\ reqs'[r].seen = reqs[r].seen
         /\ reqs'[r].src = reqs[r].src
         /\ reqs'[r].todo = reqs[r].todo \ {f}
         /\ \A e \in FileId \ {g} : rows'[e] = rows[e]
         /\ rows'[g].state = reqs[r].seen[f].state
         /\ rows'[g].src = reqs[r].seen[f].src /\ rows'[g].size = reqs[r].seen[f].size
<1> DEFINE todo == reqs[r].todo \ {f}
           h    == [reqs[r] EXCEPT !.todo = todo]
           row  == [reqs[r].seen[f] EXCEPT !.path = p]
<1>0. reqs[r] \in Handler /\ reqs[r].seen[f] \in Row /\ todo \in SUBSET FileId
  BY Fields DEF Types
<1>1. reqs' = [reqs EXCEPT ![r] = h]
  BY Zenon DEF CopyFile
<1>2. rows' = [rows EXCEPT ![g] = row]
  BY Zenon DEF CopyFile
<1> HIDE DEF todo
<1>3. /\ h \in Handler /\ h.pc = reqs[r].pc /\ h.target = reqs[r].target
      /\ h.seen = reqs[r].seen /\ h.src = reqs[r].src /\ h.todo = todo
  BY <1>0 DEF Handler
<1>4. /\ row \in Row /\ row.state = reqs[r].seen[f].state
      /\ row.src = reqs[r].seen[f].src /\ row.size = reqs[r].seen[f].size
  BY <1>0 DEF Row
<1> HIDE DEF h, row
<1>5. /\ reqs' \in [Req -> Handler] /\ reqs'[r] = h /\ Others(r)
  BY <1>1, <1>3, Becomes
<1>6. /\ rows' \in [FileId -> Row] /\ rows'[g] = row
      /\ \A e \in FileId \ {g} : rows'[e] = rows[e]
  BY <1>2, <1>4 DEF Types
<1>7. QED
  BY <1>3, <1>4, <1>5, <1>6 DEF CopyFile, Types, todo

LEMMA CopyFailsDoes ==
  ASSUME Types, NEW r \in Req, CopyFails(r)
  PROVE  /\ Types' /\ Others(r) /\ Quiet /\ Ended(r)
         /\ reqs[r].pc = "copy" /\ fault = "insert"
  BY Finishes DEF CopyFails, Types, Quiet

LEMMA SeenTotalType ==
  ASSUME NEW r, NEW ids
  PROVE  SeenTotal(r, ids) \in Nat
  BY BlocksFinite, FileIdFinite DEF SeenTotal

LEMMA ChargeCopiesDoes ==
  ASSUME Types, NEW r \in Req, ChargeCopies(r)
  PROVE  /\ Types' /\ Others(r) /\ UNCHANGED <<rows, disk>> /\ Ended(r)
         /\ reqs[r].pc = "copy" /\ reqs[r].todo = {}
         /\ \/ storage' = storage + SeenTotal(r, reqs[r].target)
            \/ fault = "update" /\ UNCHANGED storage
<1>1. SeenTotal(r, reqs[r].target) \in Nat
  BY SeenTotalType
<1>2. storage' \in Nat
  BY <1>1 DEF ChargeCopies, Types
<1>3. QED
  BY <1>2, Finishes DEF ChargeCopies, Types

LEMMA RenameDoes ==
  ASSUME Types, NEW f \in FileId, NEW p \in Path, Rename(f, p)
  PROVE  /\ Types' /\ UNCHANGED <<storage, disk, reqs>>
         /\ f \in Live
         /\ \A g \in FileId : /\ rows'[g].state = rows[g].state
                              /\ rows'[g].src = rows[g].src
                              /\ rows'[g].size = rows[g].size
                              /\ g \notin Live => rows'[g] = rows[g]
<1> DEFINE row == [rows[f] EXCEPT !.path = p]
<1>1. rows[f] \in Row
  BY DEF Types
<1>2. /\ row \in Row /\ row.state = rows[f].state
      /\ row.src = rows[f].src /\ row.size = rows[f].size
  BY <1>1 DEF Row
<1>3. rows' = [rows EXCEPT ![f] = row] /\ f \in Live
  BY Zenon DEF Rename
<1> HIDE DEF row
<1>4. /\ rows' \in [FileId -> Row] /\ rows'[f] = row
      /\ \A g \in FileId \ {f} : rows'[g] = rows[g]
  BY <1>2, <1>3 DEF Types
<1>5. QED
  BY <1>2, <1>3, <1>4 DEF Rename, Types

LEMMA FilterLinkedDoes ==
  ASSUME Types, NEW r \in Req, FilterLinked(r)
  PROVE  /\ Types' /\ Others(r) /\ Quiet
         /\ reqs[r].pc = "filter"
         /\ \/ /\ reqs'[r].pc = "unlink" /\ reqs'[r].target = reqs[r].target
               /\ reqs'[r].seen = reqs[r].seen /\ reqs'[r].src = reqs[r].src
               /\ reqs'[r].todo = {f \in reqs[r].target : ~Linked(r, f)}
            \/ Ended(r)
<1>1. CASE reqs' = [reqs EXCEPT ![r].pc = "unlink",
                                ![r].todo = {f \in reqs[r].target : ~Linked(r, f)}]
  <2> DEFINE todo == {f \in reqs[r].target : ~Linked(r, f)}
             h    == [reqs[r] EXCEPT !.pc = "unlink", !.todo = todo]
  <2>1. reqs[r] \in Handler /\ todo \in SUBSET FileId /\ "unlink" \in Pc
    BY InPc, Fields DEF Types
  <2>2. reqs' = [reqs EXCEPT ![r] = h]
    BY <1>1, Zenon
  <2> HIDE DEF todo
  <2>3. /\ h \in Handler /\ h.pc = "unlink" /\ h.target = reqs[r].target
        /\ h.seen = reqs[r].seen /\ h.src = reqs[r].src /\ h.todo = todo
    BY <2>1 DEF Handler
  <2> HIDE DEF h
  <2>4. reqs' \in [Req -> Handler] /\ reqs'[r] = h /\ Others(r)
    BY <2>2, <2>3, Becomes
  <2>5. QED
    BY <2>3, <2>4 DEF FilterLinked, Types, Quiet, todo
<1>2. CASE Finish(r)
  BY <1>2, Finishes DEF FilterLinked, Types, Quiet
<1>3. QED
  BY <1>1, <1>2 DEF FilterLinked

(* Some physical files are removed; the rows that go on are targets, and    *)
(* one that does not has kept its physical file.                            *)
LEMMA DeleteGroupedFileDoes ==
  ASSUME Types, NEW r \in Req, NEW failed \in SUBSET Source, DeleteGroupedFile(r, failed)
  PROVE  /\ Types' /\ Others(r) /\ UNCHANGED <<rows, storage>>
         /\ reqs[r].pc = "unlink"
         /\ reqs'[r].pc = "commit" /\ reqs'[r].todo = {}
         /\ reqs'[r].seen = reqs[r].seen /\ reqs'[r].src = reqs[r].src
         /\ reqs'[r].target \subseteq reqs[r].target
         /\ \A f \in reqs[r].target \ reqs'[r].target : reqs[r].seen[f].src \in failed
         /\ \A s \in Source :
              \/ disk'[s] = disk[s]
              \/ s \notin failed /\ \E f \in reqs[r].todo : reqs[r].seen[f].src = s
<1> DEFINE removed == {reqs[r].seen[f].src : f \in reqs[r].todo} \ failed
           kept    == {f \in reqs[r].target : reqs[r].seen[f].src \notin failed}
           target  == IF reqs[r].mode = "force" THEN reqs[r].target ELSE kept
           h       == [reqs[r] EXCEPT !.pc = "commit", !.todo = {}, !.target = target]
<1>1. /\ reqs[r] \in Handler /\ target \in SUBSET FileId /\ "commit" \in Pc
      /\ target \subseteq reqs[r].target
      /\ \A f \in reqs[r].target \ target : reqs[r].seen[f].src \in failed
  BY InPc, Fields DEF Types
<1>2. /\ reqs[r].pc = "unlink"
      /\ disk' = [s \in Source |-> IF s \in removed THEN NoFile ELSE disk[s]]
      /\ UNCHANGED <<rows, storage>>
  BY Zenon DEF DeleteGroupedFile
<1>3. reqs' = [reqs EXCEPT ![r] = h]
  BY Zenon DEF DeleteGroupedFile
<1> HIDE DEF target, kept
<1>4. /\ h \in Handler /\ h.pc = "commit" /\ h.target = target
      /\ h.seen = reqs[r].seen /\ h.src = reqs[r].src /\ h.todo = {}
  BY <1>1 DEF Handler
<1> HIDE DEF h
<1>5. reqs' \in [Req -> Handler] /\ reqs'[r] = h /\ Others(r)
  BY <1>3, <1>4, Becomes
<1>6. /\ disk' \in [Source -> 0..MaxSize \cup {NoFile}]
      /\ \A s \in Source :
           \/ disk'[s] = disk[s]
           \/ s \notin failed /\ \E f \in reqs[r].todo : reqs[r].seen[f].src = s
  BY <1>2 DEF Types
<1>7. QED
  BY <1>1, <1>2, <1>4, <1>5, <1>6 DEF Types

LEMMA DeleteFilesDoes ==
  ASSUME Types, NEW r \in Req, DeleteFiles(r)
  PROVE  /\ Types' /\ Others(r) /\ Ended(r) /\ UNCHANGED disk
         /\ reqs[r].pc = "commit" /\ Deletable(r)
         /\ \A f \in FileId : rows'[f] = IF f \in reqs[r].target THEN Gone ELSE rows[f]
         /\ storage' = storage - SeenTotal(r, reqs[r].target)
<1>1. storage' \in Nat /\ storage' = storage - SeenTotal(r, reqs[r].target)
  BY SeenTotalType DEF DeleteFiles, Deletable, Types
<1>2. rows' \in [FileId -> Row]
  BY BlankType DEF DeleteFiles, Types
<1>3. QED
  BY <1>1, <1>2, Finishes DEF DeleteFiles, Types

LEMMA DeleteFilesRollbackDoes ==
  ASSUME Types, NEW r \in Req, DeleteFilesRollback(r)
  PROVE  /\ Types' /\ Others(r) /\ Ended(r) /\ Quiet
         /\ reqs[r].pc = "commit"
         /\ ~Deletable(r) \/ fault = "update"
  BY Finishes DEF DeleteFilesRollback, Types, Quiet

LEMMA CrashDoes ==
  ASSUME Types, Crash
  PROVE  Types' /\ Quiet /\ fault = "crash" /\ \A r \in Req : Ended(r)
  BY IdleType DEF Crash, Types, Quiet, Ended

-----------------------------------------------------------------------------
(* Type correctness.                                                        *)

LEMMA TypesInit == Init => TypeOK
  BY SizesNat, BlankType, IdleType DEF Init, TypeOK

LEMMA TypesNext == Types /\ [Next]_vars => Types'
<1> SUFFICES ASSUME Types, [Next]_vars PROVE Types'
  OBVIOUS
<1>1. ASSUME NEW r \in Req, Arrival(r) PROVE Types'
  BY <1>1, ArrivalDoes
<1>2. ASSUME NEW r \in Req, UploadStep(r) PROVE Types'
  BY <1>2, ProbeFileDoes, WriteFileDoes, CheckNameDoes, AddFileFailsDoes, DiscardFileDoes,
     InsertFileDoes, Zenon DEF UploadStep
<1>3. ASSUME NEW r \in Req, OverwriteStep(r) PROVE Types'
  <2>1. ASSUME NEW f \in FileId, FindLinks(r, f) PROVE Types'
    BY <2>1, FindLinksDoes DEF Types, Quiet
  <2>2. QED
    BY <1>3, <2>1, CleanContentDoes, RelinkFileDoes, RelinkAgainDoes,
       GenericAfterUpdateDoes, ClearFileSizeDoes, Zenon DEF OverwriteStep
<1>4. ASSUME NEW r \in Req, CopyStep(r) PROVE Types'
  BY <1>4, CopyFileDoes, CopyFailsDoes, ChargeCopiesDoes, Zenon DEF CopyStep
<1>5. ASSUME NEW r \in Req, DeleteStep(r) PROVE Types'
  BY <1>5, FilterLinkedDoes, DeleteGroupedFileDoes, DeleteFilesDoes,
     DeleteFilesRollbackDoes, Zenon DEF DeleteStep
<1>6. CASE Next
  BY <1>6, <1>1, <1>2, <1>3, <1>4, <1>5, RenameDoes, CrashDoes, Zenon DEF Next
<1>7. CASE UNCHANGED vars
  BY <1>7 DEF Types, vars
<1>8. QED
  BY <1>6, <1>7

(* Every variable keeps its type: sizes stay within the largest upload, and *)
(* the counter that DeleteFiles and UpdateSize decrease is never negative.  *)
THEOREM TypeCorrect == Spec => []TypeOK
<1>1. Init => TypeOK
  BY TypesInit
<1>2. TypeOK /\ [Next]_vars => TypeOK'
  BY TypesNext DEF Next, vars, Types, TypeOK
<1>3. QED
  BY <1>1, <1>2, PTL DEF Spec

-----------------------------------------------------------------------------
(* Handlers work on different rows.                                         *)

LEMMA IdleHolds ==
  ASSUME NEW r \in Req, Ended(r)
  PROVE  /\ reqs'[r].target = {} /\ reqs'[r].todo = {} /\ reqs'[r].pc = "idle"
         /\ reqs'[r].seen = Unseen /\ reqs'[r].src = NoPath
  BY IdleType DEF Ended

LEMMA AloneGoesOn ==
  ASSUME Alone, NEW r \in Req, Others(r), UNCHANGED rows,
         reqs'[r].target \subseteq reqs[r].target,
         reqs'[r].todo \subseteq reqs'[r].target,
         reqs'[r].target = {} \/ reqs'[r].seen = reqs[r].seen
  PROVE  Alone'
<1>1. \A q \in Req, p \in Req : q # p => reqs'[q].target \cap reqs'[p].target = {}
  BY DEF Alone, Others
<1>2. \A q \in Req \ {r} : Holds(q)'
  BY DEF Alone, Others, Holds, Live
<1>3. Holds(r)'
  BY DEF Alone, Holds, Live
<1>4. QED
  BY <1>1, <1>2, <1>3 DEF Alone, Live

LEMMA AloneArrives ==
  ASSUME ~Overlap, Alone, NEW r \in Req, Others(r), UNCHANGED rows,
         Takes(r, reqs'[r].target), reqs'[r].todo \subseteq reqs'[r].target
  PROVE  Alone'
<1>1. \A q \in Req, p \in Req : q # p => reqs'[q].target \cap reqs'[p].target = {}
  BY DEF Alone, Others, Free, Takes
<1>2. \A q \in Req \ {r} : Holds(q)'
  BY DEF Alone, Others, Holds, Live
<1>3. Holds(r)'
  BY DEF Holds, Live, Fetched, Takes
<1>4. QED
  BY <1>1, <1>2, <1>3 DEF Alone, Live

(* A step that changes the table, but not the rows of other handlers.       *)
LEMMA AloneWrites ==
  ASSUME Alone, NEW r \in Req, Others(r),
         \A f \in Live \ reqs[r].target : rows'[f].state = "live" /\ rows'[f].size = rows[f].size,
         \A f \in FileId : rows'[f].state # "live" => rows'[f] \in {Blank, Gone},
         \/ reqs'[r].target = {} /\ reqs'[r].todo = {}
         \/ /\ reqs'[r].target = reqs[r].target /\ reqs'[r].seen = reqs[r].seen
            /\ reqs'[r].todo \subseteq reqs[r].todo
            /\ \A f \in reqs[r].target :
                 rows'[f].state = rows[f].state /\ rows'[f].size = rows[f].size
  PROVE  Alone'
<1>1. \A q \in Req, p \in Req : q # p => reqs'[q].target \cap reqs'[p].target = {}
  BY DEF Alone, Others
<1>2. ASSUME NEW q \in Req \ {r} PROVE Holds(q)'
  <2>1. reqs'[q] = reqs[q] /\ reqs[q].target \cap reqs[r].target = {} /\ Holds(q)
    BY DEF Alone, Others
  <2>2. QED
    BY <2>1 DEF Holds, Live
<1>3. Holds(r)'
  <2>1. Holds(r)
    BY DEF Alone
  <2>2. QED
    BY <2>1 DEF Holds, Live
<1>4. QED
  BY <1>1, <1>2, <1>3 DEF Alone, Live

LEMMA AloneInit == Init => Alone
  BY IdleType DEF Init, Alone, Holds, Live

LEMMA AloneNext ==
  ASSUME ~Overlap, Types, Alone, [Next]_vars
  PROVE  Alone'
<1>a. \A f \in FileId : rows[f].state # "live" => rows[f] \in {Blank, Gone}
  BY DEF Alone, Live
<1>b. \A r \in Req : Holds(r) /\ reqs[r].target \in SUBSET FileId
  BY Fields DEF Alone, Types
<1>c. Gone.state = "gone"
  BY DEF Gone, Blank
<1>1. ASSUME NEW r \in Req, Arrival(r) PROVE Alone'
  BY <1>1, ArrivalDoes, AloneArrives DEF Quiet
<1>k. ASSUME NEW r \in Req, Others(r), UNCHANGED rows, Kept(r) PROVE Alone'
  BY <1>k, <1>b, AloneGoesOn DEF Kept, Holds
<1>e. ASSUME NEW r \in Req, Others(r), UNCHANGED rows, Ended(r) PROVE Alone'
  BY <1>e, IdleHolds, AloneGoesOn
<1>2. ASSUME NEW r \in Req, UploadStep(r) PROVE Alone'
  <2>1. ASSUME ProbeFile(r) \/ WriteFile(r) \/ CheckName(r) \/ AddFileFails(r) \/ DiscardFile(r)
        PROVE  Alone'
    <3>1. Others(r) /\ UNCHANGED rows /\ (Ended(r) \/ Kept(r))
      BY <2>1, ProbeFileDoes, WriteFileDoes, CheckNameDoes, AddFileFailsDoes, DiscardFileDoes
         DEF Quiet
    <3>2. QED
      BY <3>1, <1>k, <1>e
  <2>2. ASSUME NEW f \in FileId, InsertFile(r, f) PROVE Alone'
    BY <2>2, <1>a, InsertFileDoes, IdleHolds, AloneWrites DEF Live
  <2>3. QED
    BY <1>2, <2>1, <2>2, Zenon DEF UploadStep
<1>3. ASSUME NEW r \in Req, OverwriteStep(r) PROVE Alone'
  <2>1. CASE CleanContent(r)
    BY <2>1, <1>k, CleanContentDoes
  <2>2. ASSUME NEW f \in FileId, FindLinks(r, f) PROVE Alone'
    BY <2>2, <1>b, FindLinksDoes, AloneGoesOn DEF Quiet, Holds
  <2>3. ASSUME NEW f \in FileId, RelinkFile(r, f) \/ RelinkAgain(r, f) PROVE Alone'
    <3>1. Others(r) /\ (Ended(r) \/ Kept(r)) /\ (UpdateSourceName(r, f) \/ UNCHANGED rows)
      BY <2>3, RelinkFileDoes, RelinkAgainDoes
    <3>2. CASE UNCHANGED rows
      BY <3>1, <3>2, <1>k, <1>e
    <3>3. CASE UpdateSourceName(r, f)
      <4>1. /\ \A g \in FileId : rows'[g].state = rows[g].state /\ rows'[g].size = rows[g].size
            /\ \A g \in FileId : rows'[g].state # "live" => rows'[g] = rows[g]
        BY <3>3, UpdateSourceNameDoes DEF Live
      <4>2. QED
        BY <3>1, <4>1, <1>a, <1>b, IdleHolds, AloneWrites DEF Kept, Live
    <3>4. QED
      BY <3>1, <3>2, <3>3
  <2>4. ASSUME NEW f \in FileId, GenericAfterUpdate(r, f) \/ ClearFileSize(r, f) PROVE Alone'
    <3>1. /\ Others(r) /\ reqs[r].target = {f}
          /\ \/ UNCHANGED rows /\ (Ended(r) \/ Kept(r))
             \/ Ended(r) /\ \E new \in 0..MaxSize : UpdateSize(f, reqs[r].seen[f].size, new)
      <4>1. 0 \in 0..MaxSize /\ reqs[r].size \in 0..MaxSize
        BY Fields, SizesNat DEF Types
      <4>2. QED
        BY <2>4, <4>1, GenericAfterUpdateDoes, ClearFileSizeDoes DEF RollbackSize
    <3>2. CASE UNCHANGED rows /\ (Ended(r) \/ Kept(r))
      BY <3>1, <3>2, <1>k, <1>e
    <3>3. CASE Ended(r) /\ \E new \in 0..MaxSize : UpdateSize(f, reqs[r].seen[f].size, new)
      <4>1. reqs[r].seen[f].size \in 0..MaxSize
        BY Fields DEF Types, Row
      <4>2. /\ \A g \in FileId \ {f} : rows'[g] = rows[g]
            /\ rows'[f].state = rows[f].state
            /\ f \notin Live => rows'[f] = rows[f]
        BY <3>3, <4>1, UpdateSizeDoes DEF Matches
      <4>3. QED
        BY <3>1, <3>3, <4>2, <1>a, IdleHolds, AloneWrites DEF Live
    <3>4. QED
      BY <3>1, <3>2, <3>3
  <2>5. QED
    BY <1>3, <2>1, <2>2, <2>3, <2>4, Zenon DEF OverwriteStep
<1>4. ASSUME NEW r \in Req, CopyStep(r) PROVE Alone'
  <2>1. CASE CopyFails(r) \/ ChargeCopies(r)
    BY <2>1, <1>e, CopyFailsDoes, ChargeCopiesDoes DEF Quiet
  <2>2. ASSUME NEW f \in FileId, NEW g \in FileId, NEW p \in Path, CopyFile(r, f, g, p)
        PROVE  Alone'
    <3>1. f \in reqs[r].target /\ rows'[g].state = "live" /\ g \notin Live
      BY <2>2, <1>b, CopyFileDoes DEF Holds, Live
    <3>2. g \notin reqs[r].target
      BY <3>1, <1>b DEF Holds
    <3>3. QED
      BY <2>2, <3>1, <3>2, <1>a, <1>b, CopyFileDoes, AloneWrites DEF Live
  <2>3. QED
    BY <1>4, <2>1, <2>2, Zenon DEF CopyStep
<1>5. ASSUME NEW r \in Req, DeleteStep(r) PROVE Alone'
  <2>1. CASE FilterLinked(r)
    <3>1. CASE Ended(r)
      BY <2>1, <3>1, <1>e, FilterLinkedDoes DEF Quiet
    <3>2. CASE ~Ended(r)
      BY <2>1, <3>2, FilterLinkedDoes, AloneGoesOn DEF Quiet
    <3>3. QED
      BY <3>1, <3>2
  <2>2. ASSUME NEW failed \in SUBSET Source, DeleteGroupedFile(r, failed) PROVE Alone'
    BY <2>2, DeleteGroupedFileDoes, AloneGoesOn
  <2>3. CASE DeleteFiles(r)
    BY <2>3, <1>a, <1>c, DeleteFilesDoes, IdleHolds, AloneWrites DEF Live
  <2>4. CASE DeleteFilesRollback(r)
    BY <2>4, <1>e, DeleteFilesRollbackDoes DEF Quiet
  <2>5. QED
    BY <1>5, <2>1, <2>2, <2>3, <2>4, Zenon DEF DeleteStep
<1>6. ASSUME NEW f \in FileId, NEW p \in Path, Rename(f, p) PROVE Alone'
  BY <1>6, RenameDoes DEF Alone, Holds, Live
<1>7. CASE Crash
  BY <1>7, CrashDoes, IdleHolds DEF Alone, Holds, Live, Quiet
<1>8. CASE Next
  BY <1>8, <1>1, <1>2, <1>3, <1>4, <1>5, <1>6, <1>7, Zenon DEF Next
<1>9. CASE UNCHANGED vars
  BY <1>9 DEF Alone, Holds, Live, vars
<1>10. QED
  BY <1>8, <1>9

-----------------------------------------------------------------------------
(* The counter and the sizes.                                               *)

LEMMA SizeColumnType ==
  ASSUME NEW table \in [FileId -> Row]
  PROVE  SizeColumn(table) \in Sizes(FileId)
  BY DEF SizeColumn, Sizes, Row

LEMMA PendingType == Types => Pending \in Sizes(FileId)
  BY SizesNat DEF Pending, Sizes, Types, Row

LEMMA SumTypes == Used \in Nat /\ Owed \in Nat /\ Used' \in Nat /\ Owed' \in Nat
  BY BlocksFinite, FileIdFinite DEF Used, Owed

LEMMA CopiedRows ==
  ASSUME Types, Alone, NEW r \in Req, NEW f \in Copied(r)
  PROVE  f \in Live /\ f \in reqs[r].target /\ reqs[r].pc = "copy"
  BY DEF Alone, Holds, Copied

(* What is pending changes only with the handler's own copies and sizes.    *)
LEMMA PendingStays ==
  ASSUME NEW r \in Req, Others(r), Copied(r)' = Copied(r),
         \A f \in FileId : rows'[f].size = rows[f].size \/ \A q \in Req : f \notin Copied(q)
  PROVE  Pending' = Pending
<1>1. \A q \in Req : Copied(q)' = Copied(q)
  BY DEF Copied, Others
<1>2. QED
  BY <1>1 DEF Pending

(* Neither the counter nor a sum moves.                                     *)
LEMMA BalanceStays ==
  ASSUME Balance, fault' = fault, storage' = storage,
         SizeColumn(rows') = SizeColumn(rows), Pending' = Pending
  PROVE  Balance'
  BY DEF Balance, Used, Owed, Calm

LEMMA BalanceKept ==
  ASSUME Balance, fault' = fault, NEW r \in Req, Others(r),
         UNCHANGED <<rows, storage>>, Copied(r)' = Copied(r)
  PROVE  Balance'
<1>1. Pending' = Pending
  BY PendingStays
<1>2. QED
  BY <1>1, BalanceStays

(* One size changes and the counter with it.                                *)
LEMMA BalanceMoves ==
  ASSUME Types, Types', Alone, Balance, fault' = fault, NEW r \in Req, Others(r),
         Copied(r)' = Copied(r), NEW f \in FileId, \A q \in Req : f \notin Copied(q),
         \A g \in FileId \ {f} : rows'[g].size = rows[g].size,
         storage' = storage + rows'[f].size - rows[f].size
  PROVE  Balance'
<1> DEFINE before == SizeColumn(rows)
           after  == SizeColumn(rows')
<1>1. before \in Sizes(FileId) /\ after \in Sizes(FileId)
  BY SizeColumnType DEF Types
<1>2. before[f] = rows[f].size /\ after[f] = rows'[f].size
  BY DEF SizeColumn
<1>3. \A g \in FileId \ {f} : after[g] = before[g]
  BY DEF SizeColumn
<1> HIDE DEF before, after
<1>4. Total(FileId, after) = Total(FileId, before) - before[f] + after[f]
  BY <1>1, <1>3, TotalUpdate, FileIdFinite
<1>5. Used = Total(FileId, before) /\ Used' = Total(FileId, after)
  BY DEF Used, before, after
<1>6. Used' = Used - rows[f].size + rows'[f].size
  BY <1>2, <1>4, <1>5
<1>7. Pending' = Pending
  BY PendingStays
<1>8. Owed' = Owed
  BY <1>7 DEF Owed
<1>9. rows[f].size \in Nat /\ rows'[f].size \in Nat /\ storage \in Nat
  BY SizesNat DEF Types, Row
<1>10. storage' + Owed' <= Used' /\ (Calm => storage' + Owed' = Used')
  BY <1>6, <1>8, <1>9, SumTypes DEF Balance
<1>11. QED
  BY <1>10 DEF Balance, Calm

(* A soft link is made: its size is owed.                                   *)
LEMMA BalanceCopies ==
  ASSUME Types, Types', Alone, Balance, fault' = fault, NEW r \in Req,
         NEW f \in FileId, NEW g \in FileId, NEW p \in Path, CopyFile(r, f, g, p)
  PROVE  Balance'
<1>1. /\ reqs[r].pc = "copy" /\ f \in reqs[r].todo /\ rows[g].state = "unborn"
      /\ Others(r) /\ storage' = storage /\ Copied(r)' = Copied(r) \cup {f}
      /\ \A e \in FileId \ {g} : rows'[e] = rows[e]
      /\ rows'[g].size = reqs[r].seen[f].size
  BY CopyFileDoes DEF Copied, Alone, Holds
<1>2. f \in Live /\ rows[f].size = reqs[r].seen[f].size /\ f \in reqs[r].target
  BY <1>1 DEF Alone, Holds
<1>3. rows[g].size = 0 /\ g # f
  BY <1>1, <1>2 DEF Alone, Live, Gone, Blank
<1>4. \A q \in Req : g \notin Copied(q) /\ f \notin Copied(q)
  <2>1. \A q \in Req : g \notin Copied(q)
    BY <1>1, CopiedRows DEF Live
  <2>2. f \notin Copied(r)
    BY <1>1 DEF Copied
  <2>3. \A q \in Req \ {r} : f \notin Copied(q)
    BY <1>2, CopiedRows DEF Alone
  <2>4. QED
    BY <2>1, <2>2, <2>3
<1> DEFINE before == SizeColumn(rows)
           after  == SizeColumn(rows')
           owed   == Pending
           owing  == Pending'
           n      == rows[f].size
<1>5. /\ before \in Sizes(FileId) /\ after \in Sizes(FileId)
      /\ owed \in Sizes(FileId) /\ owing \in Sizes(FileId) /\ n \in Nat
  <2>1. before \in Sizes(FileId) /\ after \in Sizes(FileId)
    BY SizeColumnType DEF Types
  <2>2. owed \in Sizes(FileId) /\ n \in Nat
    BY PendingType, SizesNat DEF Types, Row
  <2>3. owing \in Sizes(FileId)
    BY SizesNat DEF Pending, Sizes, Types, Row
  <2>4. QED
    BY <2>1, <2>2, <2>3
<1>6. /\ before[g] = 0 /\ after[g] = n
      /\ \A e \in FileId \ {g} : after[e] = before[e]
  BY <1>1, <1>2, <1>3 DEF SizeColumn
<1>7. /\ owed[f] = 0 /\ owing[f] = n
      /\ \A e \in FileId \ {f} : owing[e] = owed[e]
  <2>1. \A q \in Req \ {r} : Copied(q)' = Copied(q)
    BY <1>1 DEF Copied, Others
  <2>2. \A e \in FileId \ {f} : (\E q \in Req : e \in Copied(q)') <=> (\E q \in Req : e \in Copied(q))
    BY <1>1, <2>1
  <2>3. f \in Copied(r)' /\ rows'[f] = rows[f]
    BY <1>1, <1>3
  <2>4. owed[g] = 0 /\ owing[g] = 0
    BY <1>3, <1>4, <2>2 DEF Pending
  <2>5. owed[f] = 0 /\ owing[f] = n
    BY <1>4, <2>3 DEF Pending
  <2>6. \A e \in FileId \ {f, g} : owing[e] = owed[e]
    BY <1>1, <2>2 DEF Pending
  <2>7. QED
    BY <2>4, <2>5, <2>6
<1> HIDE DEF before, after, owed, owing
<1>8. Total(FileId, after) = Total(FileId, before) - before[g] + after[g]
  BY <1>5, <1>6, TotalUpdate, FileIdFinite
<1>9. Total(FileId, owing) = Total(FileId, owed) - owed[f] + owing[f]
  BY <1>5, <1>7, TotalUpdate, FileIdFinite
<1>10. /\ Used = Total(FileId, before) /\ Used' = Total(FileId, after)
       /\ Owed = Total(FileId, owed) /\ Owed' = Total(FileId, owing)
  BY DEF Used, Owed, before, after, owed, owing
<1> HIDE DEF n
<1>11. Used' = Used + n /\ Owed' = Owed + n
  BY <1>5, <1>6, <1>7, <1>8, <1>9, <1>10, SumTypes
<1>12. storage' + Owed' <= Used' /\ (Calm => storage' + Owed' = Used')
  BY <1>1, <1>5, <1>11, SumTypes DEF Balance, Types
<1>13. QED
  BY <1>12 DEF Balance, Calm

LEMMA LessOwed ==
  \A s, o, p, u \in Nat : p <= o /\ s + o <= u => s + p <= u
  OBVIOUS

LEMMA Refunded ==
  \A s, o, n, v \in Nat :
     /\ s + o = n + v => (s - n) + o = v
     /\ s + o <= n + v => (s - n) + o <= v
  OBVIOUS

(* A handler ends with what it owes, paid or not.                           *)
LEMMA OwedSettled ==
  ASSUME Types, Types', Alone, NEW r \in Req, Others(r), rows' = rows,
         reqs[r].pc = "copy", Copied(r)' = {}
  PROVE  /\ Owed' <= Owed
         /\ reqs[r].todo = {} => Owed = Owed' + SeenTotal(r, reqs[r].target)
<1> DEFINE owed  == Pending
           owing == Pending'
           mine  == [f \in FileId |-> IF f \in Copied(r) THEN owed[f] ELSE 0]
           rest  == [f \in FileId |-> IF f \in Copied(r) THEN 0 ELSE owed[f]]
<1>1. owed \in Sizes(FileId)
  BY PendingType
<1>2. \A q \in Req \ {r} : Copied(q)' = Copied(q) /\ Copied(q) \cap Copied(r) = {}
  BY CopiedRows DEF Copied, Others, Alone
<1>3. owing = rest
  BY <1>2 DEF Pending
<1>4. Total(FileId, owed) = Total(FileId, mine) + Total(FileId, rest)
  <2> HIDE DEF owed
  <2>1. QED
    BY <1>1, TotalSplit, FileIdFinite
<1>5. reqs[r].todo = {} => Total(FileId, mine) = SeenTotal(r, reqs[r].target)
  <2>1. ASSUME reqs[r].todo = {}
        PROVE  mine = [f \in FileId |-> IF f \in reqs[r].target THEN reqs[r].seen[f].size ELSE 0]
    BY <2>1 DEF Copied, Pending, Alone, Holds
  <2> HIDE DEF mine
  <2>2. QED
    BY <2>1 DEF SeenTotal
<1>6. Total(FileId, mine) \in Nat /\ Total(FileId, rest) \in Nat
  BY BlocksFinite, FileIdFinite
<1>7. Owed = Total(FileId, owed) /\ Owed' = Total(FileId, rest)
  BY <1>3 DEF Owed
<1> HIDE DEF owed, owing, mine, rest
<1>8. QED
  BY <1>4, <1>5, <1>6, <1>7

LEMMA BalanceSettles ==
  ASSUME Types, Types', Alone, Balance, fault' = fault, NEW r \in Req,
         CopyFails(r) \/ ChargeCopies(r)
  PROVE  Balance'
<1>1. /\ Others(r) /\ rows' = rows /\ reqs[r].pc = "copy" /\ Ended(r)
      /\ \/ reqs[r].todo = {} /\ storage' = storage + SeenTotal(r, reqs[r].target)
         \/ storage' = storage /\ fault \in {"insert", "update"}
  BY CopyFailsDoes, ChargeCopiesDoes DEF Quiet
<1>2. Copied(r)' = {}
  BY <1>1, IdleHolds DEF Copied
<1>3. Used' = Used
  BY <1>1 DEF Used
<1>4. SeenTotal(r, reqs[r].target) \in Nat /\ storage \in Nat
  BY SeenTotalType DEF Types
<1>5. CASE reqs[r].todo = {} /\ storage' = storage + SeenTotal(r, reqs[r].target)
  <2> DEFINE n == SeenTotal(r, reqs[r].target)
  <2>1. Owed = Owed' + n
    BY <1>1, <1>2, <1>5, OwedSettled
  <2>2. storage' = storage + n /\ n \in Nat /\ storage \in Nat
    BY <1>4, <1>5
  <2> HIDE DEF n
  <2>3. storage' + Owed' = storage + Owed
    BY <2>1, <2>2, SumTypes
  <2>4. QED
    BY <1>3, <2>3 DEF Balance, Calm
<1>6. CASE storage' = storage /\ fault \in {"insert", "update"}
  <2>1. Owed' <= Owed
    BY <1>1, <1>2, OwedSettled
  <2>2. storage + Owed' <= Used
    <3>1. storage + Owed <= Used
      BY Zenon DEF Balance
    <3>2. QED
      BY <1>4, <2>1, <3>1, SumTypes, LessOwed, Zenon
  <2>3. ~Calm'
    BY <1>6 DEF Calm
  <2>4. QED
    BY <1>3, <1>6, <2>2, <2>3 DEF Balance
<1>7. QED
  BY <1>1, <1>5, <1>6

(* A transaction that deletes rows gives back the sum of their sizes.       *)
LEMMA BalanceDeletes ==
  ASSUME Types, Types', Alone, Balance, fault' = fault, NEW r \in Req, DeleteFiles(r)
  PROVE  Balance'
<1> DEFINE size == SizeColumn(rows)
           in   == [f \in FileId |-> IF f \in reqs[r].target THEN size[f] ELSE 0]
           out  == [f \in FileId |-> IF f \in reqs[r].target THEN 0 ELSE size[f]]
           n    == SeenTotal(r, reqs[r].target)
<1>1. /\ Others(r) /\ reqs[r].pc = "commit" /\ Ended(r) /\ Deletable(r)
      /\ \A f \in FileId : rows'[f] = IF f \in reqs[r].target THEN Gone ELSE rows[f]
      /\ storage' = storage - n
  BY DeleteFilesDoes
<1>2. size \in Sizes(FileId)
  BY SizeColumnType DEF Types
<1>3. in = [f \in FileId |-> IF f \in reqs[r].target THEN reqs[r].seen[f].size ELSE 0]
  BY <1>1 DEF Deletable, Matches, SizeColumn
<1>4. out = SizeColumn(rows')
  BY <1>1 DEF Gone, Blank, SizeColumn
<1> HIDE DEF size
<1>5. Total(FileId, size) = Total(FileId, in) + Total(FileId, out)
  BY <1>2, TotalSplit, FileIdFinite
<1> HIDE DEF in, out
<1>6. Total(FileId, in) = n
  BY <1>3 DEF SeenTotal
<1>7. Used' = Total(FileId, out) /\ Used = Total(FileId, size)
  BY <1>4 DEF Used, size
<1>8. n \in Nat /\ storage \in Nat
  BY SeenTotalType DEF Types
<1> HIDE DEF n
<1>9. Used = n + Used'
  BY <1>5, <1>6, <1>7
<1>10. Pending' = Pending
  <2>1. Copied(r)' = {} /\ Copied(r) = {}
    BY <1>1, IdleHolds DEF Copied
  <2>2. \A f \in reqs[r].target : \A q \in Req : f \notin Copied(q)
    BY <2>1, CopiedRows DEF Alone
  <2>3. QED
    BY <1>1, <2>1, <2>2, PendingStays
<1>11. Owed' = Owed
  BY <1>10 DEF Owed
<1>12. CASE Calm
  <2>1. storage + Owed = Used
    BY <1>12, Zenon DEF Balance
  <2>2. (storage - n) + Owed = Used'
    <3>1. storage + Owed = n + Used'
      BY <1>9, <2>1, Zenon
    <3> DEFINE s == storage
               o == Owed
               v == Used'
    <3>2. s + o = n + v /\ s \in Nat /\ o \in Nat /\ v \in Nat
      BY <1>8, <3>1, SumTypes
    <3> HIDE DEF s, o, v
    <3>3. (s - n) + o = v
      BY <1>8, <3>2
    <3>4. QED
      BY <3>3 DEF s, o, v
  <2>3. storage' + Owed' = Used' /\ storage' + Owed' <= Used'
    BY <1>1, <1>11, <2>2, SumTypes
  <2>4. QED
    BY <2>3, Zenon DEF Balance
<1>13. CASE ~Calm
  <2>1. storage + Owed <= Used
    BY Zenon DEF Balance
  <2>2. (storage - n) + Owed <= Used'
    <3>1. storage + Owed <= n + Used'
      BY <1>9, <2>1, Zenon
    <3>2. QED
      BY <1>8, <3>1, SumTypes, Refunded, Zenon
  <2>3. storage' + Owed' <= Used'
    BY <1>1, <1>11, <2>2
  <2>4. QED
    BY <1>13, <2>3 DEF Balance, Calm
<1>14. QED
  BY <1>12, <1>13

(* An update finds its row as the handler read it.                          *)
LEMMA BalanceResizes ==
  ASSUME Types, Types', Alone, Balance, fault' = fault, NEW r \in Req, NEW f \in FileId,
         Others(r), Ended(r), reqs[r].target = {f}, reqs[r].pc # "copy",
         NEW new \in 0..MaxSize, UpdateSize(f, reqs[r].seen[f].size, new)
  PROVE  Balance'
<1> DEFINE old == reqs[r].seen[f].size
<1>1. old \in 0..MaxSize
  BY Fields DEF Types, Row
<1>2. Matches(f, old) /\ rows[f].size = old
  BY DEF Alone, Holds, Matches
<1>3. /\ storage' = storage + new - old /\ rows'[f].size = new
      /\ \A g \in FileId \ {f} : rows'[g] = rows[g]
  BY <1>1, <1>2, UpdateSizeDoes
<1>4. Copied(r)' = Copied(r) /\ Copied(r) = {}
  BY IdleHolds DEF Copied
<1>5. \A q \in Req : f \notin Copied(q)
  BY <1>4, CopiedRows DEF Alone
<1>6. QED
  BY <1>2, <1>3, <1>4, <1>5, BalanceMoves

LEMMA TotalZero ==
  ASSUME NEW size, \A f \in FileId : size[f] = 0
  PROVE  Total(FileId, size) = 0
<1>1. Blocks(FileId, size) = {}
  BY SizesNat DEF Blocks
<1>2. QED
  BY <1>1, FS_EmptySet DEF Total

LEMMA BalanceInit == Init => Balance
<1> SUFFICES ASSUME Init PROVE Balance
  OBVIOUS
<1>1. \A f \in FileId : SizeColumn(rows)[f] = 0 /\ Pending[f] = 0
  BY DEF Init, SizeColumn, Pending, Blank
<1>2. Used = 0 /\ Owed = 0 /\ storage = 0
  BY <1>1, TotalZero DEF Used, Owed, Init
<1>3. QED
  BY <1>2 DEF Balance

LEMMA BalanceNext ==
  ASSUME Types, Types', Alone, Balance, fault' = fault, [Next]_vars
  PROVE  Balance'
<1>1. ASSUME NEW r \in Req, Arrival(r) PROVE Balance'
  <2>1. Others(r) /\ UNCHANGED <<rows, storage>> /\ reqs[r].pc = "idle" /\ Copied(r)' = {}
    <3>1. /\ Others(r) /\ Quiet /\ reqs[r].pc = "idle"
          /\ reqs'[r].pc \in {"probe", "links", "filter"} \/ reqs'[r].todo = reqs'[r].target
      BY <1>1, ArrivalDoes
    <3>2. QED
      BY <3>1 DEF Copied, Quiet
  <2>2. QED
    BY <2>1, BalanceKept DEF Copied
<1>k. ASSUME NEW r \in Req, Others(r), UNCHANGED <<rows, storage>>,
             reqs[r].pc # "copy", reqs'[r].pc # "copy"
      PROVE  Balance'
  BY <1>k, BalanceKept DEF Copied
<1>2. ASSUME NEW r \in Req, UploadStep(r) PROVE Balance'
  <2>1. CASE ProbeFile(r)
    BY <2>1, <1>k, ProbeFileDoes, IdleHolds DEF Quiet
  <2>2. CASE WriteFile(r)
    BY <2>2, <1>k, WriteFileDoes, IdleHolds DEF AfterPut
  <2>3. CASE CheckName(r) \/ AddFileFails(r)
    BY <2>3, <1>k, CheckNameDoes, AddFileFailsDoes DEF Quiet
  <2>4. CASE DiscardFile(r)
    BY <2>4, <1>k, DiscardFileDoes, IdleHolds
  <2>5. ASSUME NEW f \in FileId, InsertFile(r, f) PROVE Balance'
    <3>1. /\ Others(r) /\ Copied(r)' = Copied(r) /\ rows[f].state = "unborn"
          /\ \A g \in FileId \ {f} : rows'[g] = rows[g]
          /\ storage' = storage + rows'[f].size /\ rows'[f].size \in Nat /\ storage \in Nat
      BY <2>5, InsertFileDoes, IdleHolds, SizesNat DEF Copied, Types, Row
    <3>2. rows[f].size = 0 /\ f \notin Live
      BY <3>1 DEF Alone, Live, Gone, Blank
    <3>3. \A q \in Req : f \notin Copied(q)
      BY <3>2, CopiedRows
    <3>4. storage' = storage + rows'[f].size - rows[f].size
      BY <3>1, <3>2
    <3>5. QED
      BY <3>1, <3>3, <3>4, BalanceMoves
  <2>6. QED
    BY <1>2, <2>1, <2>2, <2>3, <2>4, <2>5, Zenon DEF UploadStep
<1>3. ASSUME NEW r \in Req, OverwriteStep(r) PROVE Balance'
  <2>1. CASE CleanContent(r)
    BY <2>1, <1>k, CleanContentDoes
  <2>2. ASSUME NEW f \in FileId, FindLinks(r, f) PROVE Balance'
    BY <2>2, <1>k, FindLinksDoes DEF Quiet
  <2>3. ASSUME NEW f \in FileId, RelinkFile(r, f) \/ RelinkAgain(r, f) PROVE Balance'
    <3>1. /\ Others(r) /\ storage' = storage
          /\ reqs[r].pc # "copy" /\ reqs'[r].pc # "copy"
          /\ UpdateSourceName(r, f) \/ UNCHANGED rows
      BY <2>3, RelinkFileDoes, RelinkAgainDoes, IdleHolds
    <3>2. \A g \in FileId : rows'[g].size = rows[g].size
      BY <3>1, UpdateSourceNameDoes
    <3>3. SizeColumn(rows') = SizeColumn(rows)
      BY <3>2 DEF SizeColumn
    <3>4. Copied(r)' = Copied(r)
      BY <3>1 DEF Copied
    <3>5. Pending' = Pending
      BY <3>1, <3>2, <3>4, PendingStays
    <3>6. QED
      BY <3>1, <3>3, <3>5, BalanceStays
  <2>4. ASSUME NEW f \in FileId, GenericAfterUpdate(r, f) PROVE Balance'
    <3>1. CASE UpdateSize(f, reqs[r].seen[f].size, reqs[r].size) /\ Ended(r)
      <4>1. reqs[r].size \in 0..MaxSize
        BY Fields DEF Types
      <4>2. QED
        BY <2>4, <3>1, <4>1, GenericAfterUpdateDoes, BalanceResizes
    <3>2. CASE /\ RollbackSize(reqs[r].seen[f].size, reqs[r].size)
               /\ reqs'[r].pc \in {"relinkAgain", "clean"}
      BY <2>4, <3>2, <1>k, GenericAfterUpdateDoes DEF RollbackSize
    <3>3. QED
      BY <2>4, <3>1, <3>2, GenericAfterUpdateDoes
  <2>5. ASSUME NEW f \in FileId, ClearFileSize(r, f) PROVE Balance'
    <3>1. CASE UpdateSize(f, reqs[r].seen[f].size, 0)
      BY <2>5, <3>1, ClearFileSizeDoes, BalanceResizes, SizesNat
    <3>2. CASE UNCHANGED <<rows, storage>>
      BY <2>5, <3>2, <1>k, ClearFileSizeDoes, IdleHolds
    <3>3. QED
      BY <2>5, <3>1, <3>2, ClearFileSizeDoes
  <2>6. QED
    BY <1>3, <2>1, <2>2, <2>3, <2>4, <2>5, Zenon DEF OverwriteStep
<1>4. ASSUME NEW r \in Req, CopyStep(r) PROVE Balance'
  <2>1. CASE CopyFails(r) \/ ChargeCopies(r)
    BY <2>1, BalanceSettles
  <2>2. ASSUME NEW f \in FileId, NEW g \in FileId, NEW p \in Path, CopyFile(r, f, g, p)
        PROVE  Balance'
    BY <2>2, BalanceCopies
  <2>3. QED
    BY <1>4, <2>1, <2>2, Zenon DEF CopyStep
<1>5. ASSUME NEW r \in Req, DeleteStep(r) PROVE Balance'
  <2>1. CASE FilterLinked(r)
    BY <2>1, <1>k, FilterLinkedDoes, IdleHolds DEF Quiet
  <2>2. ASSUME NEW failed \in SUBSET Source, DeleteGroupedFile(r, failed) PROVE Balance'
    BY <2>2, <1>k, DeleteGroupedFileDoes
  <2>3. CASE DeleteFiles(r)
    BY <2>3, BalanceDeletes
  <2>4. CASE DeleteFilesRollback(r)
    BY <2>4, <1>k, DeleteFilesRollbackDoes, IdleHolds DEF Quiet
  <2>5. QED
    BY <1>5, <2>1, <2>2, <2>3, <2>4, Zenon DEF DeleteStep
<1>6. ASSUME NEW f \in FileId, NEW p \in Path, Rename(f, p) PROVE Balance'
  <2>1. UNCHANGED <<storage, reqs>> /\ \A g \in FileId : rows'[g].size = rows[g].size
    BY <1>6, RenameDoes
  <2>2. SizeColumn(rows') = SizeColumn(rows) /\ Pending' = Pending
    BY <2>1 DEF SizeColumn, Pending, Copied
  <2>3. QED
    BY <2>1, <2>2, BalanceStays
<1>7. CASE Crash
  <2>1. UNCHANGED <<rows, storage>> /\ ~Calm' /\ \A r \in Req : Copied(r)' = {}
    BY <1>7, CrashDoes, IdleHolds DEF Quiet, Calm, Copied
  <2>2. \A f \in FileId : Pending'[f] = 0
    BY <2>1 DEF Pending
  <2>3. Owed' = 0
    BY <2>2, TotalZero DEF Owed
  <2>4. Used' = Used
    BY <2>1 DEF Used
  <2>5. storage + Owed <= Used
    BY Zenon DEF Balance
  <2>6. storage + 0 <= Used
    BY <2>5, SumTypes DEF Types
  <2>7. QED
    BY <2>1, <2>3, <2>4, <2>6 DEF Balance
<1>8. CASE Next
  BY <1>8, <1>1, <1>2, <1>3, <1>4, <1>5, <1>6, <1>7, Zenon DEF Next
<1>9. CASE UNCHANGED vars
  BY <1>9, BalanceStays DEF vars, Pending, Copied
<1>10. QED
  BY <1>8, <1>9

(* Pairs of a file and a handler that has copied it are as many as files,   *)
(* since handlers work on different ones.                                   *)
LEMMA UnchargedIsOwed ==
  ASSUME Types, Alone
  PROVE  Uncharged = Owed
<1> DEFINE col == [c \in FileId \X Req |->
                     IF reqs[c[2]].pc = "copy" /\ c[1] \in reqs[c[2]].target \ reqs[c[2]].todo
                       THEN reqs[c[2]].seen[c[1]].size ELSE 0]
           S   == Blocks(FileId \X Req, col)
           T   == Blocks(FileId, Pending)
           F   == [b \in S |-> <<b[1][1], b[2]>>]
<1>1. ASSUME NEW f \in FileId, NEW r \in Req
      PROVE  /\ col[<<f, r>>] = IF f \in Copied(r) THEN rows[f].size ELSE 0
             /\ f \in Copied(r) => Pending[f] = rows[f].size
  BY DEF Copied, Pending, Alone, Holds
<1>2. ASSUME NEW f \in FileId, NEW r \in Req, NEW q \in Req, f \in Copied(r), f \in Copied(q)
      PROVE  r = q
  BY <1>2, CopiedRows DEF Alone
<1> HIDE DEF col
<1>3. ASSUME NEW b \in S
      PROVE  \E f \in FileId, r \in Req, n \in 1..MaxSize :
               b = <<<<f, r>>, n>> /\ f \in Copied(r) /\ n <= rows[f].size
  <2>1. PICK f \in FileId, r \in Req, n \in 1..MaxSize : b = <<<<f, r>>, n>> /\ n <= col[<<f, r>>]
    BY DEF Blocks
  <2>2. f \in Copied(r) /\ n <= rows[f].size
    BY <1>1, <2>1, SizesNat
  <2>3. QED
    BY <2>1, <2>2
<1>4. F \in [S -> T]
  <2>1. ASSUME NEW b \in S PROVE <<b[1][1], b[2]>> \in T
    <3>1. PICK f \in FileId, r \in Req, n \in 1..MaxSize :
            b = <<<<f, r>>, n>> /\ f \in Copied(r) /\ n <= rows[f].size
      BY <1>3
    <3>2. QED
      BY <1>1, <3>1 DEF Blocks
  <2>2. QED
    BY <2>1
<1>5. \A a, b \in S : F[a] = F[b] => a = b
  <2> SUFFICES ASSUME NEW a \in S, NEW b \in S, F[a] = F[b] PROVE a = b
    OBVIOUS
  <2>1. PICK f \in FileId, r \in Req, n \in 1..MaxSize : a = <<<<f, r>>, n>> /\ f \in Copied(r)
    BY <1>3
  <2>2. PICK g \in FileId, q \in Req, m \in 1..MaxSize : b = <<<<g, q>>, m>> /\ g \in Copied(q)
    BY <1>3
  <2>3. f = g /\ n = m
    BY <2>1, <2>2
  <2>4. QED
    BY <1>2, <2>1, <2>2, <2>3
<1>6. \A t \in T : \E b \in S : F[b] = t
  <2> SUFFICES ASSUME NEW t \in T PROVE \E b \in S : F[b] = t
    OBVIOUS
  <2>1. PICK f \in FileId, n \in 1..MaxSize : t = <<f, n>> /\ n <= Pending[f]
    BY DEF Blocks
  <2>2. PICK r \in Req : f \in Copied(r)
    BY <2>1, SizesNat DEF Pending
  <2>3. <<<<f, r>>, n>> \in S
    BY <1>1, <2>1, <2>2 DEF Blocks
  <2>4. F[<<<<f, r>>, n>>] = t
    BY <2>1, <2>3
  <2>5. QED
    BY <2>3, <2>4
<1>7. IsFiniteSet(T)
  BY BlocksFinite, FileIdFinite
<1> HIDE DEF S, T, F
<1>8. F \in Injection(S, T) /\ F \in Surjection(S, T)
  BY <1>4, <1>5, <1>6 DEF Injection, Surjection, IsInjective
<1>9. Cardinality(S) = Cardinality(T)
  BY <1>7, <1>8, FS_Injection
<1>10. Uncharged = Cardinality(S) /\ Owed = Cardinality(T)
  BY DEF Uncharged, Owed, Total, S, T, col
<1>11. QED
  BY <1>9, <1>10

(* The counter is the sum of the sizes of the rows but for the soft links   *)
(* of copies that are still running, as long as nothing but removals fails, *)
(* and never more than that sum whatever fails: File.Create, UpdateSize,    *)
(* Copy and DeleteFiles charge what they have done.  Requests about one row *)
(* must not overlap: UpdateSize charges even when it does not find its row. *)
THEOREM ChargedAlways ==
  ASSUME ~Overlap
  PROVE  Spec => []Charged
<1> DEFINE IInv == Types /\ Alone /\ Balance
<1>1. Init => IInv
  BY TypesInit, AloneInit, BalanceInit DEF Types, TypeOK
<1>2. IInv /\ [Next]_vars => IInv'
  <2> SUFFICES ASSUME IInv, [Next]_vars PROVE IInv'
    OBVIOUS
  <2>1. fault' = fault
    BY DEF Next, vars
  <2>2. QED
    BY <2>1, TypesNext, AloneNext, BalanceNext
<1>3. IInv => Charged
  <2> SUFFICES ASSUME IInv PROVE Charged
    OBVIOUS
  <2>1. Uncharged = Owed
    BY UnchargedIsOwed
  <2>2. storage + Owed <= Used
    BY Zenon DEF Balance
  <2>3. storage <= Used
    BY <2>2, SumTypes DEF Types
  <2>4. QED
    BY <2>1, <2>3 DEF Charged, Balance
<1>4. QED
  BY <1>1, <1>2, <1>3, PTL DEF Spec

-----------------------------------------------------------------------------
(* Physical files.                                                          *)

(* What a handler does to other rows and files: nothing.  It gives a row it *)
(* works on, or a new one, a name that only it knows or that of a row it    *)
(* copies, and writes or removes only a file that is new or its own.        *)
Mine(r, s) ==
  \/ s = reqs[r].src /\ Fresh(s, r)
  \/ \E f \in reqs[r].target : rows[f].src = s /\ Sole(f)

RowsProper(r) == \A f \in FileId :
  \/ /\ rows'[f].src = rows[f].src /\ rows'[f].state = rows[f].state
     /\ rows'[f].size = rows[f].size \/ f \in reqs[r].target
  \/ f \in reqs[r].target /\ rows'[f].state = "gone" /\ rows'[f].src = NoPath
  \/ /\ f \in reqs[r].target \/ f \notin Live
     /\ rows'[f].src = reqs[r].src /\ Fresh(reqs[r].src, r)
  \/ /\ f \notin Live
     /\ \E h \in reqs[r].target : rows'[f].src = rows[h].src /\ rows'[f].src = reqs[r].seen[h].src

DiskProper(r) == \A s \in Source : disk'[s] = disk[s] \/ Mine(r, s)

Learns(r) ==
  /\ \/ reqs'[r].src \in {reqs[r].src, NoPath}
     \/ ~Mentioned(reqs'[r].src)
     \/ \E f \in FileId : reqs'[r].src = reqs[r].seen[f].src
  /\ \A f \in FileId : reqs'[r].seen[f].src \in {reqs[r].seen[f].src, rows[f].src, NoPath}

Proper(r) == RowsProper(r) /\ DiskProper(r) /\ Learns(r)

LEMMA KeyNames == \A s \in Key : s \in Source /\ s # NoPath
  BY NullsOk DEF Source

(* A handler that makes a file goes on knowing it alone.                    *)
LEMMA FreshStays ==
  ASSUME Types, NEW r \in Req, NEW q \in Req \ {r}, Others(r), Proper(r), Fresh(reqs[q].src, q)
  PROVE  Fresh(reqs[q].src, q)'
<1> DEFINE s == reqs[q].src
<1>1. /\ s \in Key /\ s # NoPath /\ reqs'[q] = reqs[q]
      /\ \A f \in FileId : rows[f].src # s
      /\ \A p \in Req : (p # q => reqs[p].src # s) /\ \A f \in FileId : reqs[p].seen[f].src # s
  BY KeyNames DEF Fresh, Others
<1>2. \A f \in FileId : rows'[f].src # s
  <2>1. \A h \in reqs[r].target : h \in FileId
    BY Fields DEF Types
  <2>2. QED
    BY <1>1, <2>1 DEF Proper, RowsProper
<1>3. reqs'[r].src # s /\ \A f \in FileId : reqs'[r].seen[f].src # s
  <2>1. Mentioned(s)
    BY DEF Mentioned
  <2>2. QED
    BY <1>1, <2>1 DEF Proper, Learns
<1>4. \A p \in Req : (p # q => reqs'[p].src # s) /\ \A f \in FileId : reqs'[p].seen[f].src # s
  BY <1>1, <1>3 DEF Others
<1>5. QED
  BY <1>1, <1>2, <1>4 DEF Fresh

(* The rows of the other handlers are left alone.                           *)
LEMMA RowStays ==
  ASSUME Types, Alone, NEW r \in Req, Proper(r), NEW f \in Live, f \notin reqs[r].target
  PROVE  /\ rows'[f].src = rows[f].src /\ rows'[f].state = rows[f].state
         /\ rows'[f].size = rows[f].size /\ f \in Live'
  BY DEF Proper, RowsProper, Live

LEMMA SoleStays ==
  ASSUME Types, Alone, NEW r \in Req, Proper(r), NEW f \in Live, f \notin reqs[r].target, Sole(f)
  PROVE  Sole(f)'
<1>1. rows'[f].src = rows[f].src /\ f \in FileId
  BY RowStays DEF Live
<1>2. ASSUME NEW g \in Live' \ {f} PROVE rows'[g].src # rows[f].src
  <2>1. g \in FileId /\ rows'[g].state = "live"
    BY DEF Live
  <2>2. CASE rows'[g].src = rows[g].src /\ rows'[g].state = rows[g].state
    BY <2>1, <2>2 DEF Sole, Live
  <2>3. CASE rows'[g].src = reqs[r].src /\ Fresh(reqs[r].src, r)
    BY <1>1, <2>3 DEF Fresh
  <2>4. CASE \E h \in reqs[r].target : rows'[g].src = rows[h].src
    <3>1. PICK h \in reqs[r].target : rows'[g].src = rows[h].src
      BY <2>4
    <3>2. h \in Live /\ h # f
      BY DEF Alone, Holds
    <3>3. QED
      BY <3>1, <3>2 DEF Sole
  <2>5. QED
    BY <2>1, <2>2, <2>3, <2>4 DEF Proper, RowsProper
<1>3. QED
  BY <1>1, <1>2 DEF Sole

(* So are the physical files of the rows, and the new ones.                 *)
LEMMA DiskStays ==
  ASSUME Types, Alone, NEW r \in Req, Proper(r), NEW f \in Live, f \notin reqs[r].target,
         rows[f].src \in Key
  PROVE  disk'[rows[f].src] = disk[rows[f].src]
<1>1. ~Mine(r, rows[f].src)
  <2>1. f \in FileId
    BY DEF Live
  <2>2. QED
    BY <2>1 DEF Mine, Fresh, Sole
<1>2. QED
  BY <1>1, KeyNames DEF Proper, DiskProper

LEMMA NewStays ==
  ASSUME Types, Alone, NEW r \in Req, Proper(r), NEW q \in Req \ {r}, Fresh(reqs[q].src, q)
  PROVE  disk'[reqs[q].src] = disk[reqs[q].src]
<1>1. ~Mine(r, reqs[q].src)
  <2>1. \A f \in reqs[r].target : f \in FileId
    BY Fields DEF Types
  <2>2. QED
    BY <2>1 DEF Mine, Fresh
<1>2. QED
  BY <1>1, KeyNames DEF Proper, DiskProper, Fresh

LEMMA StageStays ==
  ASSUME Types, Alone, Files, NEW r \in Req, NEW q \in Req \ {r}, Others(r), Proper(r)
  PROVE  Stage(q)'
<1>1. reqs'[q] = reqs[q] /\ Stage(q)
  BY DEF Others, Files
<1>2. ASSUME NEW f \in reqs[q].target
      PROVE  /\ f \in Live /\ f \notin reqs[r].target
             /\ rows'[f].src = rows[f].src
             /\ disk'[rows[f].src] = disk[rows[f].src]
             /\ Sole(f) => Sole(f)'
  <2>1. f \in Live /\ f \notin reqs[r].target
    BY DEF Alone, Holds
  <2>2. rows[f].src \in Key
    BY <2>1 DEF Files, Whole
  <2>3. QED
    BY <2>1, <2>2, RowStays, DiskStays, SoleStays
<1>3. MakesNew(q)' => Fresh(reqs[q].src, q)'
  BY <1>1, FreshStays DEF Stage, MakesNew
<1>4. ChangesOwn(q)' => \A f \in reqs[q].target : rows'[f].src = reqs[q].src /\ Sole(f)'
  BY <1>1, <1>2 DEF Stage, ChangesOwn
<1>5. reqs[q].pc \in {"check", "insert", "relink"} => disk'[reqs[q].src] = reqs[q].size
  <2>1. ASSUME reqs[q].pc \in {"check", "insert", "relink"} PROVE disk'[reqs[q].src] = reqs[q].size
    <3>1. MakesNew(q) /\ disk[reqs[q].src] = reqs[q].size
      BY <1>1, <2>1 DEF Stage, MakesNew
    <3>2. QED
      BY <1>1, <3>1, NewStays DEF Stage
  <2>2. QED
    BY <2>1
<1>6. reqs[q].pc = "resize" =>
        \A f \in reqs[q].target : rows'[f].src = reqs[q].src /\ disk'[reqs[q].src] = reqs[q].size
  BY <1>1, <1>2 DEF Stage
<1>7. reqs[q].pc = "unlink" => \A f \in reqs[q].todo : Sole(f)'
  <2>1. reqs[q].todo \subseteq reqs[q].target
    BY DEF Alone, Holds
  <2>2. QED
    BY <1>1, <1>2, <2>1 DEF Stage
<1>8. reqs[q].pc \notin {"resize", "commit"} =>
        \A f \in reqs[q].target : reqs[q].seen[f].src = rows'[f].src
  BY <1>1, <1>2 DEF Stage
<1>9. /\ reqs[q].pc \notin {"discard", "relinkAgain", "clean", "clear"}
      /\ reqs[q].pc = "links" => reqs[q].link = "own"
  BY <1>1 DEF Stage
<1>10. QED
  BY <1>1, <1>3, <1>4, <1>5, <1>6, <1>7, <1>8, <1>9 DEF Stage

LEMMA WholeStays ==
  ASSUME Types, Alone, Files, NEW r \in Req, Others(r), Proper(r),
         NEW f \in Live, f \notin reqs[r].target
  PROVE  Whole(f)'
<1>1. Whole(f)
  BY DEF Files
<1>2. /\ rows'[f].src = rows[f].src /\ rows'[f].size = rows[f].size
      /\ disk'[rows[f].src] = disk[rows[f].src]
  BY <1>1, RowStays, DiskStays DEF Whole
<1>3. ASSUME NEW q \in Req, f \in reqs[q].target PROVE reqs'[q] = reqs[q]
  BY <1>3 DEF Others
<1>4. QED
  BY <1>1, <1>2, <1>3 DEF Whole

LEMMA FilesStep ==
  ASSUME Types, Alone, Files, NEW r \in Req, Others(r), Proper(r), Stage(r)',
         \A f \in Live' : f \in reqs[r].target \/ f \notin Live => Whole(f)'
  PROVE  Files'
<1>1. \A q \in Req : Stage(q)'
  BY StageStays
<1>2. \A f \in Live' : Whole(f)'
  BY WholeStays
<1>3. QED
  BY <1>1, <1>2 DEF Files

(* The row of a handler that has not changed its physical file.             *)
LEMMA StillWhole ==
  ASSUME Types, Alone, Files, NEW r \in Req, reqs[r].pc \notin {"resize", "commit"},
         NEW f \in reqs[r].target
  PROVE  /\ f \in Live /\ rows[f].src \in Key
         /\ disk[rows[f].src] = rows[f].size
<1>1. f \in Live
  BY DEF Alone, Holds
<1>2. QED
  BY <1>1 DEF Files, Whole, Alone

(* A step that changes neither table nor disk.                              *)
LEMMA QuietStep ==
  ASSUME Types, Alone, Files, NEW r \in Req, Others(r), UNCHANGED <<rows, disk>>,
         reqs[r].pc \notin {"resize", "commit"}, Learns(r), Stage(r)'
  PROVE  Proper(r) /\ Files'
<1>1. Proper(r)
  BY DEF Proper, RowsProper, DiskProper
<1>2. \A f \in Live' : f \in reqs[r].target \/ f \notin Live => Whole(f)'
  BY StillWhole DEF Whole, Live
<1>3. QED
  BY <1>1, <1>2, FilesStep

LEMMA StageIdle ==
  ASSUME NEW r \in Req, Ended(r)
  PROVE  Stage(r)' /\ Learns(r)
<1>1. \A f \in FileId : Unseen[f].src = NoPath
  BY DEF Unseen, Blank
<1>2. QED
  BY <1>1, IdleHolds DEF Stage, MakesNew, ChangesOwn, Learns

LEMMA KeptLearns ==
  ASSUME NEW r \in Req, Kept(r)
  PROVE  Learns(r)
  BY DEF Kept, Learns

(* What makes a new name one that only the handler knows.                   *)
LEMMA FreshArises ==
  ASSUME NEW r \in Req, Others(r), UNCHANGED <<rows, disk>>,
         reqs'[r].src \in Key, ~Mentioned(reqs'[r].src),
         \A f \in FileId : reqs'[r].seen[f].src \in {reqs[r].seen[f].src, rows[f].src, NoPath}
  PROVE  Fresh(reqs[r].src, r)'
<1> DEFINE s == reqs'[r].src
<1>1. /\ s \in Key /\ s # NoPath
      /\ \A f \in FileId : rows[f].src # s
      /\ \A q \in Req : reqs[q].src # s /\ \A f \in FileId : reqs[q].seen[f].src # s
  BY KeyNames DEF Mentioned
<1> HIDE DEF s
<1>2. \A q \in Req : (q # r => reqs'[q].src # s) /\ \A f \in FileId : reqs'[q].seen[f].src # s
  BY <1>1 DEF Others
<1>3. QED
  BY <1>1, <1>2 DEF Fresh, s

LEMMA FreshKept ==
  ASSUME NEW r \in Req, Others(r), Kept(r), UNCHANGED rows, Fresh(reqs[r].src, r)
  PROVE  Fresh(reqs[r].src, r)'
  BY DEF Fresh, Others, Kept

-----------------------------------------------------------------------------
(* Uploads.                                                                 *)

LEMMA ArrivalFiles ==
  ASSUME AutoRename, Types, Alone, Files, NEW r \in Req, Arrival(r)
  PROVE  Proper(r) /\ Files'
<1>1. Others(r) /\ Quiet /\ reqs[r].pc = "idle" /\ Takes(r, reqs'[r].target)
  BY ArrivalDoes
<1>2. /\ \A f \in FileId : reqs'[r].seen[f].src \in {rows[f].src, NoPath}
      /\ \A f \in reqs'[r].target : f \in FileId /\ reqs'[r].seen[f].src = rows[f].src
  BY <1>1 DEF Takes, Fetched, Blank, Live
<1>3. CASE /\ reqs'[r].pc = "probe" /\ reqs'[r].target = {}
           /\ \E p \in Path : reqs'[r].src \in GenerateSavePath(p)
  <2>1. reqs'[r].src \in Key /\ ~Mentioned(reqs'[r].src)
    BY <1>3 DEF GenerateSavePath
  <2>2. Fresh(reqs[r].src, r)' /\ Learns(r)
    BY <1>1, <1>2, <2>1, FreshArises DEF Quiet, Learns
  <2>3. Stage(r)'
    BY <1>3, <2>2 DEF Stage, ChangesOwn
  <2>4. QED
    BY <1>1, <2>2, <2>3, QuietStep DEF Quiet
<1>4. CASE /\ reqs'[r].pc \in {"links", "filter", "copy"} /\ reqs'[r].src = NoPath
           /\ reqs'[r].pc = "links" => reqs'[r].link = "own"
  <2>1. Learns(r)
    BY <1>2, <1>4 DEF Learns
  <2>2. Stage(r)'
    BY <1>1, <1>2, <1>4 DEF Stage, MakesNew, ChangesOwn, Quiet
  <2>3. QED
    BY <1>1, <2>1, <2>2, QuietStep DEF Quiet
<1>5. QED
  BY <1>3, <1>4, ArrivalDoes

LEMMA ProbeFileFiles ==
  ASSUME Types, Alone, Files, NEW r \in Req, ProbeFile(r)
  PROVE  Proper(r) /\ Files'
<1>1. Others(r) /\ Quiet /\ reqs[r].pc = "probe" /\ Stage(r)
  BY ProbeFileDoes DEF Files
<1>2. CASE Ended(r)
  BY <1>1, <1>2, StageIdle, QuietStep DEF Quiet
<1>3. CASE reqs'[r].pc = "write" /\ Kept(r)
  <2>1. MakesNew(r)' => Fresh(reqs[r].src, r)'
    BY <1>1, <1>3, FreshKept DEF Stage, MakesNew, Kept, Quiet
  <2>2. ChangesOwn(r)' => \A f \in reqs'[r].target : rows'[f].src = reqs'[r].src /\ Sole(f)'
    BY <1>1, <1>3 DEF Stage, ChangesOwn, Kept, Quiet, Sole, Live
  <2>3. Stage(r)'
    BY <1>1, <1>3, <2>1, <2>2 DEF Stage, Kept, Quiet
  <2>4. QED
    BY <1>1, <1>3, <2>3, KeptLearns, QuietStep DEF Quiet
<1>4. QED
  BY <1>2, <1>3, ProbeFileDoes

LEMMA CheckNameFiles ==
  ASSUME Types, Alone, Files, NEW r \in Req, CheckName(r)
  PROVE  Proper(r) /\ Files'
<1>1. /\ Others(r) /\ Quiet /\ reqs[r].pc = "check" /\ Stage(r)
      /\ reqs'[r].pc \in {"discardAgain", "insert"} /\ Kept(r)
  BY CheckNameDoes DEF Files
<1>2. Fresh(reqs[r].src, r)'
  BY <1>1, FreshKept DEF Stage, MakesNew, Quiet
<1>3. Stage(r)'
  BY <1>1, <1>2 DEF Stage, ChangesOwn, Kept, Quiet
<1>4. QED
  BY <1>1, <1>3, KeptLearns, QuietStep DEF Quiet

LEMMA WriteFileFiles ==
  ASSUME Calm, Types, Alone, Files, NEW r \in Req, WriteFile(r)
  PROVE  Proper(r) /\ Files'
<1>1. /\ Others(r) /\ UNCHANGED rows /\ reqs[r].pc = "write" /\ Stage(r)
      /\ disk' = [disk EXCEPT ![reqs[r].src] = reqs[r].size]
      /\ reqs'[r].pc = AfterPut(r) /\ Kept(r)
  BY WriteFileDoes DEF Calm, Files
<1>2. /\ \A s \in Source : s # reqs[r].src => disk'[s] = disk[s]
      /\ reqs[r].src \in Source => disk'[reqs[r].src] = reqs[r].size
  BY <1>1 DEF Types
<1>3. \A f \in reqs[r].target :
        /\ f \in Live /\ rows[f].src \in Source /\ rows[f].src \in Key
        /\ disk[rows[f].src] = rows[f].size /\ reqs[r].seen[f].src = rows[f].src
  BY <1>1, StillWhole, KeyNames DEF Stage
<1>4. reqs[r].link \in {"own", "fresh"}
  BY Fields DEF Types
<1>5. RowsProper(r) /\ Learns(r)
  BY <1>1, KeptLearns DEF RowsProper
<1>6. CASE reqs[r].target = {} \/ reqs[r].link = "fresh"
  <2>1. Fresh(reqs[r].src, r) /\ reqs[r].src \in Source
    BY <1>1, <1>6, KeyNames DEF Stage, MakesNew, Fresh
  <2>2. Proper(r)
    BY <1>2, <1>5, <2>1 DEF Proper, DiskProper, Mine
  <2>3. Fresh(reqs[r].src, r)'
    BY <1>1, <2>1, FreshKept
  <2>4. reqs'[r].pc \in {"check", "relink"}
    BY <1>1, <1>6 DEF AfterPut
  <2>5. Stage(r)'
    BY <1>1, <1>2, <1>3, <2>1, <2>3, <2>4 DEF Stage, MakesNew, ChangesOwn, Kept
  <2>6. \A f \in reqs[r].target : Whole(f)'
    <3>1. \A f \in reqs[r].target : rows[f].src # reqs[r].src
      BY <1>3, <2>1 DEF Fresh, Live
    <3>2. QED
      BY <1>1, <1>2, <1>3, <3>1 DEF Whole
  <2>7. QED
    BY <1>1, <2>2, <2>5, <2>6, FilesStep DEF Live
<1>7. CASE reqs[r].target # {} /\ reqs[r].link = "own"
  <2>1. \A f \in reqs[r].target : rows[f].src = reqs[r].src /\ Sole(f)
    BY <1>1, <1>7 DEF Stage, ChangesOwn
  <2>2. Proper(r) /\ reqs[r].src \in Source
    BY <1>2, <1>3, <1>5, <1>7, <2>1 DEF Proper, DiskProper, Mine
  <2>3. reqs'[r].pc = "resize"
    BY <1>1, <1>7 DEF AfterPut
  <2>4. \A f \in reqs[r].target : Sole(f)'
    BY <1>1, <2>1 DEF Sole, Live
  <2>5. Stage(r)'
    BY <1>1, <1>2, <2>1, <2>2, <2>3, <2>4 DEF Stage, MakesNew, Kept
  <2>6. \A f \in reqs[r].target : Whole(f)'
    BY <1>1, <1>3, <2>3 DEF Whole, Kept
  <2>7. QED
    BY <1>1, <2>2, <2>5, <2>6, FilesStep DEF Live
<1>8. QED
  BY <1>4, <1>6, <1>7

LEMMA InsertFileFiles ==
  ASSUME Types, Alone, Files, NEW r \in Req, NEW f \in FileId, InsertFile(r, f)
  PROVE  Proper(r) /\ Files'
<1>1. /\ Others(r) /\ Ended(r) /\ UNCHANGED disk /\ reqs[r].pc = "insert" /\ Stage(r)
      /\ f \notin Live
      /\ rows'[f].state = "live" /\ rows'[f].src = reqs[r].src
      /\ rows'[f].size = reqs[r].size
      /\ \A g \in FileId \ {f} : rows'[g] = rows[g]
  BY InsertFileDoes DEF Files, Live
<1>2. Fresh(reqs[r].src, r) /\ disk[reqs[r].src] = reqs[r].size
  BY <1>1 DEF Stage, MakesNew
<1>3. Proper(r) /\ Stage(r)'
  BY <1>1, <1>2, StageIdle DEF Proper, RowsProper, DiskProper
<1>4. ASSUME NEW g \in Live', g \in reqs[r].target \/ g \notin Live PROVE Whole(g)'
  <2>1. CASE g = f
    BY <1>1, <1>2, <2>1 DEF Whole, Fresh
  <2>2. CASE g # f
    <3>1. g \in FileId /\ rows'[g] = rows[g] /\ g \in reqs[r].target
      BY <1>1, <1>4, <2>2 DEF Live
    <3>2. QED
      BY <1>1, <3>1, StillWhole DEF Whole
  <2>3. QED
    BY <2>1, <2>2
<1>5. QED
  BY <1>1, <1>3, <1>4, FilesStep

LEMMA DiscardFileFiles ==
  ASSUME Types, Alone, Files, NEW r \in Req, DiscardFile(r)
  PROVE  Proper(r) /\ Files'
<1>1. /\ Others(r) /\ Ended(r) /\ UNCHANGED rows /\ reqs[r].pc = "discardAgain" /\ Stage(r)
      /\ disk' = [disk EXCEPT ![reqs[r].src] = NoFile] \/ UNCHANGED disk
  BY DiscardFileDoes DEF Files, Stage
<1>2. Fresh(reqs[r].src, r)
  BY <1>1 DEF Stage, MakesNew
<1>3. \A s \in Source : s # reqs[r].src => disk'[s] = disk[s]
  BY <1>1 DEF Types
<1>4. Proper(r) /\ Stage(r)'
  BY <1>1, <1>2, <1>3, StageIdle DEF Proper, RowsProper, DiskProper, Mine
<1>5. ASSUME NEW f \in reqs[r].target PROVE Whole(f)'
  <2>1. f \in Live /\ rows[f].src \in Key /\ disk[rows[f].src] = rows[f].size
    BY <1>1, StillWhole
  <2>2. rows[f].src # reqs[r].src
    BY <1>2, <2>1 DEF Fresh, Live
  <2>3. QED
    BY <1>1, <1>3, <2>1, <2>2, KeyNames DEF Whole
<1>6. QED
  BY <1>1, <1>4, <1>5, FilesStep DEF Live

-----------------------------------------------------------------------------
(* Overwriting.                                                             *)

LEMMA FindLinksFiles ==
  ASSUME AutoRename, Calm, Types, Alone, Files, NEW r \in Req, NEW f \in FileId, FindLinks(r, f)
  PROVE  Proper(r) /\ Files'
<1>1. /\ Others(r) /\ Quiet /\ Stage(r)
      /\ reqs[r].pc = "links" /\ reqs[r].target = {f}
      /\ reqs'[r].pc = "probe" /\ reqs'[r].target = {f} /\ reqs'[r].seen = reqs[r].seen
      /\ reqs[r].link = "own" /\ reqs[r].seen[f].src = rows[f].src
  BY FindLinksDoes DEF Files, Stage
<1>2. CASE reqs'[r].link = "fresh" /\ reqs'[r].src \in NewSource
  <2>1. reqs'[r].src \in Key /\ ~Mentioned(reqs'[r].src)
    BY <1>2 DEF NewSource, GenerateSavePath
  <2>2. Fresh(reqs[r].src, r)' /\ Learns(r)
    BY <1>1, <2>1, FreshArises DEF Quiet, Learns
  <2>3. Stage(r)'
    BY <1>1, <1>2, <2>2 DEF Stage, ChangesOwn, Quiet
  <2>4. QED
    BY <1>1, <2>2, <2>3, QuietStep DEF Quiet
<1>3. CASE /\ ~HasSoftLinks(r, f) \/ fault = "links"
           /\ reqs'[r].src = reqs[r].seen[f].src /\ reqs'[r].link = reqs[r].link
  <2>1. Sole(f) /\ reqs'[r].src = rows[f].src
    BY <1>1, <1>3 DEF HasSoftLinks, Sole, Calm
  <2>2. Learns(r)
    BY <1>1, <1>3 DEF Learns
  <2>3. Sole(f)'
    BY <1>1, <2>1 DEF Sole, Live, Quiet
  <2>4. Stage(r)'
    BY <1>1, <1>3, <2>1, <2>3 DEF Stage, MakesNew, Quiet
  <2>5. QED
    BY <1>1, <2>2, <2>4, QuietStep DEF Quiet
<1>4. QED
  BY <1>2, <1>3, FindLinksDoes

LEMMA RelinkFileFiles ==
  ASSUME Calm, Types, Alone, Files, NEW r \in Req, NEW f \in FileId, RelinkFile(r, f)
  PROVE  Proper(r) /\ Files'
<1>1. /\ Others(r) /\ UNCHANGED disk /\ Kept(r) /\ Stage(r)
      /\ reqs[r].pc = "relink" /\ reqs[r].target = {f}
      /\ reqs'[r].pc = "resize" /\ UpdateSourceName(r, f)
  BY RelinkFileDoes DEF Files, Calm
<1>2. f \in Live
  BY <1>1 DEF Alone, Holds
<1>3. /\ \A g \in FileId \ {f} : rows'[g] = rows[g]
      /\ rows'[f].size = rows[f].size /\ rows'[f].state = rows[f].state
      /\ rows'[f].src = reqs[r].src
  BY <1>1, <1>2, UpdateSourceNameDoes
<1>4. Fresh(reqs[r].src, r) /\ disk[reqs[r].src] = reqs[r].size
  BY <1>1 DEF Stage, MakesNew
<1>5. Proper(r)
  BY <1>1, <1>3, <1>4, KeptLearns DEF Proper, RowsProper, DiskProper
<1>6. Sole(f)'
  BY <1>3, <1>4 DEF Sole, Fresh, Live
<1>7. Stage(r)'
  BY <1>1, <1>3, <1>4, <1>6 DEF Stage, MakesNew, Kept
<1>8. Whole(f)'
  BY <1>1, <1>3, <1>4 DEF Whole, Kept, Fresh
<1>9. \A g \in Live' : g \in reqs[r].target \/ g \notin Live => Whole(g)'
  BY <1>1, <1>3, <1>8 DEF Live
<1>10. QED
  BY <1>1, <1>5, <1>7, <1>9, FilesStep

(* What a handler gives back has been charged.                              *)
LEMMA Covered ==
  ASSUME Types, Alone, Balance, Calm, NEW r \in Req, reqs[r].pc # "copy"
  PROVE  storage >= SeenTotal(r, reqs[r].target)
<1> DEFINE mine  == [f \in FileId |-> IF f \in reqs[r].target THEN reqs[r].seen[f].size ELSE 0]
           both  == [f \in FileId |-> IF f \in reqs[r].target THEN rows[f].size ELSE Pending[f]]
           inner == [f \in FileId |-> IF f \in reqs[r].target THEN both[f] ELSE 0]
           outer == [f \in FileId |-> IF f \in reqs[r].target THEN 0 ELSE both[f]]
           col   == SizeColumn(rows)
<1>1. col \in Sizes(FileId) /\ Pending \in Sizes(FileId)
  BY SizeColumnType, PendingType DEF Types
<1>2. ASSUME NEW f \in FileId
      PROVE  /\ both[f] \in 0..MaxSize
             /\ both[f] <= col[f]
             /\ f \in reqs[r].target => Pending[f] = 0 /\ reqs[r].seen[f].size = rows[f].size
  <2>1. rows[f].size \in 0..MaxSize /\ 0 \in 0..MaxSize
    BY SizesNat DEF Types, Row
  <2>2. Pending[f] \in {0, rows[f].size} /\ col[f] = rows[f].size
    BY DEF Pending, SizeColumn
  <2>3. f \in reqs[r].target => Pending[f] = 0 /\ reqs[r].seen[f].size = rows[f].size
    <3>1. ASSUME f \in reqs[r].target, NEW q \in Req, f \in Copied(q) PROVE FALSE
      BY <3>1, CopiedRows DEF Alone
    <3>2. QED
      BY <3>1 DEF Pending, Alone, Holds
  <2>4. QED
    BY <2>1, <2>2, <2>3, SizesNat
<1>3. both \in Sizes(FileId)
  BY <1>2 DEF Sizes
<1>4. mine = inner /\ Pending = outer
  <2>1. mine = inner
    BY <1>2
  <2>2. Pending = outer
    BY <1>1, <1>2 DEF Sizes
  <2>3. QED
    BY <2>1, <2>2
<1>5. Total(FileId, both) <= Total(FileId, col)
  <2> HIDE DEF both, col
  <2>1. QED
    BY <1>1, <1>2, <1>3, FileIdFinite, TotalMonotone
<1>6. Total(FileId, both) = Total(FileId, inner) + Total(FileId, outer)
  <2> HIDE DEF both
  <2>1. QED
    BY <1>3, FileIdFinite, TotalSplit
<1>7. /\ Used = Total(FileId, col) /\ Owed = Total(FileId, outer)
      /\ SeenTotal(r, reqs[r].target) = Total(FileId, inner)
  BY <1>4 DEF Used, Owed, SeenTotal
<1>8. Total(FileId, inner) \in Nat /\ Total(FileId, both) \in Nat
  BY BlocksFinite, FileIdFinite
<1>9. storage + Owed = Used
  BY Zenon DEF Balance
<1> HIDE DEF mine, both, inner, outer, col
<1>10. QED
  BY <1>5, <1>6, <1>7, <1>8, <1>9, SumTypes DEF Types

(* The same for a handler that works on one row.                            *)
LEMMA CoveredOne ==
  ASSUME Types, Alone, Balance, Calm, NEW r \in Req, reqs[r].pc # "copy",
         NEW f \in FileId, reqs[r].target = {f}
  PROVE  storage >= reqs[r].seen[f].size
<1> DEFINE n == reqs[r].seen[f].size
<1>1. n \in 0..MaxSize
  BY Fields DEF Types, Row
<1>2. [g \in FileId |-> IF g \in {f} THEN reqs[r].seen[g].size ELSE 0]
        = [g \in FileId |-> IF g \in {f} THEN n ELSE 0]
  OBVIOUS
<1>3. Total(FileId, [g \in FileId |-> IF g \in {f} THEN n ELSE 0]) = n
  <2> HIDE DEF n
  <2>1. QED
    BY <1>1, TotalSingle
<1>4. SeenTotal(r, {f}) = n
  BY <1>2, <1>3, Zenon DEF SeenTotal
<1>5. QED
  BY <1>4, Covered

LEMMA GenericAfterUpdateFiles ==
  ASSUME Calm, Types, Alone, Balance, Files, NEW r \in Req, NEW f \in FileId,
         GenericAfterUpdate(r, f)
  PROVE  Proper(r) /\ Files'
<1>1. /\ Others(r) /\ UNCHANGED disk /\ Stage(r)
      /\ reqs[r].pc = "resize" /\ reqs[r].target = {f}
  BY GenericAfterUpdateDoes DEF Files
<1>2. reqs[r].seen[f].size \in 0..MaxSize /\ reqs[r].size \in 0..MaxSize
  BY Fields DEF Types, Row
<1>3. ~RollbackSize(reqs[r].seen[f].size, reqs[r].size)
  BY <1>1, <1>2, CoveredOne, SizesNat DEF RollbackSize, Calm, Types
<1>4. UpdateSize(f, reqs[r].seen[f].size, reqs[r].size) /\ Ended(r)
  BY <1>3, GenericAfterUpdateDoes
<1>5. Matches(f, reqs[r].seen[f].size) /\ f \in Live
  BY <1>1 DEF Alone, Holds, Matches
<1>6. /\ \A g \in FileId \ {f} : rows'[g] = rows[g]
      /\ rows'[f].state = rows[f].state /\ rows'[f].src = rows[f].src
      /\ rows'[f].size = reqs[r].size
  BY <1>2, <1>4, <1>5, UpdateSizeDoes
<1>7. Proper(r) /\ Stage(r)'
  BY <1>1, <1>4, <1>6, StageIdle DEF Proper, RowsProper, DiskProper
<1>8. Whole(f)'
  BY <1>1, <1>5, <1>6 DEF Whole, Stage, Files
<1>9. \A g \in Live' : g \in reqs[r].target \/ g \notin Live => Whole(g)'
  BY <1>1, <1>6, <1>8 DEF Live
<1>10. QED
  BY <1>1, <1>7, <1>9, FilesStep

-----------------------------------------------------------------------------
(* Copies and deletions.                                                    *)

LEMMA CopyFileFiles ==
  ASSUME Types, Alone, Files, NEW r \in Req, NEW f \in FileId, NEW g \in FileId,
         NEW p \in Path, CopyFile(r, f, g, p)
  PROVE  Proper(r) /\ Files'
<1>1. /\ Others(r) /\ UNCHANGED disk /\ Stage(r)
      /\ reqs[r].pc = "copy" /\ reqs'[r].pc = "copy"
      /\ f \in reqs[r].todo /\ g \notin Live
      /\ reqs'[r].target = reqs[r].target /\ reqs'[r].seen = reqs[r].seen
      /\ reqs'[r].src = reqs[r].src
      /\ \A e \in FileId \ {g} : rows'[e] = rows[e]
      /\ rows'[g].src = reqs[r].seen[f].src /\ rows'[g].size = reqs[r].seen[f].size
  BY CopyFileDoes DEF Files, Live
<1>2. /\ f \in reqs[r].target /\ reqs[r].seen[f].src = rows[f].src
      /\ reqs[r].seen[f].size = rows[f].size
  BY <1>1 DEF Alone, Holds, Stage
<1>3. \A e \in reqs[r].target : e \in FileId /\ e # g
  BY <1>1 DEF Alone, Holds, Live
<1>4. Learns(r)
  BY <1>1 DEF Learns
<1>5. Proper(r)
  BY <1>1, <1>2, <1>4 DEF Proper, RowsProper, DiskProper
<1>6. Stage(r)'
  BY <1>1, <1>3 DEF Stage, MakesNew, ChangesOwn
<1>7. ASSUME NEW e \in Live', e \in reqs[r].target \/ e \notin Live PROVE Whole(e)'
  <2>1. CASE e = g
    BY <1>1, <1>2, <2>1, StillWhole DEF Whole
  <2>2. CASE e # g
    <3>1. e \in FileId /\ rows'[e] = rows[e] /\ e \in reqs[r].target
      BY <1>1, <1>7, <2>2 DEF Live
    <3>2. QED
      BY <1>1, <3>1, StillWhole DEF Whole
  <2>3. QED
    BY <2>1, <2>2
<1>8. QED
  BY <1>1, <1>5, <1>6, <1>7, FilesStep

LEMMA FilterLinkedFiles ==
  ASSUME Types, Alone, Files, NEW r \in Req, FilterLinked(r)
  PROVE  Proper(r) /\ Files'
<1>1. Others(r) /\ Quiet /\ reqs[r].pc = "filter" /\ Stage(r)
  BY FilterLinkedDoes DEF Files
<1>2. CASE Ended(r)
  BY <1>1, <1>2, StageIdle, QuietStep DEF Quiet
<1>3. CASE /\ reqs'[r].pc = "unlink" /\ reqs'[r].target = reqs[r].target
           /\ reqs'[r].seen = reqs[r].seen /\ reqs'[r].src = reqs[r].src
           /\ reqs'[r].todo = {f \in reqs[r].target : ~Linked(r, f)}
  <2>1. \A f \in reqs[r].target : reqs[r].seen[f].src = rows[f].src
    BY <1>1 DEF Stage
  <2>2. \A f \in reqs[r].target : ~Linked(r, f) => Sole(f)
    BY <2>1 DEF Linked, Sole
  <2>3. \A f \in reqs'[r].todo : Sole(f)'
    BY <1>1, <1>3, <2>2 DEF Sole, Live, Quiet
  <2>4. Stage(r)'
    BY <1>1, <1>3, <2>1, <2>3 DEF Stage, MakesNew, ChangesOwn, Quiet
  <2>5. Learns(r)
    BY <1>3 DEF Learns
  <2>6. QED
    BY <1>1, <2>4, <2>5, QuietStep DEF Quiet
<1>4. QED
  BY <1>2, <1>3, FilterLinkedDoes

LEMMA DeleteGroupedFileFiles ==
  ASSUME Types, Alone, Files, NEW r \in Req, NEW failed \in SUBSET Source,
         DeleteGroupedFile(r, failed)
  PROVE  Proper(r) /\ Files'
<1>1. /\ Others(r) /\ UNCHANGED rows /\ Stage(r)
      /\ reqs[r].pc = "unlink" /\ reqs'[r].pc = "commit" /\ reqs'[r].todo = {}
      /\ reqs'[r].seen = reqs[r].seen /\ reqs'[r].src = reqs[r].src
      /\ reqs'[r].target \subseteq reqs[r].target
      /\ \A f \in reqs[r].target \ reqs'[r].target : reqs[r].seen[f].src \in failed
      /\ \A s \in Source :
           \/ disk'[s] = disk[s]
           \/ s \notin failed /\ \E f \in reqs[r].todo : reqs[r].seen[f].src = s
  BY DeleteGroupedFileDoes DEF Files
<1>2. /\ \A f \in reqs[r].target : reqs[r].seen[f].src = rows[f].src
      /\ \A f \in reqs[r].todo : Sole(f) /\ f \in reqs[r].target
  BY <1>1 DEF Stage, Alone, Holds
<1>3. DiskProper(r)
  BY <1>1, <1>2 DEF DiskProper, Mine
<1>4. Proper(r)
  BY <1>1, <1>3 DEF Proper, RowsProper, Learns
<1>5. Stage(r)'
  BY <1>1 DEF Stage, MakesNew, ChangesOwn
<1>6. ASSUME NEW f \in reqs[r].target PROVE Whole(f)'
  <2>1. rows[f].src \in Key /\ disk[rows[f].src] = rows[f].size
    BY <1>1, StillWhole
  <2>2. CASE f \in reqs'[r].target
    BY <1>1, <2>1, <2>2 DEF Whole
  <2>3. CASE f \notin reqs'[r].target
    <3>1. rows[f].src \in failed /\ rows[f].src \in Source
      BY <1>1, <1>2, <2>1, <2>3, KeyNames
    <3>2. disk'[rows[f].src] = disk[rows[f].src]
      BY <1>1, <3>1
    <3>3. QED
      BY <1>1, <2>1, <3>2 DEF Whole
  <2>4. QED
    BY <2>2, <2>3
<1>7. QED
  BY <1>1, <1>4, <1>5, <1>6, FilesStep DEF Live

LEMMA DeleteFilesFiles ==
  ASSUME Types, Alone, Files, NEW r \in Req, DeleteFiles(r)
  PROVE  Proper(r) /\ Files'
<1>1. /\ Others(r) /\ Ended(r) /\ UNCHANGED disk
      /\ \A f \in FileId : rows'[f] = IF f \in reqs[r].target THEN Gone ELSE rows[f]
  BY DeleteFilesDoes
<1>2. Gone.state = "gone" /\ Gone.src = NoPath
  BY DEF Gone, Blank
<1>3. Proper(r) /\ Stage(r)'
  BY <1>1, <1>2, StageIdle DEF Proper, RowsProper, DiskProper
<1>4. \A f \in Live' : f \in Live /\ f \notin reqs[r].target
  BY <1>1, <1>2 DEF Live
<1>5. QED
  BY <1>1, <1>3, <1>4, FilesStep

LEMMA RollbackNever ==
  ASSUME Calm, Types, Alone, Balance, NEW r \in Req
  PROVE  ~DeleteFilesRollback(r)
<1> SUFFICES ASSUME DeleteFilesRollback(r) PROVE FALSE
  OBVIOUS
<1>1. reqs[r].pc = "commit" /\ ~Deletable(r)
  BY DeleteFilesRollbackDoes DEF Calm
<1>2. storage >= SeenTotal(r, reqs[r].target)
  BY <1>1, Covered
<1>3. QED
  BY <1>1, <1>2 DEF Deletable, Matches, Alone, Holds

LEMMA RenameFiles ==
  ASSUME Types, Alone, Files, NEW f \in FileId, NEW p \in Path, Rename(f, p)
  PROVE  Files'
<1>1. /\ UNCHANGED <<disk, reqs>>
      /\ \A g \in FileId : /\ rows'[g].state = rows[g].state
                           /\ rows'[g].src = rows[g].src
                           /\ rows'[g].size = rows[g].size
  BY RenameDoes
<1>2. Live' = Live /\ \A g \in Live : g \in FileId
  BY <1>1 DEF Live
<1>3. ASSUME NEW r \in Req PROVE Stage(r)'
  <2>1. \A g \in reqs[r].target \cup reqs[r].todo : g \in FileId /\ (Sole(g) => Sole(g)')
    BY <1>1, <1>2 DEF Alone, Holds, Sole
  <2>2. Fresh(reqs[r].src, r) => Fresh(reqs[r].src, r)'
    BY <1>1 DEF Fresh
  <2>3. QED
    BY <1>1, <2>1, <2>2 DEF Files, Stage, MakesNew, ChangesOwn
<1>4. ASSUME NEW g \in Live' PROVE Whole(g)'
  BY <1>1, <1>2 DEF Files, Whole
<1>5. QED
  BY <1>3, <1>4 DEF Files

-----------------------------------------------------------------------------
(* The content of the files.                                                *)

LEMMA FilesInit == Init => Files
<1>1. ASSUME Init PROVE Live = {} /\ \A r \in Req : reqs[r] = Idle
  BY <1>1 DEF Init, Live, Blank
<1>2. QED
  BY <1>1, IdleType DEF Files, Stage, MakesNew, ChangesOwn

LEMMA HandlerFiles ==
  ASSUME AutoRename, Calm, Types, Alone, Balance, Files, NEW r \in Req,
         \/ Arrival(r) \/ UploadStep(r) \/ OverwriteStep(r) \/ CopyStep(r) \/ DeleteStep(r)
  PROVE  Proper(r) /\ Files'
<1>e. ASSUME Others(r), Quiet, Ended(r), reqs[r].pc \notin {"resize", "commit"}
      PROVE  Proper(r) /\ Files'
  BY <1>e, StageIdle, QuietStep DEF Quiet
<1>p. reqs[r].pc \notin {"relinkAgain", "clean", "clear"}
  BY DEF Files, Stage
<1>1. CASE UploadStep(r)
  <2>1. ~AddFileFails(r)
    BY AddFileFailsDoes DEF Calm
  <2>2. QED
    BY <1>1, <2>1, ProbeFileFiles, WriteFileFiles, CheckNameFiles, DiscardFileFiles,
       InsertFileFiles, Zenon DEF UploadStep
<1>2. CASE OverwriteStep(r)
  <2>1. ~CleanContent(r)
    BY <1>p DEF CleanContent
  <2>2. ASSUME NEW f \in FileId PROVE ~RelinkAgain(r, f) /\ ~ClearFileSize(r, f)
    BY <1>p DEF RelinkAgain, ClearFileSize
  <2>3. QED
    BY <1>2, <2>1, <2>2, FindLinksFiles, RelinkFileFiles, GenericAfterUpdateFiles, Zenon
       DEF OverwriteStep
<1>3. CASE CopyStep(r)
  <2>1. ~CopyFails(r)
    BY CopyFailsDoes DEF Calm
  <2>2. CASE ChargeCopies(r)
    <3>1. Others(r) /\ UNCHANGED <<rows, disk>> /\ Ended(r) /\ reqs[r].pc = "copy"
      BY <2>2, ChargeCopiesDoes
    <3>2. QED
      BY <3>1, StageIdle, QuietStep
  <2>3. QED
    BY <1>3, <2>1, <2>2, CopyFileFiles, Zenon DEF CopyStep
<1>4. CASE DeleteStep(r)
  BY <1>4, FilterLinkedFiles, DeleteGroupedFileFiles, DeleteFilesFiles, RollbackNever, Zenon
     DEF DeleteStep
<1>5. QED
  BY <1>1, <1>2, <1>3, <1>4, ArrivalFiles

LEMMA FilesNext ==
  ASSUME AutoRename, Calm, Types, Alone, Balance, Files, [Next]_vars
  PROVE  Files'
<1>1. ASSUME NEW r \in Req,
             \/ Arrival(r) \/ UploadStep(r) \/ OverwriteStep(r) \/ CopyStep(r) \/ DeleteStep(r)
      PROVE  Files'
  BY <1>1, HandlerFiles
<1>2. ~Crash
  BY DEF Crash, Calm
<1>3. CASE Next
  BY <1>1, <1>2, <1>3, RenameFiles, Zenon DEF Next
<1>4. CASE UNCHANGED vars
  BY <1>4 DEF vars, Files, Stage, MakesNew, ChangesOwn, Fresh, Sole, Whole, Live
<1>5. QED
  BY <1>3, <1>4

LEMMA IntactFollows ==
  ASSUME Types, Alone, Files
  PROVE  NoDangling /\ SizesTrue
<1>1. ASSUME NEW f \in Live PROVE rows[f].size # NoFile
  BY SizesNat, NullsOk DEF Types, Row, Live
<1>2. ASSUME NEW f \in Live, ~Busy(f) PROVE disk[rows[f].src] = rows[f].size
  BY <1>2 DEF Files, Whole, Busy
<1>3. ASSUME NEW f \in Live, NEW r \in Req, f \in reqs[r].target, reqs[r].pc = "resize"
      PROVE  disk[rows[f].src] = reqs[r].size /\ reqs[r].size # NoFile
  <2>1. disk[rows[f].src] = reqs[r].size
    BY <1>3 DEF Files, Stage
  <2>2. reqs[r].size # NoFile
    BY Fields, SizesNat, NullsOk DEF Types
  <2>3. QED
    BY <2>1, <2>2
<1>4. QED
  BY <1>1, <1>2, <1>3 DEF NoDangling, SizesTrue, Files, Whole

FilesInv == Types /\ Alone /\ Balance /\ Store

LEMMA FilesInvariant ==
  ASSUME AutoRename, ~Overlap
  PROVE  Spec => []FilesInv
<1>1. Init => FilesInv
  BY TypesInit, AloneInit, BalanceInit, FilesInit DEF FilesInv, Types, TypeOK, Store
<1>2. FilesInv /\ [Next]_vars => FilesInv'
  <2> SUFFICES ASSUME FilesInv, [Next]_vars PROVE FilesInv'
    OBVIOUS
  <2>1. fault' = fault
    BY DEF Next, vars
  <2>2. Types' /\ Alone' /\ Balance'
    BY <2>1, TypesNext, AloneNext, BalanceNext DEF FilesInv
  <2>3. Store'
    BY <2>1, FilesNext DEF FilesInv, Store, Calm
  <2>4. QED
    BY <2>2, <2>3 DEF FilesInv
<1>3. QED
  BY <1>1, <1>2, PTL DEF Spec

(* Every file has its physical file, of the length its row says, whatever   *)
(* uploads, overwrites, copies and deletions of other rows do to soft links *)
(* of it, and however many removals fail: RemoveFilesWithSoftLinks is asked *)
(* before a physical file is removed or written in place, and a row leaves  *)
(* a shared one for a name that nobody has seen.  Physical names must be    *)
(* random (AutoRename): a virtual path may be the name of a file that other *)
(* rows share.                                                              *)
THEOREM FilesAreIntact ==
  ASSUME AutoRename, ~Overlap
  PROVE  Spec => []FilesIntact
<1>1. FilesInv => FilesIntact
  BY IntactFollows DEF FilesInv, Store, FilesIntact
<1>2. QED
  BY <1>1, FilesInvariant, PTL

(* Only a handler of a file changes what that file shows: overwriting or    *)
(* deleting another row with the same source_name leaves it alone.          *)
THEOREM OthersAreUntouched ==
  ASSUME AutoRename, ~Overlap
  PROVE  Spec => OthersUntouched
<1> DEFINE Untouched == Calm => \A f \in Live : disk'[rows[f].src] # disk[rows[f].src] => Busy(f)
<1>1. FilesInv /\ [Next]_vars => [Untouched]_vars
  <2> SUFFICES ASSUME FilesInv, Next, Calm, NEW f \in Live,
                      disk'[rows[f].src] # disk[rows[f].src], ~Busy(f)
               PROVE  FALSE
    BY DEF vars
  <2>1. Types /\ Alone /\ Balance /\ Files /\ rows[f].src \in Key
    BY DEF FilesInv, Store, Files, Whole
  <2>2. ASSUME NEW r \in Req,
               \/ Arrival(r) \/ UploadStep(r) \/ OverwriteStep(r) \/ CopyStep(r) \/ DeleteStep(r)
        PROVE  FALSE
    <3>1. Proper(r) /\ f \notin reqs[r].target
      BY <2>1, <2>2, HandlerFiles DEF Busy
    <3>2. QED
      BY <2>1, <3>1, DiskStays
  <2>3. ASSUME NEW g \in FileId, NEW p \in Path, Rename(g, p) PROVE FALSE
    BY <2>3 DEF Rename
  <2>4. ~Crash
    BY DEF Crash, Calm
  <2>5. QED
    BY <2>2, <2>3, <2>4, Zenon DEF Next
<1>2. QED
  BY <1>1, FilesInvariant, PTL DEF Spec, OthersUntouched
=============================================================================

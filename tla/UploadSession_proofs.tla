------------------------ MODULE UploadSession_proofs ------------------------
(***************************************************************************)
(* Proofs about UploadSession for every number of files, names, handlers,  *)
(* every chunk size, file size and quota, and every setting of the faults. *)
(***************************************************************************)
EXTENDS UploadSession, FiniteSetTheorems, SequenceTheorems, TLAPS

-----------------------------------------------------------------------------
(* Chunk arithmetic.                                                        *)

(* A chunk that starts inside the file ends inside it, and is no longer     *)
(* than the largest one.                                                    *)
LEMMA ChunkBounds ==
  ASSUME NEW o \in 0..FileSize
  PROVE  /\ ChunkLen(o) \in 0..LargestChunk
         /\ o + ChunkLen(o) \in 0..FileSize
         /\ LargestChunk \in 0..FileSize
  BY SizesNat DEF ChunkLen, IsLastChunk, LargestChunk

LEMMA OffsetsType == Offsets \subseteq 0..FileSize
  BY SizesNat DEF Offsets

(* What Truncate leaves and what io.Copy appends are file contents.         *)
Content == Seq(0..FileSize)

LEMMA ResizeType ==
  ASSUME NEW data \in Content, NEW n \in Nat
  PROVE  Resize(data, n) \in Content
<1>1. \A i \in 1..n : (IF i <= Len(data) THEN data[i] ELSE 0) \in 0..FileSize
  BY SizesNat DEF Content
<1> QED BY <1>1 DEF Resize, Content

LEMMA AppendType ==
  ASSUME NEW data \in Content, NEW o \in 0..FileSize, NEW n \in Nat,
         o + n <= FileSize
  PROVE  data \o Bytes(o, o + n) \in Content
<1>1. Bytes(o, o + n) \in Content
  BY SizesNat DEF Bytes, Content
<1> QED BY <1>1 DEF Content

-----------------------------------------------------------------------------
(* Sums as cardinalities.                                                   *)

Sizes(S) == [S -> 0..FileSize]

LEMMA BlocksFinite ==
  ASSUME NEW S, IsFiniteSet(S), NEW size
  PROVE  IsFiniteSet(Blocks(S, size)) /\ Total(S, size) \in Nat
<1>1. IsFiniteSet(1..FileSize)
  BY SizesNat, FS_Interval
<1>2. IsFiniteSet(S \X (1..FileSize))
  BY <1>1, FS_Product
<1>3. IsFiniteSet(Blocks(S, size))
  BY <1>2, FS_Subset DEF Blocks
<1> QED BY <1>3, FS_CardinalityType DEF Total

LEMMA DisjointUnion ==
  ASSUME NEW A, IsFiniteSet(A), NEW B, IsFiniteSet(B), A \cap B = {}
  PROVE  Cardinality(A \cup B) = Cardinality(A) + Cardinality(B)
<1>1. Cardinality(A) \in Nat /\ Cardinality(B) \in Nat
  BY FS_CardinalityType
<1>2. Cardinality(A \cap B) = 0
  BY FS_EmptySet, Zenon
<1>3. Cardinality(A \cup B) = Cardinality(A) + Cardinality(B) - Cardinality(A \cap B)
  BY FS_Union, Zenon
<1>4. Cardinality(A \cup B) = Cardinality(A) + Cardinality(B) - 0
  BY <1>2, <1>3, Zenon
<1> QED BY <1>1, <1>4

(* A sum is the sum over a part and the sum over the rest.                  *)
LEMMA TotalSplit ==
  ASSUME NEW S, IsFiniteSet(S), NEW size \in Sizes(S), NEW T
  PROVE  Total(S, size) = Total(S, [x \in S |-> IF x \in T THEN size[x] ELSE 0])
                        + Total(S, [x \in S |-> IF x \in T THEN 0 ELSE size[x]])
<1> DEFINE in  == [x \in S |-> IF x \in T THEN size[x] ELSE 0]
           out == [x \in S |-> IF x \in T THEN 0 ELSE size[x]]
<1>1. Blocks(S, size) = Blocks(S, in) \cup Blocks(S, out)
  BY SizesNat DEF Blocks, Sizes
<1>2. Blocks(S, in) \cap Blocks(S, out) = {}
  BY SizesNat DEF Blocks, Sizes
<1>3. IsFiniteSet(Blocks(S, in)) /\ IsFiniteSet(Blocks(S, out))
  BY BlocksFinite
<1>4. Cardinality(Blocks(S, size)) = Cardinality(Blocks(S, in)) + Cardinality(Blocks(S, out))
  <2> DEFINE A == Blocks(S, in)
             B == Blocks(S, out)
  <2>1. A \cap B = {} /\ IsFiniteSet(A) /\ IsFiniteSet(B) /\ Blocks(S, size) = A \cup B
    BY <1>1, <1>2, <1>3
  <2> HIDE DEF A, B
  <2>2. Cardinality(Blocks(S, size)) = Cardinality(A) + Cardinality(B)
    BY <2>1, DisjointUnion
  <2> QED BY <2>2 DEF A, B
<1> QED BY <1>4 DEF Total

(* The sum of a single size.                                                *)
LEMMA TotalSingle ==
  ASSUME NEW S, NEW x \in S, NEW n \in 0..FileSize
  PROVE  Total(S, [y \in S |-> IF y \in {x} THEN n ELSE 0]) = n
<1>1. Blocks(S, [y \in S |-> IF y \in {x} THEN n ELSE 0]) = {x} \X (1..n)
  BY SizesNat DEF Blocks
<1>2. IsFiniteSet(1..n) /\ Cardinality(1..n) = n
  BY SizesNat, FS_Interval
<1>3. IsFiniteSet({x}) /\ Cardinality({x}) = 1
  BY FS_Singleton
<1>4. Cardinality({x} \X (1..n)) = 1 * n
  BY <1>2, <1>3, FS_Product, ZenonT(90)
<1>5. Cardinality({x} \X (1..n)) = n
  BY <1>4, SizesNat
<1> QED BY <1>1, <1>5 DEF Total

(* Changing one size changes the sum by as much.                            *)
LEMMA TotalUpdate ==
  ASSUME NEW S, IsFiniteSet(S), NEW f \in Sizes(S), NEW g \in Sizes(S),
         NEW x \in S, \A y \in S \ {x} : g[y] = f[y]
  PROVE  Total(S, g) = Total(S, f) - f[x] + g[x]
<1> DEFINE rest == [y \in S |-> IF y \in {x} THEN 0 ELSE f[y]]
<1>1. rest = [y \in S |-> IF y \in {x} THEN 0 ELSE g[y]]
  OBVIOUS
<1>2. /\ [y \in S |-> IF y \in {x} THEN f[y] ELSE 0] = [y \in S |-> IF y \in {x} THEN f[x] ELSE 0]
      /\ [y \in S |-> IF y \in {x} THEN g[y] ELSE 0] = [y \in S |-> IF y \in {x} THEN g[x] ELSE 0]
  OBVIOUS
<1>3. f[x] \in 0..FileSize /\ g[x] \in 0..FileSize
  BY DEF Sizes
<1>4. Total(S, f) = Total(S, [y \in S |-> IF y \in {x} THEN f[y] ELSE 0]) + Total(S, rest)
  BY TotalSplit, ZenonT(90)
<1>5. Total(S, g) = Total(S, [y \in S |-> IF y \in {x} THEN g[y] ELSE 0]) + Total(S, rest)
  <2>1. Total(S, g) = Total(S, [y \in S |-> IF y \in {x} THEN g[y] ELSE 0])
                    + Total(S, [y \in S |-> IF y \in {x} THEN 0 ELSE g[y]])
    BY TotalSplit, ZenonT(90)
  <2> QED BY <1>1, <2>1, Zenon
<1>6. Total(S, rest) \in Nat
  BY BlocksFinite
<1> HIDE DEF rest
<1>7. Total(S, f) = f[x] + Total(S, rest)
  <2>1. Total(S, [y \in S |-> IF y \in {x} THEN f[x] ELSE 0]) = f[x]
    BY <1>3, TotalSingle
  <2> QED BY <1>2, <1>4, <2>1, Zenon
<1>8. Total(S, g) = g[x] + Total(S, rest)
  <2>1. Total(S, [y \in S |-> IF y \in {x} THEN g[x] ELSE 0]) = g[x]
    BY <1>3, TotalSingle
  <2> QED BY <1>2, <1>5, <2>1, Zenon
<1> DEFINE sumf == Total(S, f)
           sumg == Total(S, g)
           sumr == Total(S, rest)
           oldx == f[x]
           newx == g[x]
<1>9. sumf = oldx + sumr /\ sumg = newx + sumr
  BY <1>7, <1>8
<1>10. oldx \in Nat /\ newx \in Nat /\ sumr \in Nat
  BY <1>3, <1>6, SizesNat
<1> HIDE DEF sumf, sumg, sumr, oldx, newx
<1>11. sumg = sumf - oldx + newx
  BY <1>9, <1>10
<1> QED BY <1>11 DEF sumf, sumg, oldx, newx

(* Larger sizes have a larger sum.                                          *)
LEMMA TotalMonotone ==
  ASSUME NEW S, IsFiniteSet(S), NEW f \in Sizes(S), NEW g \in Sizes(S),
         \A x \in S : f[x] <= g[x]
  PROVE  Total(S, f) <= Total(S, g)
<1>1. Blocks(S, f) \subseteq Blocks(S, g)
  BY SizesNat DEF Blocks, Sizes
<1> QED BY <1>1, BlocksFinite, FS_Subset DEF Total

(* All but one of the sizes, each bounded.                                  *)
LEMMA TotalBound ==
  ASSUME NEW S, IsFiniteSet(S), NEW f \in Sizes(S), NEW x \in S, f[x] = 0,
         NEW m \in Nat, \A y \in S : f[y] <= m
  PROVE  Total(S, f) <= (Cardinality(S) - 1) * m
<1>1. IsFiniteSet(S \ {x}) /\ Cardinality(S \ {x}) = Cardinality(S) - 1
  BY FS_RemoveElement
<1>2. IsFiniteSet(1..m) /\ Cardinality(1..m) = m
  BY FS_Interval
<1>3. /\ IsFiniteSet((S \ {x}) \X (1..m))
      /\ Cardinality((S \ {x}) \X (1..m)) = (Cardinality(S) - 1) * m
  BY <1>1, <1>2, FS_Product
<1>4. Blocks(S, f) \subseteq (S \ {x}) \X (1..m)
  BY SizesNat DEF Blocks, Sizes
<1> QED BY <1>3, <1>4, FS_Subset DEF Total

-----------------------------------------------------------------------------
(* Type correctness.                                                        *)

LEMMA InPc ==
  /\ "idle" \in Pc /\ "check" \in Pc /\ "insert" \in Pc /\ "register" \in Pc
  /\ "load" \in Pc /\ "probe" \in Pc /\ "open" \in Pc /\ "write" \in Pc
  /\ "orphan" \in Pc /\ "size" \in Pc /\ "pop" \in Pc /\ "forget" \in Pc
  /\ "truncate" \in Pc /\ "shrink" \in Pc /\ "filter" \in Pc /\ "reread" \in Pc
  /\ "unlink" \in Pc /\ "commit" \in Pc
  BY DEF Pc

LEMMA BlankType == Blank \in Row /\ Gone \in Row
  BY SizesNat DEF Blank, Gone, Row

LEMMA IdleType == Idle \in Handler
  BY SizesNat, InPc, BlankType DEF Idle, Handler

LEMMA FetchedType ==
  ASSUME rows \in [FileId -> Row], NEW ids
  PROVE  Fetched(ids) \in [FileId -> Row]
  BY BlankType DEF Fetched

(* The three ways a step changes the record of its handler.                 *)
LEMMA UpdateType ==
  ASSUME reqs \in [Actor -> Handler], NEW r, NEW h \in Handler,
         reqs' = [reqs EXCEPT ![r] = h]
  PROVE  reqs' \in [Actor -> Handler]
  OBVIOUS

LEMMA GotoType ==
  ASSUME reqs \in [Actor -> Handler], NEW r \in Actor, NEW pc \in Pc, Goto(r, pc)
  PROVE  reqs' \in [Actor -> Handler]
  BY ZenonT(90) DEF Goto, Handler

LEMMA FinishType ==
  ASSUME reqs \in [Actor -> Handler], NEW r \in Actor, Finish(r)
  PROVE  reqs' \in [Actor -> Handler]
  BY IdleType DEF Finish

LEMMA HandlerUpdate ==
  ASSUME NEW h \in Handler, NEW pc \in Pc, NEW ids \in SUBSET FileId,
         NEW seen \in [FileId -> Row]
  PROVE  /\ [h EXCEPT !.pc = pc, !.target = ids, !.seen = seen] \in Handler
         /\ [h EXCEPT !.pc = pc, !.target = ids] \in Handler
         /\ [h EXCEPT !.pc = pc, !.seen = seen] \in Handler
         /\ [h EXCEPT !.seen = seen, !.used = 0, !.pc = pc] \in Handler
  BY DEF Handler

LEMMA SizeUpdateType ==
  ASSUME reqs \in [Actor -> Handler], NEW r \in Actor, NEW f \in FileId, NEW pc \in Pc,
         NEW new \in 0..FileSize,
         reqs' = [reqs EXCEPT ![r].pc = pc, ![r].seen[f].size = new]
  PROVE  reqs' \in [Actor -> Handler]
<1>1. reqs[r] \in Handler /\ reqs[r].seen[f] \in Row /\ reqs[r].seen \in [FileId -> Row]
  BY DEF Handler
<1> DEFINE seen == [reqs[r].seen EXCEPT ![f] = [reqs[r].seen[f] EXCEPT !.size = new]]
           h    == [reqs[r] EXCEPT !.pc = pc, !.seen = seen]
<1>2. seen \in [FileId -> Row]
  BY <1>1 DEF Row
<1>3. reqs' = [reqs EXCEPT ![r] = h]
  <2>1. h = [reqs[r] EXCEPT !.pc = pc, !.seen[f].size = new]
    BY <1>1 DEF Handler
  <2> QED BY <2>1, <1>1
<1> HIDE DEF seen
<1>4. h \in Handler
  BY <1>1, <1>2, HandlerUpdate
<1> QED BY <1>3, <1>4

LEMMA TypeInit == Init => TypeOK
  BY SizesNat, BlankType, IdleType DEF Init, TypeOK

(* UpdateSize keeps sizes within the announced one and the counter natural. *)
LEMMA UpdateSizeType ==
  ASSUME TypeOK, NEW f \in FileId, NEW old \in 0..FileSize, NEW new \in 0..FileSize,
         UpdateSize(f, old, new) \/ UNCHANGED <<rows, storage>>
  PROVE  rows' \in [FileId -> Row] /\ storage' \in Nat
<1>1. CASE UNCHANGED <<rows, storage>>
  BY <1>1 DEF TypeOK
<1>2. CASE UpdateSize(f, old, new)
  <2>1. storage' \in Nat
    BY <1>2, SizesNat DEF UpdateSize, TypeOK
  <2>2. [rows[f] EXCEPT !.size = new] \in Row
    BY DEF TypeOK, Row
  <2>3. rows' = rows \/ rows' = [rows EXCEPT ![f] = [rows[f] EXCEPT !.size = new]]
    BY <1>2 DEF UpdateSize, TypeOK
  <2> QED BY <2>1, <2>2, <2>3 DEF TypeOK
<1> QED BY <1>1, <1>2

LEMMA TypeStep == TypeOK /\ [Next]_vars => TypeOK'
<1> SUFFICES ASSUME TypeOK, [Next]_vars PROVE TypeOK'
  OBVIOUS
<1> USE DEF Actor
<1> DEFINE ReqsOK == reqs \in [Actor -> Handler]
<1>a. ReqsOK /\ rows \in [FileId -> Row] /\ \A r \in Actor : reqs[r] \in Handler
  BY DEF TypeOK
<1>1. ASSUME NEW r \in Req, NEW n \in Name, CreateUploadSession(r, n) PROVE TypeOK'
  <2> DEFINE h == [reqs[r] EXCEPT !.pc = "check", !.name = n]
  <2>1. h \in Handler
    BY <1>a, InPc, ZenonT(90) DEF Handler
  <2>2. reqs' = [reqs EXCEPT ![r] = h]
    BY <1>1, <1>a DEF CreateUploadSession
  <2> HIDE DEF h
  <2>3. ReqsOK'
    BY <1>a, <2>1, <2>2, UpdateType
  <2> QED BY <1>1, <2>3 DEF CreateUploadSession, TypeOK
<1>2. ASSUME NEW r \in Req, CheckName(r) PROVE TypeOK'
  BY <1>2, <1>a, InPc, GotoType, FinishType DEF CheckName, TypeOK
<1>3. ASSUME NEW r \in Req, NEW f \in FileId, InsertPlaceholder(r, f) PROVE TypeOK'
  <2> DEFINE h == [reqs[r] EXCEPT !.pc = "register", !.target = {f}]
  <2>1. h \in Handler
    BY <1>a, InPc, ZenonT(90) DEF Handler
  <2>2. reqs' = [reqs EXCEPT ![r] = h]
    BY <1>3, <1>a DEF InsertPlaceholder
  <2> HIDE DEF h
  <2>3. ReqsOK'
    BY <1>a, <2>1, <2>2, UpdateType
  <2>4. [state |-> "placeholder", name |-> reqs[r].name, size |-> 0] \in Row
    BY <1>a, SizesNat DEF Handler, Row
  <2>5. rows' \in [FileId -> Row]
    BY <1>3, <1>a, <2>4 DEF InsertPlaceholder
  <2> QED BY <1>3, <2>3, <2>5 DEF InsertPlaceholder, TypeOK
<1>4. ASSUME NEW r \in Req, InsertFails(r) PROVE TypeOK'
  BY <1>4, <1>a, InPc, GotoType, FinishType DEF InsertFails, TypeOK
<1>5. ASSUME NEW r \in Req, NEW f \in FileId, RegisterSession(r, f) PROVE TypeOK'
  BY <1>5, <1>a, InPc, GotoType, FinishType DEF RegisterSession, TypeOK
<1>6. ASSUME NEW r \in Req, NEW f \in FileId, NEW o \in Offsets, LocalUpload(r, f, o) PROVE TypeOK'
  <2> DEFINE h == [reqs[r] EXCEPT !.pc = "load", !.target = {f}, !.used = storage, !.offset = o]
  <2>1. h \in Handler
    BY <1>a, OffsetsType, InPc, ZenonT(90) DEF Handler, TypeOK
  <2>2. reqs' = [reqs EXCEPT ![r] = h]
    BY <1>6, <1>a DEF LocalUpload
  <2> HIDE DEF h
  <2>3. ReqsOK'
    BY <1>a, <2>1, <2>2, UpdateType
  <2> QED BY <1>6, <2>3 DEF LocalUpload, TypeOK
<1>7. ASSUME NEW r \in Req, NEW f \in FileId, AcceptChunk(r, f) PROVE TypeOK'
  <2> DEFINE h(pc) == [reqs[r] EXCEPT !.seen = Fetched({f}), !.used = 0, !.pc = pc]
  <2>1. h("probe") \in Handler /\ h("open") \in Handler
    <3> DEFINE seen == Fetched({f})
    <3>1. seen \in [FileId -> Row]
      BY <1>a, FetchedType
    <3> HIDE DEF seen
    <3>2. ASSUME NEW pc \in Pc
          PROVE  [reqs[r] EXCEPT !.seen = seen, !.used = 0, !.pc = pc] \in Handler
      BY <1>a, <3>1, ZenonT(90) DEF Handler
    <3> QED BY <3>2, InPc DEF seen
  <2>2. reqs' = [reqs EXCEPT ![r] = h("probe")] \/ reqs' = [reqs EXCEPT ![r] = h("open")]
    BY <1>7, <1>a DEF AcceptChunk
  <2> HIDE DEF h
  <2>3. ReqsOK'
    BY <1>a, <2>1, <2>2, UpdateType
  <2> QED BY <1>7, <2>3 DEF AcceptChunk, TypeOK
<1>8. ASSUME NEW r \in Req, NEW f \in FileId, RejectChunk(r, f) PROVE TypeOK'
  BY <1>8, <1>a, InPc, GotoType, FinishType DEF RejectChunk, TypeOK
<1>9. ASSUME NEW r \in Req, NEW f \in FileId, ProbeFile(r, f) PROVE TypeOK'
  BY <1>9, <1>a, InPc, GotoType, FinishType DEF ProbeFile, TypeOK
<1>10. ASSUME NEW r \in Req, NEW f \in FileId, OpenFile(r, f) PROVE TypeOK'
  <2> DEFINE data == IF disk[f] = NoFile THEN <<>> ELSE disk[f]
  <2>1. data \in Content
    <3>1. <<>> \in Content
      BY DEF Content
    <3> QED BY <3>1 DEF TypeOK, Content
  <2>2. Resize(data, reqs[r].offset) \in Content
    <3>1. reqs[r].offset \in Nat
      BY <1>a, SizesNat DEF Handler
    <3> QED BY <2>1, <3>1, ResizeType
  <2>3. disk' = [disk EXCEPT ![f] = data] \/ disk' = [disk EXCEPT ![f] = Resize(data, reqs[r].offset)]
    BY <1>10 DEF OpenFile
  <2>4. disk' \in [FileId -> Content \cup {NoFile}]
    BY <2>1, <2>2, <2>3 DEF TypeOK, Content
  <2>5. Goto(r, "write") \/ Goto(r, "size") \/ Finish(r)
    BY <1>10 DEF OpenFile
  <2>6. ReqsOK'
    BY <1>a, <2>5, InPc, GotoType, FinishType
  <2> QED BY <1>10, <2>4, <2>6 DEF OpenFile, TypeOK, Content
<1>11. ASSUME NEW r \in Req, NEW f \in FileId, WriteChunk(r, f) PROVE TypeOK'
  <2> DEFINE start == reqs[r].offset
             Put(n) == disk' = [disk EXCEPT
                          ![f] = IF @ = NoFile THEN NoFile ELSE @ \o Bytes(start, start + n)]
  <2>1. start \in 0..FileSize
    BY <1>a DEF Handler
  <2>2. ChunkLen(start) \in Nat /\ start + ChunkLen(start) <= FileSize
    BY <2>1, ChunkBounds, SizesNat
  <2> HIDE DEF start
  <2>3. ASSUME NEW n \in Nat, n <= ChunkLen(start), Put(n)
        PROVE  disk' \in [FileId -> Content \cup {NoFile}]
    <3>1. start + n <= FileSize
      BY <2>1, <2>2, <2>3, SizesNat
    <3>2. \A data \in Content : data \o Bytes(start, start + n) \in Content
      BY <2>1, <3>1, AppendType
    <3> QED BY <2>3, <3>2 DEF TypeOK, Content
  <2>4. \/ Put(ChunkLen(start))
        \/ \E n \in 0..(ChunkLen(start) - 1) : Put(n)
    BY <1>11 DEF WriteChunk, start
  <2> HIDE DEF Put
  <2>5. disk' \in [FileId -> Content \cup {NoFile}]
    BY <2>2, <2>3, <2>4
  <2>6. Goto(r, "size") \/ Finish(r)
    BY <1>11 DEF WriteChunk
  <2>7. ReqsOK'
    BY <1>a, <2>6, InPc, GotoType, FinishType
  <2> QED BY <1>11, <2>5, <2>7 DEF WriteChunk, TypeOK, Content
<1>12. ASSUME NEW r \in Req, NEW f \in FileId, WriteUnlinked(r, f) PROVE TypeOK'
  BY <1>12, <1>a, InPc, GotoType, FinishType DEF WriteUnlinked, TypeOK
<1>13. ASSUME NEW r \in Req, NEW f \in FileId, HookChunkUploaded(r, f) PROVE TypeOK'
  <2> DEFINE old == reqs[r].seen[f].size
             new == reqs[r].offset + ChunkLen(reqs[r].offset)
  <2>1. old \in 0..FileSize /\ new \in 0..FileSize
    BY <1>a, ChunkBounds DEF Handler, Row
  <2>2. rows' \in [FileId -> Row] /\ storage' \in Nat
    <3>1. UpdateSize(f, old, new) \/ UNCHANGED <<rows, storage>>
      BY <1>13 DEF HookChunkUploaded, RollbackSize, LoseSize
    <3> QED BY <2>1, <3>1, UpdateSizeType
  <2>3. \/ Goto(r, "truncate") \/ Finish(r)
        \/ reqs' = [reqs EXCEPT ![r].pc = "pop", ![r].seen[f].size = new]
        \/ reqs' = [reqs EXCEPT ![r].pc = "truncate", ![r].seen[f].size = new]
    BY <1>13 DEF HookChunkUploaded
  <2> HIDE DEF new
  <2>4. ReqsOK'
    <3>1. CASE Goto(r, "truncate") \/ Finish(r)
      BY <1>a, <3>1, InPc, GotoType, FinishType
    <3>2. CASE reqs' = [reqs EXCEPT ![r].pc = "pop", ![r].seen[f].size = new]
      <4>1. "pop" \in Pc
        BY InPc
      <4> QED BY <1>a, <2>1, <3>2, <4>1, SizeUpdateType
    <3>3. CASE reqs' = [reqs EXCEPT ![r].pc = "truncate", ![r].seen[f].size = new]
      <4>1. "truncate" \in Pc
        BY InPc
      <4> QED BY <1>a, <2>1, <3>3, <4>1, SizeUpdateType
    <3> QED BY <2>3, <3>1, <3>2, <3>3
  <2> QED BY <1>13, <2>2, <2>4 DEF HookChunkUploaded, TypeOK
<1>14. ASSUME NEW r \in Req, NEW f \in FileId, PopPlaceholder(r, f) PROVE TypeOK'
  <2>1. [rows[f] EXCEPT !.state = "finished"] \in Row
    BY <1>a DEF Row
  <2>2. rows' = rows \/ rows' = [rows EXCEPT ![f] = [rows[f] EXCEPT !.state = "finished"]]
    BY <1>14, <1>a DEF PopPlaceholder
  <2>3. ReqsOK'
    BY <1>14, <1>a, InPc, GotoType DEF PopPlaceholder
  <2> QED BY <1>14, <1>a, <2>1, <2>2, <2>3 DEF PopPlaceholder, TypeOK
<1>15. ASSUME NEW r \in Req, NEW f \in FileId, ForgetSession(r, f) PROVE TypeOK'
  BY <1>15, <1>a, InPc, GotoType, FinishType DEF ForgetSession, TypeOK
<1>16. ASSUME NEW r \in Req, NEW f \in FileId, TruncateFailedChunk(r, f) PROVE TypeOK'
  <2>1. disk[f] # NoFile => Resize(disk[f], reqs[r].offset) \in Content
    <3>1. reqs[r].offset \in Nat
      BY <1>a, SizesNat DEF Handler
    <3> QED BY <3>1, ResizeType DEF TypeOK, Content
  <2>2. disk' \in [FileId -> Content \cup {NoFile}]
    BY <1>16, <2>1 DEF TruncateFailedChunk, TypeOK, Content
  <2>3. Goto(r, "shrink") \/ Finish(r)
    BY <1>16 DEF TruncateFailedChunk
  <2>4. ReqsOK'
    BY <1>a, <2>3, InPc, GotoType, FinishType
  <2> QED BY <1>16, <2>2, <2>4 DEF TruncateFailedChunk, TypeOK, Content
<1>17. ASSUME NEW r \in Req, NEW f \in FileId, HookChunkUploadFailed(r, f) PROVE TypeOK'
  <2> DEFINE old == reqs[r].seen[f].size
             new == reqs[r].offset
  <2>1. old \in 0..FileSize /\ new \in 0..FileSize
    BY <1>a DEF Handler, Row
  <2>2. UpdateSize(f, old, new) \/ UNCHANGED <<rows, storage>>
    BY <1>17 DEF HookChunkUploadFailed, RollbackSize, LoseSize
  <2>3. rows' \in [FileId -> Row] /\ storage' \in Nat
    BY <2>1, <2>2, UpdateSizeType
  <2>4. ReqsOK'
    BY <1>17, <1>a, FinishType DEF HookChunkUploadFailed
  <2> QED BY <1>17, <2>3, <2>4 DEF HookChunkUploadFailed, TypeOK
<1>18. ASSUME NEW r \in Req, NEW f \in FileId, ClientLeaves(r, f) PROVE TypeOK'
  <2> DEFINE h == [reqs[r] EXCEPT !.client = "left"]
  <2>1. h \in Handler
    BY <1>a, InPc DEF Handler
  <2>2. reqs' = [reqs EXCEPT ![r] = h]
    BY <1>18, <1>a DEF ClientLeaves
  <2> HIDE DEF h
  <2>3. ReqsOK'
    BY <1>a, <2>1, <2>2, UpdateType
  <2>4. <<f, reqs[r].offset>> \in FileId \X (0..FileSize)
    BY <1>a DEF Handler
  <2> QED BY <1>18, <2>3, <2>4 DEF ClientLeaves, TypeOK
<1>19. ASSUME NEW c \in cancels, CancelUpload(c) PROVE TypeOK'
  <2>1. c[1] \in FileId /\ c[2] \in Nat
    BY SizesNat DEF TypeOK
  <2>2. disk[c[1]] # NoFile => Resize(disk[c[1]], c[2]) \in Content
    BY <2>1, ResizeType DEF TypeOK, Content
  <2>3. disk' \in [FileId -> Content \cup {NoFile}]
    BY <1>19, <2>1, <2>2 DEF CancelUpload, TypeOK, Content
  <2> QED BY <1>19, <2>3 DEF CancelUpload, TypeOK, Content
<1>20. ASSUME NEW r \in Req, NEW ids \in SUBSET FileId, Delete(r, ids) PROVE TypeOK'
  <2> DEFINE h == [reqs[r] EXCEPT !.pc = "unlink", !.target = ids, !.seen = Fetched(ids)]
  <2>1. h \in Handler
    <3> DEFINE seen == Fetched(ids)
    <3>1. seen \in [FileId -> Row]
      BY <1>a, FetchedType
    <3> HIDE DEF seen
    <3>2. [reqs[r] EXCEPT !.pc = "unlink", !.target = ids, !.seen = seen] \in Handler
      BY <1>a, <3>1, InPc, HandlerUpdate
    <3> QED BY <3>2 DEF seen
  <2>2. reqs' = [reqs EXCEPT ![r] = h]
    BY <1>20, <1>a DEF Delete
  <2> HIDE DEF h
  <2>3. ReqsOK'
    BY <1>a, <2>1, <2>2, UpdateType
  <2> QED BY <1>20, <2>3, SMTT(60) DEF Delete, TypeOK
<1>21. ASSUME NEW r \in Actor, NEW failed \in SUBSET FileId, DeleteGroupedFile(r, failed) PROVE TypeOK'
  <2> DEFINE kept == reqs[r].target \ failed
  <2>1. kept \in SUBSET FileId
    BY <1>a DEF Handler
  <2> HIDE DEF kept
  <2>5. [reqs[r] EXCEPT !.pc = "commit", !.target = kept] \in Handler
    BY <1>a, <2>1, InPc, HandlerUpdate
  <2>2. \A q \in Actor, ids \in SUBSET FileId : Detached(q, ids) \in Handler
    BY <1>a, InPc DEF Handler, Detached
  <2>3. ReqsOK'
    <3>1. reqs[r].target \ failed \in SUBSET FileId
      BY <2>1 DEF kept
    <3> QED BY <1>21, <2>5, <2>2, <3>1 DEF DeleteGroupedFile, Unlink, kept
  <2>4. disk' \in [FileId -> Content \cup {NoFile}]
    BY <1>21 DEF DeleteGroupedFile, Unlink, TypeOK, Content
  <2> QED BY <1>21, <2>3, <2>4 DEF DeleteGroupedFile, Unlink, TypeOK, Content
<1>22. ASSUME NEW r \in Actor, DeleteFiles(r) PROVE TypeOK'
  <2>1. SeenTotal(r) \in Nat
    BY BlocksFinite, FileIdFinite DEF SeenTotal
  <2>2. storage' \in Nat
    BY <1>22, <2>1 DEF DeleteFiles, Deletable, TypeOK
  <2>3. rows' \in [FileId -> Row]
    BY <1>22, <1>a, BlankType DEF DeleteFiles
  <2>4. ReqsOK'
    BY <1>22, <1>a, FinishType DEF DeleteFiles
  <2> QED BY <1>22, <2>2, <2>3, <2>4 DEF DeleteFiles, TypeOK
<1>23. ASSUME NEW r \in Actor, DeleteFilesRollback(r) PROVE TypeOK'
  BY <1>23, <1>a, InPc, GotoType, FinishType DEF DeleteFilesRollback, TypeOK
<1>24. ASSUME ListPlaceholders PROVE TypeOK'
  <2> DEFINE h == [reqs[Cron] EXCEPT !.pc = "filter", !.target = Placeholders]
  <2>1. h \in Handler
    BY <1>a, InPc DEF Handler, Placeholders
  <2>2. reqs' = [reqs EXCEPT ![Cron] = h]
    BY <1>24, <1>a DEF ListPlaceholders
  <2> HIDE DEF h
  <2>3. ReqsOK'
    BY <1>a, <2>1, <2>2, UpdateType
  <2> QED BY <1>24, <2>3 DEF ListPlaceholders, TypeOK
<1>25. ASSUME SkipLiveSessions PROVE TypeOK'
  <2> DEFINE ids == reqs[Cron].target \ cache
             h   == [reqs[Cron] EXCEPT !.pc = "reread", !.target = ids]
  <2>1. h \in Handler
    <3>1. ids \in SUBSET FileId
      BY <1>a DEF Handler
    <3> HIDE DEF ids
    <3> QED BY <1>a, <3>1, InPc DEF Handler
  <2>2. Finish(Cron) \/ reqs' = [reqs EXCEPT ![Cron] = h]
    BY <1>25, <1>a DEF SkipLiveSessions
  <2> HIDE DEF h
  <2>3. ReqsOK'
    BY <1>a, <2>1, <2>2, FinishType, UpdateType
  <2> QED BY <1>25, <2>3 DEF SkipLiveSessions, TypeOK
<1>26. ASSUME RereadPlaceholders PROVE TypeOK'
  <2> DEFINE ids == reqs[Cron].target \cap Live
             h   == [reqs[Cron] EXCEPT !.pc = "unlink", !.target = ids, !.seen = Fetched(ids)]
  <2>1. ids \in SUBSET FileId
    BY <1>a DEF Handler
  <2>2. Fetched(ids) \in [FileId -> Row]
    BY <1>a, FetchedType
  <2>3. h \in Handler
    <3> HIDE DEF ids
    <3> QED BY <1>a, <2>1, <2>2, InPc DEF Handler
  <2>4. reqs' = [reqs EXCEPT ![Cron] = h]
    BY <1>26, <1>a DEF RereadPlaceholders
  <2> HIDE DEF h
  <2>5. ReqsOK'
    BY <1>a, <2>3, <2>4, UpdateType
  <2> QED BY <1>26, <2>5 DEF RereadPlaceholders, TypeOK
<1>27. ASSUME NEW f \in FileId, ExpireSession(f) PROVE TypeOK'
  BY <1>27, IdleType DEF ExpireSession, TypeOK
<1>28. ASSUME Crash PROVE TypeOK'
  BY <1>28, IdleType DEF Crash, TypeOK
<1>29. CASE UNCHANGED vars
  BY <1>29 DEF vars, TypeOK
<1> QED
  BY <1>1, <1>2, <1>3, <1>4, <1>5, <1>6, <1>7, <1>8, <1>9, <1>10, <1>11,
     <1>12, <1>13, <1>14, <1>15, <1>16, <1>17, <1>18, <1>19, <1>20, <1>21,
     <1>22, <1>23, <1>24, <1>25, <1>26, <1>27, <1>28, <1>29
     DEF Next, Arrival, HandlerStep, CreateStep, ChunkStep, DeleteStep, CronStep

(* Variables keep their types whatever interleaving and faults occur.       *)
THEOREM TypeCorrect == Spec => []TypeOK
  BY TypeInit, TypeStep, PTL DEF Spec

-----------------------------------------------------------------------------
(* The storage counter and the sizes in the table.                          *)

(* Only a live row has a size.                                              *)
NoGhostSize == \A f \in FileId \ Live : rows[f].size = 0

(* What a step does to the table and the counter.                           *)
RowStep ==
  \/ UNCHANGED <<rows, storage>>
  \/ \E r \in Req, f \in FileId : InsertPlaceholder(r, f)
  \/ \E r \in Req, f \in FileId : PopPlaceholder(r, f)
  \/ \E r \in Req, f \in FileId :
       HookChunkUploaded(r, f) \/ HookChunkUploadFailed(r, f)
  \/ \E r \in Actor : DeleteFiles(r)

LEMMA RowStepCases == [Next]_vars => RowStep
<1> SUFFICES ASSUME [Next]_vars PROVE RowStep
  OBVIOUS
<1>1. ASSUME NEW r \in Req, Arrival(r) PROVE RowStep
  BY <1>1 DEF Arrival, CreateUploadSession, LocalUpload, Delete, RowStep
<1>2. ASSUME NEW r \in Req, CreateStep(r) PROVE RowStep
  BY <1>2 DEF CreateStep, CheckName, InsertFails, RegisterSession, RowStep
<1>3. ASSUME NEW r \in Req, NEW f \in FileId, ChunkStep(r, f) PROVE RowStep
  BY <1>3 DEF ChunkStep, AcceptChunk, RejectChunk, ProbeFile, OpenFile, WriteChunk,
              WriteUnlinked, ForgetSession, TruncateFailedChunk, RowStep
<1>4. ASSUME NEW r \in Actor, DeleteStep(r) PROVE RowStep
  BY <1>4 DEF DeleteStep, DeleteGroupedFile, Unlink, DeleteFilesRollback, RowStep
<1>5. CASE ListPlaceholders \/ SkipLiveSessions \/ RereadPlaceholders \/ Crash
  BY <1>5 DEF ListPlaceholders, SkipLiveSessions, RereadPlaceholders, Crash, RowStep
<1>6. CASE \/ \E r \in Req, f \in FileId : ClientLeaves(r, f)
           \/ \E c \in cancels : CancelUpload(c)
           \/ \E f \in FileId : ExpireSession(f)
  BY <1>6 DEF ClientLeaves, CancelUpload, ExpireSession, RowStep
<1>7. CASE UNCHANGED vars
  BY <1>7 DEF vars, RowStep
<1> QED BY <1>1, <1>2, <1>3, <1>4, <1>5, <1>6, <1>7 DEF Next, HandlerStep, CronStep, Actor

(* A chunk handler resizes with sizes of the right type, or changes nothing.*)
LEMMA ResizeCases ==
  ASSUME TypeOK, NEW r \in Req, NEW f \in FileId,
         HookChunkUploaded(r, f) \/ HookChunkUploadFailed(r, f)
  PROVE  \/ UNCHANGED <<rows, storage>>
         \/ \E new \in 0..FileSize :
              /\ reqs[r].seen[f].size \in 0..FileSize
              /\ UpdateSize(f, reqs[r].seen[f].size, new)
<1>1. /\ reqs[r].seen[f].size \in 0..FileSize
      /\ reqs[r].offset \in 0..FileSize
  BY DEF TypeOK, Handler, Row, Actor
<1>2. reqs[r].offset + ChunkLen(reqs[r].offset) \in 0..FileSize
  BY <1>1, ChunkBounds
<1> QED BY <1>1, <1>2 DEF HookChunkUploaded, HookChunkUploadFailed, RollbackSize, LoseSize

LEMMA NoGhostInit == Init => NoGhostSize
  BY DEF Init, NoGhostSize, Blank

LEMMA NoGhostStep == TypeOK /\ NoGhostSize /\ [Next]_vars => NoGhostSize'
<1> SUFFICES ASSUME TypeOK, NoGhostSize, RowStep PROVE NoGhostSize'
  BY RowStepCases
<1> USE DEF NoGhostSize, Live, Placeholders, Finished
<1>1. CASE UNCHANGED <<rows, storage>>
  BY <1>1
<1>2. ASSUME NEW r \in Req, NEW f \in FileId, InsertPlaceholder(r, f) PROVE NoGhostSize'
  BY <1>2 DEF InsertPlaceholder, TypeOK
<1>3. ASSUME NEW r \in Req, NEW f \in FileId, PopPlaceholder(r, f) PROVE NoGhostSize'
  BY <1>3 DEF PopPlaceholder, TypeOK, Row
<1>4. ASSUME NEW r \in Req, NEW f \in FileId,
             HookChunkUploaded(r, f) \/ HookChunkUploadFailed(r, f)
      PROVE  NoGhostSize'
  BY <1>1, <1>4, ResizeCases DEF UpdateSize, Matches, TypeOK, Row
<1>5. ASSUME NEW r \in Actor, DeleteFiles(r) PROVE NoGhostSize'
  BY <1>5 DEF DeleteFiles, Gone, TypeOK
<1> QED BY <1>1, <1>2, <1>3, <1>4, <1>5 DEF RowStep

LEMMA SizeColumnType ==
  ASSUME NEW table \in [FileId -> Row]
  PROVE  SizeColumn(table) \in Sizes(FileId)
  BY DEF SizeColumn, Sizes, Row

LEMMA UsedType == Used \in Nat
  BY BlocksFinite, FileIdFinite DEF Used

(* An update that finds its row moves the counter by as much as the sum.    *)
LEMMA MatchedUpdate ==
  ASSUME TypeOK, TypeOK', NEW f \in FileId, NEW old \in 0..FileSize,
         NEW new \in 0..FileSize, UpdateSize(f, old, new), Matches(f, old)
  PROVE  storage' - storage = Used' - Used
<1> DEFINE before == SizeColumn(rows)
           after  == SizeColumn(rows')
<1>1. before \in Sizes(FileId) /\ after \in Sizes(FileId)
  BY SizeColumnType DEF TypeOK
<1>2. rows' = [rows EXCEPT ![f].size = new]
  BY DEF UpdateSize
<1>3. before[f] = old /\ after[f] = new
  BY <1>2 DEF SizeColumn, Matches, TypeOK, Row
<1>4. \A g \in FileId \ {f} : after[g] = before[g]
  BY <1>2 DEF SizeColumn, TypeOK
<1> HIDE DEF before, after
<1>5. Total(FileId, after) = Total(FileId, before) - before[f] + after[f]
  BY <1>1, <1>4, TotalUpdate, FileIdFinite
<1>6. Used = Total(FileId, before) /\ Used' = Total(FileId, after)
  BY DEF Used, before, after
<1>7. Used \in Nat /\ Used' \in Nat
  BY <1>6, BlocksFinite, FileIdFinite
<1>8. Used' = Used - old + new
  BY <1>3, <1>5, <1>6
<1> QED BY <1>7, <1>8, SizesNat DEF UpdateSize, TypeOK

(* A transaction that deletes rows gives back the sum of their sizes.       *)
LEMMA DeleteRefunds ==
  ASSUME TypeOK, TypeOK', NEW r \in Actor, DeleteFiles(r)
  PROVE  storage' - storage = Used' - Used
<1> DEFINE size == SizeColumn(rows)
           in   == [f \in FileId |-> IF f \in reqs[r].target THEN size[f] ELSE 0]
           out  == [f \in FileId |-> IF f \in reqs[r].target THEN 0 ELSE size[f]]
<1>1. size \in Sizes(FileId)
  BY SizeColumnType DEF TypeOK
<1>2. in = [f \in FileId |-> IF f \in reqs[r].target THEN reqs[r].seen[f].size ELSE 0]
  BY DEF DeleteFiles, Deletable, Matches, SizeColumn
<1>3. out = SizeColumn(rows')
  BY DEF DeleteFiles, Gone, SizeColumn
<1> HIDE DEF size
<1>4. Total(FileId, size) = Total(FileId, in) + Total(FileId, out)
  BY <1>1, TotalSplit, FileIdFinite
<1> HIDE DEF in, out
<1>5. Total(FileId, in) = SeenTotal(r)
  BY <1>2 DEF SeenTotal
<1>6. Used' = Total(FileId, out) /\ Used = Total(FileId, size)
  BY <1>3 DEF Used, size
<1>7. Used = SeenTotal(r) + Used'
  BY <1>4, <1>5, <1>6
<1>8. Used \in Nat /\ Used' \in Nat /\ SeenTotal(r) \in Nat
  BY <1>5, <1>6, BlocksFinite, FileIdFinite
<1>9. storage' = storage - SeenTotal(r)
  BY DEF DeleteFiles
<1> QED BY <1>7, <1>8, <1>9 DEF TypeOK

(* The only step that moves the counter on its own is an update whose row   *)
(* was changed or deleted since the handler read it.                        *)
Drifts(r, f) ==
  /\ HookChunkUploaded(r, f) \/ HookChunkUploadFailed(r, f)
  /\ ~Matches(f, reqs[r].seen[f].size)

LEMMA ChargedStep ==
  ASSUME TypeOK, TypeOK', NoGhostSize, [Next]_vars
  PROVE  \/ storage' - storage = Used' - Used
         \/ Used' = Used /\ \E r \in Req, f \in FileId : Drifts(r, f)
<1>0. Used \in Nat /\ Used' \in Nat /\ storage \in Nat /\ storage' \in Nat
  <2>1. Used' \in Nat
    BY BlocksFinite, FileIdFinite DEF Used
  <2> QED BY <2>1, UsedType DEF TypeOK
<1>1. ASSUME SizeColumn(rows') = SizeColumn(rows), storage' = storage
      PROVE  storage' - storage = Used' - Used
  <2>1. Used' = Used
    BY <1>1 DEF Used
  <2> QED BY <1>0, <1>1, <2>1
<1>2. ASSUME UNCHANGED <<rows, storage>> PROVE storage' - storage = Used' - Used
  BY <1>1, <1>2 DEF SizeColumn
<1>3. ASSUME NEW r \in Req, NEW f \in FileId, InsertPlaceholder(r, f)
      PROVE  storage' - storage = Used' - Used
  <2>1. rows[f].size = 0
    BY <1>3 DEF InsertPlaceholder, NoGhostSize, Live, Placeholders, Finished
  <2>2. SizeColumn(rows') = SizeColumn(rows)
    BY <1>3, <2>1 DEF InsertPlaceholder, SizeColumn, TypeOK
  <2> QED BY <1>1, <1>3, <2>2 DEF InsertPlaceholder
<1>4. ASSUME NEW r \in Req, NEW f \in FileId, PopPlaceholder(r, f)
      PROVE  storage' - storage = Used' - Used
  <2>1. SizeColumn(rows') = SizeColumn(rows)
    BY <1>4, SMTT(60) DEF PopPlaceholder, SizeColumn, TypeOK, Row
  <2> QED BY <1>1, <1>4, <2>1 DEF PopPlaceholder
<1>5. ASSUME NEW r \in Req, NEW f \in FileId,
             HookChunkUploaded(r, f) \/ HookChunkUploadFailed(r, f)
      PROVE  \/ storage' - storage = Used' - Used
             \/ Used' = Used /\ Drifts(r, f)
  <2>1. CASE Matches(f, reqs[r].seen[f].size)
    <3>1. CASE UNCHANGED <<rows, storage>>
      BY <1>2, <3>1
    <3>2. ASSUME NEW new \in 0..FileSize,
                 reqs[r].seen[f].size \in 0..FileSize,
                 UpdateSize(f, reqs[r].seen[f].size, new)
          PROVE  storage' - storage = Used' - Used
      BY <2>1, <3>2, MatchedUpdate
    <3> QED BY <1>5, <3>1, <3>2, ResizeCases
  <2>2. CASE ~Matches(f, reqs[r].seen[f].size)
    <3>1. rows' = rows
      BY <1>5, <2>2, ResizeCases DEF UpdateSize
    <3>2. Used' = Used
      BY <3>1 DEF Used
    <3> QED BY <1>5, <2>2, <3>2 DEF Drifts
  <2> QED BY <2>1, <2>2
<1>6. ASSUME NEW r \in Actor, DeleteFiles(r) PROVE storage' - storage = Used' - Used
  BY <1>6, DeleteRefunds
<1> QED BY <1>2, <1>3, <1>4, <1>5, <1>6, RowStepCases DEF RowStep

(* Whatever changes the sizes in the table moves the counter by as much.    *)
THEOREM SizesCharged == Spec => SizesAreCharged
<1> DEFINE Charge == Used' # Used => storage' - storage = Used' - Used
<1>1. Init => TypeOK /\ NoGhostSize
  BY TypeInit, NoGhostInit
<1>2. TypeOK /\ NoGhostSize /\ [Next]_vars => (TypeOK /\ NoGhostSize)' /\ [Charge]_vars
  <2> SUFFICES ASSUME TypeOK, NoGhostSize, [Next]_vars
               PROVE  (TypeOK /\ NoGhostSize)' /\ Charge
    OBVIOUS
  <2>1. TypeOK' /\ NoGhostSize'
    BY TypeStep, NoGhostStep
  <2>2. Charge
    BY <2>1, ChargedStep
  <2> QED BY <2>1, <2>2
<1> QED BY <1>1, <1>2, PTL DEF Spec, SizesAreCharged

-----------------------------------------------------------------------------
(* The counter is exact when requests about one object do not overlap and   *)
(* commits do not fail.                                                     *)

(* States in which a handler holds a row it is going to use.                *)
Holding == {"probe", "open", "write", "orphan", "size", "pop", "truncate", "shrink"}

(* No object is worked on twice, so what a handler has read stays true.     *)
Disjoint == \A q, r \in Actor : q # r => reqs[q].target \cap reqs[r].target = {}
Born     == \A r \in Actor : \A f \in reqs[r].target : rows[f].state # "unborn"
Current  == \A r \in Req : reqs[r].pc \in Holding =>
              \A f \in reqs[r].target : Matches(f, reqs[r].seen[f].size)
Alone    == Disjoint /\ Born /\ Current

LEMMA AloneInit == Init => Alone
  BY DEF Init, Alone, Disjoint, Born, Current, Idle, Holding, Actor

(* Steps that do not touch the table, take up no object and start holding   *)
(* nothing.                                                                 *)
LEMMA AloneQuiet ==
  ASSUME Alone, rows' = rows,
         \A r \in Actor : reqs'[r].target \subseteq reqs[r].target,
         \A r \in Req : reqs'[r].pc \in Holding /\ reqs'[r].target # {} =>
                          reqs[r].pc \in Holding /\ reqs'[r].seen = reqs[r].seen
  PROVE  Alone'
<1>1. Disjoint'
  BY DEF Alone, Disjoint
<1>2. Born'
  BY DEF Alone, Born
<1>3. Current'
  BY DEF Alone, Current, Matches, Live, Placeholders, Finished, Actor
<1> QED BY <1>1, <1>2, <1>3 DEF Alone

(* A handler moves on or returns.                                           *)
LEMMA AloneMove ==
  ASSUME TypeOK, Alone, rows' = rows, NEW r \in Actor,
         \/ Finish(r)
         \/ \E pc \in Pc : Goto(r, pc) /\ (pc \in Holding => reqs[r].pc \in Holding)
  PROVE  Alone'
<1>1. reqs \in [Actor -> Handler]
  BY DEF TypeOK
<1>2. ASSUME NEW q \in Actor
      PROVE  /\ reqs'[q].target \subseteq reqs[q].target
             /\ reqs'[q].pc \in Holding /\ reqs'[q].target # {} =>
                  reqs[q].pc \in Holding /\ reqs'[q].seen = reqs[q].seen
  BY <1>1, <1>2 DEF Finish, Goto, Idle, Handler
<1> QED BY <1>2, AloneQuiet DEF Actor

(* A handler takes up objects that exist and that nobody else works on.     *)
LEMMA AloneTake ==
  ASSUME TypeOK, Alone, rows' = rows, NEW r \in Actor, NEW ids \in SUBSET FileId,
         \A f \in ids : rows[f].state # "unborn",
         \A q \in Actor : reqs[q].target \cap ids = {},
         reqs'[r].target = ids, reqs'[r].pc \notin Holding,
         \A q \in Actor \ {r} : reqs'[q] = reqs[q]
  PROVE  Alone'
<1>1. Disjoint'
  BY DEF Alone, Disjoint
<1>2. Born'
  BY DEF Alone, Born
<1>3. Current'
  BY DEF Alone, Current, Matches, Live, Placeholders, Finished, Actor
<1> QED BY <1>1, <1>2, <1>3 DEF Alone

(* A handler changes rows it works on, and still sees them as they are.     *)
LEMMA AloneWrite ==
  ASSUME TypeOK, Alone, NEW r \in Actor,
         rows' \in [FileId -> Row],
         \A f \in FileId \ reqs[r].target : rows'[f] = rows[f],
         \A f \in reqs[r].target : rows'[f].state # "unborn",
         reqs'[r].target \subseteq reqs[r].target,
         r \in Req /\ reqs'[r].pc \in Holding =>
           \A f \in reqs'[r].target : Matches(f, reqs[r].seen[f].size)',
         \A q \in Actor \ {r} : reqs'[q] = reqs[q]
  PROVE  Alone'
<1>1. Disjoint'
  BY DEF Alone, Disjoint
<1>2. \A q \in Actor \ {r} : \A f \in reqs[q].target : f \in FileId /\ rows'[f] = rows[f]
  <2>1. \A q \in Actor : reqs[q].target \subseteq FileId
    BY DEF TypeOK, Handler
  <2> QED BY <2>1 DEF Alone, Disjoint
<1>3. Born'
  BY <1>2 DEF Alone, Born
<1>4. Current'
  BY <1>2 DEF Alone, Current, Matches, Live, Placeholders, Finished, Actor
<1> QED BY <1>1, <1>3, <1>4 DEF Alone

LEMMA AloneStep ==
  ASSUME TypeOK, TypeOK', Alone, ~Overlap, "commit" \notin DbFaults, [Next]_vars
  PROVE  Alone'
<1> DEFINE Others(r) == \A q \in Actor \ {r} : reqs'[q] = reqs[q]
<1>a. /\ reqs \in [Actor -> Handler] /\ rows \in [FileId -> Row] /\ Req \subseteq Actor
      /\ rows' \in [FileId -> Row]
      /\ \A q \in Actor : reqs[q] \in Handler /\ reqs[q].target \subseteq FileId
  BY DEF TypeOK, Actor, Handler
<1>1. ASSUME NEW r \in Req, NEW n \in Name, CreateUploadSession(r, n) PROVE Alone'
  BY <1>1, <1>a, AloneQuiet DEF CreateUploadSession, Holding, Handler
<1>2. ASSUME NEW r \in Req, CheckName(r) \/ InsertFails(r) PROVE Alone'
  BY <1>2, <1>a, AloneMove, InPc DEF CheckName, InsertFails, Holding
<1>3. ASSUME NEW r \in Req, NEW f \in FileId, InsertPlaceholder(r, f) PROVE Alone'
  <2>1. /\ reqs'[r].target = {f} /\ reqs'[r].pc = "register" /\ Others(r)
        /\ rows[f].state = "unborn" /\ rows'[f].state = "placeholder"
        /\ \A g \in FileId \ {f} : rows'[g] = rows[g]
    BY <1>3, <1>a DEF InsertPlaceholder, Handler
  <2>2. \A q \in Actor : f \notin reqs[q].target
    BY <2>1 DEF Alone, Born
  <2>3. Disjoint'
    BY <2>1, <2>2 DEF Alone, Disjoint
  <2>4. Born'
    BY <2>1, <2>2, <1>a DEF Alone, Born
  <2>5. Current'
    BY <2>1, <2>2, <1>a DEF Alone, Current, Holding, Matches, Live, Placeholders, Finished
  <2> QED BY <2>3, <2>4, <2>5 DEF Alone
<1>4. ASSUME NEW r \in Req, NEW f \in FileId, RegisterSession(r, f) \/ ForgetSession(r, f)
      PROVE  Alone'
  BY <1>4, <1>a, AloneMove DEF RegisterSession, ForgetSession
<1>5. ASSUME NEW r \in Req, NEW f \in FileId, NEW o \in Offsets, LocalUpload(r, f, o)
      PROVE  Alone'
  <2>1. reqs'[r].target = {f} /\ reqs'[r].pc = "load" /\ Others(r)
    BY <1>5, <1>a DEF LocalUpload, Handler
  <2>2. \A q \in Actor : reqs[q].target \cap {f} = {}
    BY <1>5 DEF LocalUpload, Free
  <2>3. "load" \notin Holding
    BY DEF Holding
  <2>4. rows' = rows /\ \A g \in {f} : rows[g].state # "unborn"
    BY <1>5 DEF LocalUpload
  <2> QED BY <1>a, <2>1, <2>2, <2>3, <2>4, AloneTake
<1>6. ASSUME NEW r \in Req, NEW f \in FileId, AcceptChunk(r, f) PROVE Alone'
  <2>1. reqs'[r].target = {f} /\ reqs'[r].seen = Fetched({f}) /\ Others(r)
    BY <1>6, <1>a DEF AcceptChunk, At, Handler
  <2>2. rows' = rows /\ f \in Placeholders /\ reqs[r].target = {f}
    BY <1>6 DEF AcceptChunk, ChunkAcceptable, At
  <2>3. Matches(f, reqs[r].seen[f].size)'
    BY <2>1, <2>2 DEF Matches, Fetched, Live, Placeholders, Finished
  <2>4. rows'[f].state # "unborn"
    BY <2>2 DEF Placeholders
  <2> QED BY <1>a, <2>1, <2>2, <2>3, <2>4, AloneWrite
<1>7. ASSUME NEW r \in Req, NEW f \in FileId,
             \/ RejectChunk(r, f) \/ ProbeFile(r, f) \/ WriteUnlinked(r, f)
             \/ TruncateFailedChunk(r, f) \/ WriteChunk(r, f) \/ OpenFile(r, f)
      PROVE  Alone'
  <2>1. rows' = rows
    BY <1>7 DEF RejectChunk, ProbeFile, WriteUnlinked, TruncateFailedChunk, WriteChunk, OpenFile
  <2>2. \/ Finish(r)
        \/ \E pc \in {"open", "write", "size", "shrink"} : Goto(r, pc) /\ reqs[r].pc \in Holding
    BY <1>7 DEF RejectChunk, ProbeFile, WriteUnlinked, TruncateFailedChunk, WriteChunk,
                OpenFile, At, Holding
  <2> QED BY <1>a, <2>1, <2>2, AloneMove, InPc
<1>8. ASSUME NEW r \in Req, NEW f \in FileId,
             HookChunkUploaded(r, f) \/ HookChunkUploadFailed(r, f)
      PROVE  Alone'
  <2> DEFINE old == reqs[r].seen[f].size
  <2>1. reqs[r].target = {f} /\ reqs[r].pc \in Holding /\ Matches(f, old)
    BY <1>8 DEF HookChunkUploaded, HookChunkUploadFailed, At, Holding, Alone, Current
  <2>2. CASE UNCHANGED <<rows, storage>>
            /\ (Goto(r, "truncate") \/ Finish(r))
    BY <1>a, <2>1, <2>2, AloneMove, InPc
  <2>3. ASSUME NEW new \in 0..FileSize, UpdateSize(f, old, new),
               \/ Finish(r)
               \/ reqs' = [reqs EXCEPT ![r].pc = "pop", ![r].seen[f].size = new]
        PROVE  Alone'
    <3>1. rows' = [rows EXCEPT ![f].size = new]
      BY <2>1, <2>3 DEF UpdateSize
    <3>2. /\ \A g \in FileId \ {f} : rows'[g] = rows[g]
          /\ rows'[f].state = rows[f].state /\ rows'[f].size = new
      BY <1>a, <3>1 DEF Row
    <3>3. rows[f].state \in {"placeholder", "finished"}
      BY <2>1 DEF Matches, Live, Placeholders, Finished
    <3>4. \/ reqs'[r] = Idle
          \/ reqs'[r].target = {f} /\ reqs'[r].seen[f].size = new
      <4>1. CASE Finish(r)
        BY <1>a, <4>1 DEF Finish
      <4>2. CASE reqs' = [reqs EXCEPT ![r].pc = "pop", ![r].seen[f].size = new]
        <5>1. reqs[r] \in Handler /\ reqs[r].seen \in [FileId -> Row] /\ reqs[r].seen[f] \in Row
          BY <1>a DEF Handler
        <5>2. reqs'[r] = [reqs[r] EXCEPT !.pc = "pop", !.seen[f].size = new]
          BY <1>a, <4>2
        <5>3. reqs'[r].target = reqs[r].target /\ reqs'[r].seen = [reqs[r].seen EXCEPT ![f].size = new]
          BY <5>1, <5>2 DEF Handler
        <5> QED BY <2>1, <5>1, <5>3 DEF Row
      <4> QED BY <2>3, <4>1, <4>2
    <3>5. Others(r)
      BY <1>a, <2>3 DEF Finish
    <3>6. /\ reqs'[r].target \subseteq reqs[r].target
          /\ reqs'[r].pc \in Holding =>
               \A g \in reqs'[r].target : Matches(g, reqs[r].seen[g].size)'
      BY <2>1, <3>2, <3>3, <3>4 DEF Idle, Holding, Matches, Live, Placeholders, Finished
    <3> QED BY <1>a, <2>1, <3>2, <3>3, <3>5, <3>6, AloneWrite
  <2>4. reqs[r].offset \in 0..FileSize /\ reqs[r].offset + ChunkLen(reqs[r].offset) \in 0..FileSize
    BY <1>a, ChunkBounds DEF Handler
  <2> QED
    BY <1>8, <2>2, <2>3, <2>4
       DEF HookChunkUploaded, HookChunkUploadFailed, RollbackSize, LoseSize
<1>9. ASSUME NEW r \in Req, NEW f \in FileId, PopPlaceholder(r, f) PROVE Alone'
  <2>1. reqs[r].target = {f} /\ Matches(f, reqs[r].seen[f].size)
    BY <1>9 DEF PopPlaceholder, At, Holding, Alone, Current
  <2>2. /\ reqs'[r].target = {f} /\ reqs'[r].seen = reqs[r].seen /\ Others(r)
    BY <1>9, <1>a, <2>1, ZenonT(90) DEF PopPlaceholder, Goto, Handler
  <2>3. /\ \A g \in FileId \ {f} : rows'[g] = rows[g]
        /\ rows'[f].size = rows[f].size
        /\ rows'[f].state \in {"placeholder", "finished"}
    BY <1>9, <1>a, <2>1 DEF PopPlaceholder, Row, Matches, Live, Placeholders, Finished
  <2>4. Matches(f, reqs[r].seen[f].size)'
    BY <2>1, <2>2, <2>3 DEF Matches, Live, Placeholders, Finished
  <2> QED BY <1>a, <2>1, <2>2, <2>3, <2>4, AloneWrite
<1>10. ASSUME NEW r \in Req, NEW f \in FileId, ClientLeaves(r, f) PROVE Alone'
  BY <1>10, <1>a, AloneQuiet DEF ClientLeaves, Handler
<1>11. ASSUME NEW r \in Req, NEW ids \in SUBSET FileId, Delete(r, ids) PROVE Alone'
  <2>1. reqs'[r].target = ids /\ reqs'[r].pc = "unlink" /\ Others(r)
    BY <1>11, <1>a DEF Delete, Handler
  <2>2. \A q \in Actor : reqs[q].target \cap ids = {}
    BY <1>11 DEF Delete, Free
  <2>3. "unlink" \notin Holding
    BY DEF Holding
  <2>4. rows' = rows /\ \A f \in ids : rows[f].state # "unborn"
    BY <1>11 DEF Delete, Live, Placeholders, Finished
  <2> QED BY <1>a, <2>1, <2>2, <2>3, <2>4, AloneTake
<1>12. ASSUME NEW r \in Actor, NEW failed \in SUBSET FileId, DeleteGroupedFile(r, failed)
       PROVE  Alone'
  <2>1. \A q \in Actor : reqs'[q] = IF q = r
          THEN [reqs[r] EXCEPT !.pc = "commit", !.target = reqs[r].target \ failed]
          ELSE Detached(q, reqs[r].target \ failed)
    BY <1>12 DEF DeleteGroupedFile, Unlink
  <2>2. \A q \in Actor : reqs'[q].target \subseteq reqs[q].target /\ reqs'[q].seen = reqs[q].seen
    <3>1. reqs'[r].target \subseteq reqs[r].target /\ reqs'[r].seen = reqs[r].seen
      BY <1>a, <2>1, ZenonT(90) DEF Handler
    <3>2. ASSUME NEW q \in Actor, q # r
          PROVE  reqs'[q].target = reqs[q].target /\ reqs'[q].seen = reqs[q].seen
      BY <1>a, <2>1, <3>2 DEF Detached, Handler
    <3> QED BY <3>1, <3>2
  <2>3. \A q \in Actor : reqs'[q].pc \in Holding => reqs[q].pc \in Holding
    <3>1. reqs'[r].pc = "commit"
      BY <1>a, <2>1 DEF Handler
    <3>2. "commit" \notin Holding /\ "write" \in Holding
      BY DEF Holding
    <3>3. ASSUME NEW q \in Actor, q # r
          PROVE  reqs'[q] = reqs[q] \/ reqs[q].pc = "write"
      BY <2>1, <3>3 DEF Detached
    <3> QED BY <3>1, <3>2, <3>3
  <2>4. rows' = rows
    BY <1>12 DEF DeleteGroupedFile, Unlink
  <2> QED BY <1>a, <2>2, <2>3, <2>4, AloneQuiet
<1>13. ASSUME NEW r \in Actor, DeleteFiles(r) PROVE Alone'
  <2>1. reqs' = [reqs EXCEPT ![r] = Idle]
    BY <1>13 DEF DeleteFiles, Finish
  <2>2. reqs'[r].target = {} /\ Others(r)
    BY <1>a, <2>1 DEF Idle
  <2>3. /\ \A f \in FileId \ reqs[r].target : rows'[f] = rows[f]
        /\ \A f \in reqs[r].target : rows'[f].state # "unborn"
    BY <1>13, <1>a DEF DeleteFiles, Gone
  <2> QED BY <1>a, <2>2, <2>3, AloneWrite
<1>14. ASSUME NEW r \in Actor, DeleteFilesRollback(r) PROVE Alone'
  BY <1>14, <1>a, AloneMove DEF DeleteFilesRollback
<1>15. CASE ListPlaceholders
  <2> DEFINE ids == Placeholders
  <2>1. reqs'[Cron].target = ids /\ reqs'[Cron].pc = "filter" /\ Others(Cron) /\ Cron \in Actor
    BY <1>15, <1>a DEF ListPlaceholders, Handler, Actor
  <2>2. \A q \in Actor : reqs[q].target \cap ids = {}
    BY <1>15 DEF ListPlaceholders, Free
  <2>3. "filter" \notin Holding
    BY DEF Holding
  <2>4. rows' = rows /\ ids \in SUBSET FileId /\ \A f \in ids : rows[f].state # "unborn"
    BY <1>15 DEF ListPlaceholders, Placeholders
  <2> HIDE DEF ids
  <2> QED BY <2>1, <2>2, <2>3, <2>4, AloneTake
<1>16. CASE SkipLiveSessions \/ RereadPlaceholders
  <2>1. Cron \in Actor /\ Cron \notin Req
    BY ReqFinite DEF Actor
  <2>2. \A q \in Actor \ {Cron} : reqs'[q] = reqs[q]
    BY <1>16, <1>a DEF SkipLiveSessions, RereadPlaceholders, Finish
  <2>3. reqs'[Cron].target \subseteq reqs[Cron].target
    BY <1>16, <1>a, <2>1 DEF SkipLiveSessions, RereadPlaceholders, Finish, Idle, Handler
  <2>4. rows' = rows
    BY <1>16 DEF SkipLiveSessions, RereadPlaceholders
  <2> QED BY <1>a, <2>1, <2>2, <2>3, <2>4, AloneQuiet
<1>17. CASE \/ \E c \in cancels : CancelUpload(c)
            \/ \E f \in FileId : ExpireSession(f)
            \/ UNCHANGED vars
  BY <1>17, AloneQuiet DEF CancelUpload, ExpireSession, vars
<1>18. CASE Crash
  BY <1>18, <1>a, AloneQuiet DEF Crash, Idle
<1> QED
  BY <1>1, <1>2, <1>3, <1>4, <1>5, <1>6, <1>7, <1>8, <1>9, <1>10, <1>11, <1>12,
     <1>13, <1>14, <1>15, <1>16, <1>17, <1>18
     DEF Next, Arrival, HandlerStep, CreateStep, ChunkStep, DeleteStep, CronStep, Actor

(* With non-overlapping requests and commits that do not fail, no update    *)
(* misses its row: the counter is the sum of the sizes.                     *)
LEMMA AccountingStep ==
  ASSUME TypeOK, TypeOK', NoGhostSize, Alone, Accounting, [Next]_vars
  PROVE  Accounting'
<1>1. ~ \E r \in Req, f \in FileId : Drifts(r, f)
  BY ZenonT(90) DEF Drifts, HookChunkUploaded, HookChunkUploadFailed, At, Alone, Current, Holding
<1>2. storage' - storage = Used' - Used
  BY <1>1, ChargedStep
<1>3. storage \in Nat /\ storage' \in Nat /\ Used \in Nat /\ Used' \in Nat
  <2>1. Used' \in Nat
    BY BlocksFinite, FileIdFinite DEF Used
  <2> QED BY <2>1, UsedType DEF TypeOK
<1> QED BY <1>2, <1>3 DEF Accounting

LEMMA AccountingInit == Init => Accounting
<1> SUFFICES ASSUME Init PROVE Used = 0
  BY DEF Init, Accounting
<1>1. Blocks(FileId, SizeColumn(rows)) = {}
  BY SizesNat DEF Init, Blocks, SizeColumn, Blank
<1> QED BY <1>1, FS_EmptySet DEF Used, Total

(* The storage counter is exact, whatever files, sizes, crashes, failing    *)
(* statements, short writes, failing removals and departing clients, as     *)
(* long as no two requests overlap on an object and no commit fails.        *)
THEOREM AccountingSerial ==
  ASSUME ~Overlap, "commit" \notin DbFaults
  PROVE  Spec => []Accounting
<1> DEFINE IInv == TypeOK /\ NoGhostSize /\ Alone /\ Accounting
<1>1. Init => IInv
  BY TypeInit, NoGhostInit, AloneInit, AccountingInit
<1>2. IInv /\ [Next]_vars => IInv'
  <2> SUFFICES ASSUME TypeOK, NoGhostSize, Alone, Accounting, [Next]_vars
               PROVE  IInv'
    OBVIOUS
  <2>1. TypeOK' /\ NoGhostSize'
    BY TypeStep, NoGhostStep
  <2>2. Alone'
    BY <2>1, AloneStep
  <2>3. Accounting'
    BY <2>1, AccountingStep
  <2> QED BY <2>1, <2>2, <2>3
<1>3. IInv => Accounting
  OBVIOUS
<1> QED BY <1>1, <1>2, <1>3, PTL DEF Spec

-----------------------------------------------------------------------------
(* How many rows can have one name.                                         *)

(* The handlers that have looked for the name and go on to insert it.       *)
Inserting(n) == {r \in Req : reqs[r].pc = "insert" /\ reqs[r].name = n}

NamesInv == \A n \in Name : Cardinality(Named(n)) + Cardinality(Inserting(n)) <= Cardinality(Req)

LEMMA NamedFinite ==
  \A n \in Name : /\ IsFiniteSet(Named(n)) /\ IsFiniteSet(Inserting(n))
                  /\ Cardinality(Named(n)) \in Nat /\ Cardinality(Inserting(n)) \in Nat
                  /\ Cardinality(Inserting(n)) <= Cardinality(Req)
<1> SUFFICES ASSUME NEW n \in Name
             PROVE  /\ IsFiniteSet(Named(n)) /\ IsFiniteSet(Inserting(n))
                    /\ Cardinality(Named(n)) \in Nat /\ Cardinality(Inserting(n)) \in Nat
                    /\ Cardinality(Inserting(n)) <= Cardinality(Req)
  OBVIOUS
<1>1. Named(n) \subseteq FileId /\ Inserting(n) \subseteq Req
  BY DEF Named, Inserting, Live, Placeholders, Finished
<1>2. IsFiniteSet(FileId) /\ IsFiniteSet(Req)
  BY FileIdFinite, ReqFinite
<1> QED BY <1>1, <1>2, FS_Subset, FS_CardinalityType

(* The table only loses names, but for an insert.                           *)
LEMMA NamedStep ==
  ASSUME TypeOK, [Next]_vars, ~\E r \in Req, f \in FileId : InsertPlaceholder(r, f)
  PROVE  \A n \in Name : Named(n)' \subseteq Named(n)
<1> USE DEF Live, Placeholders, Finished
<1>1. ASSUME \A f \in Live' : f \in Live /\ rows'[f].name = rows[f].name
      PROVE  \A n \in Name : Named(n)' \subseteq Named(n)
  BY <1>1 DEF Named
<1>2. CASE UNCHANGED <<rows, storage>>
  BY <1>1, <1>2
<1>3. ASSUME NEW r \in Req, NEW f \in FileId, PopPlaceholder(r, f)
      PROVE  \A n \in Name : Named(n)' \subseteq Named(n)
  <2>1. CASE rows' = rows
    BY <1>1, <2>1
  <2>2. CASE f \in Live /\ rows' = [rows EXCEPT ![f].state = "finished"]
    <3>1. \A g \in FileId \ {f} : rows'[g] = rows[g]
      BY <2>2 DEF TypeOK
    <3>2. rows'[f].name = rows[f].name
      BY <2>2 DEF TypeOK, Row
    <3> QED BY <1>1, <2>2, <3>1, <3>2
  <2> QED BY <1>3, <2>1, <2>2 DEF PopPlaceholder
<1>4. ASSUME NEW r \in Req, NEW f \in FileId,
             HookChunkUploaded(r, f) \/ HookChunkUploadFailed(r, f)
      PROVE  \A n \in Name : Named(n)' \subseteq Named(n)
  <2>1. rows' = rows \/ \E new \in 0..FileSize : rows' = [rows EXCEPT ![f].size = new]
    BY <1>4, ResizeCases DEF UpdateSize
  <2> QED BY <1>1, <2>1, SMTT(60) DEF TypeOK, Row
<1>5. ASSUME NEW r \in Actor, DeleteFiles(r)
      PROVE  \A n \in Name : Named(n)' \subseteq Named(n)
  BY <1>1, <1>5 DEF DeleteFiles, Gone
<1> QED BY <1>2, <1>3, <1>4, <1>5, RowStepCases DEF RowStep

(* Only CheckName sends a handler to the insert.                            *)
LEMMA InsertingStep ==
  ASSUME TypeOK, [Next]_vars, ~\E r \in Req : CheckName(r)
  PROVE  \A n \in Name : Inserting(n)' \subseteq Inserting(n)
<1> DEFINE Quiet == \A q \in Req : reqs'[q] = reqs[q] \/ reqs'[q].pc # "insert"
<1>1. SUFFICES Quiet
  BY DEF Inserting
<1>2. reqs \in [Actor -> Handler]
  BY DEF TypeOK
<1>3. ASSUME NEW r \in Actor, NEW h, reqs' = [reqs EXCEPT ![r] = h], h.pc # "insert"
      PROVE  Quiet
  BY <1>2, <1>3 DEF Actor
<1>4. Req \subseteq Actor /\ Cron \in Actor
  BY DEF Actor
<1> USE <1>2, <1>4 DEF Handler, Goto, Finish, Idle, At
<1>5. ASSUME NEW r \in Req, Arrival(r) PROVE Quiet
  <2>1. ASSUME NEW n \in Name, CreateUploadSession(r, n) PROVE Quiet
    BY <2>1 DEF CreateUploadSession
  <2>2. ASSUME NEW f \in FileId, NEW o \in Offsets, LocalUpload(r, f, o) PROVE Quiet
    BY <2>2 DEF LocalUpload
  <2>3. ASSUME NEW ids \in SUBSET FileId, Delete(r, ids) PROVE Quiet
    BY <2>3 DEF Delete
  <2> QED BY <1>5, <2>1, <2>2, <2>3 DEF Arrival
<1>6. ASSUME NEW r \in Req, CreateStep(r) PROVE Quiet
  BY <1>6 DEF CreateStep, InsertFails, InsertPlaceholder, RegisterSession
<1>7. ASSUME NEW r \in Req, NEW f \in FileId, ChunkStep(r, f) PROVE Quiet
  <2>1. CASE AcceptChunk(r, f) \/ RejectChunk(r, f) \/ ProbeFile(r, f)
    BY <2>1 DEF AcceptChunk, RejectChunk, ProbeFile
  <2>2. CASE OpenFile(r, f) \/ WriteChunk(r, f) \/ WriteUnlinked(r, f)
    <3>1. \/ reqs' = [reqs EXCEPT ![r].pc = "write"]
          \/ reqs' = [reqs EXCEPT ![r].pc = "size"]
          \/ reqs' = [reqs EXCEPT ![r] = Idle]
      BY <2>2 DEF OpenFile, WriteChunk, WriteUnlinked
    <3> QED BY <3>1
  <2>3. CASE HookChunkUploaded(r, f) \/ PopPlaceholder(r, f) \/ ForgetSession(r, f)
    BY <2>3 DEF HookChunkUploaded, PopPlaceholder, ForgetSession
  <2>4. CASE TruncateFailedChunk(r, f) \/ HookChunkUploadFailed(r, f)
    BY <2>4 DEF TruncateFailedChunk, HookChunkUploadFailed
  <2> QED BY <1>7, <2>1, <2>2, <2>3, <2>4 DEF ChunkStep
<1>8. ASSUME NEW r \in Actor, DeleteStep(r) PROVE Quiet
  <2>1. ASSUME NEW failed, NEW kept, Unlink(r, failed, kept) PROVE Quiet
    BY <2>1 DEF Unlink, Detached
  <2>2. CASE DeleteFiles(r) \/ DeleteFilesRollback(r)
    BY <2>2 DEF DeleteFiles, DeleteFilesRollback
  <2> QED BY <1>8, <2>1, <2>2 DEF DeleteStep, DeleteGroupedFile
<1>9. CASE ListPlaceholders \/ SkipLiveSessions \/ RereadPlaceholders
  BY <1>9 DEF ListPlaceholders, SkipLiveSessions, RereadPlaceholders
<1>10. ASSUME NEW r \in Req, NEW f \in FileId, ClientLeaves(r, f) PROVE Quiet
  BY <1>10 DEF ClientLeaves
<1>11. CASE \/ \E c \in cancels : CancelUpload(c)
            \/ \E f \in FileId : ExpireSession(f)
            \/ Crash
            \/ UNCHANGED vars
  BY <1>11 DEF CancelUpload, ExpireSession, Crash, vars
<1> QED
  BY <1>5, <1>6, <1>7, <1>8, <1>9, <1>10, <1>11 DEF Next, HandlerStep, CronStep

(* An insert under way becomes a row.                                       *)
LEMMA Passing ==
  ASSUME NEW A, NEW B, NEW a, NEW b \in B, NEW c \in Nat,
         IsFiniteSet(A), IsFiniteSet(B), Cardinality(A) + Cardinality(B) <= c
  PROVE  Cardinality(A \cup {a}) + Cardinality(B \ {b}) <= c
<1>1. Cardinality(A) \in Nat /\ Cardinality(B) \in Nat
  BY FS_CardinalityType
<1>2. Cardinality(A \cup {a}) = Cardinality(A) \/ Cardinality(A \cup {a}) = Cardinality(A) + 1
  BY FS_AddElement
<1>3. Cardinality(B \ {b}) = Cardinality(B) - 1
  BY FS_RemoveElement
<1> QED BY <1>1, <1>2, <1>3

LEMMA NamesStep == TypeOK /\ NamesInv /\ [Next]_vars => NamesInv'
<1> SUFFICES ASSUME TypeOK, NamesInv, [Next]_vars, NEW n \in Name
             PROVE  Cardinality(Named(n)') + Cardinality(Inserting(n)') <= Cardinality(Req)
  BY DEF NamesInv
<1> DEFINE N == Named(n)  I == Inserting(n)
<1>1. /\ IsFiniteSet(N) /\ IsFiniteSet(I)
      /\ Cardinality(N) \in Nat /\ Cardinality(I) \in Nat /\ Cardinality(Req) \in Nat
      /\ Cardinality(N) + Cardinality(I) <= Cardinality(Req)
  BY NamedFinite, ReqFinite, FS_CardinalityType DEF NamesInv
<1>2. /\ IsFiniteSet(N') /\ IsFiniteSet(I')
      /\ Cardinality(N') \in Nat /\ Cardinality(I') \in Nat
      /\ Cardinality(I') <= Cardinality(Req)
  <2>1. N' \subseteq FileId /\ I' \subseteq Req
    BY DEF Named, Inserting, Live, Placeholders, Finished
  <2> QED BY <2>1, FileIdFinite, ReqFinite, FS_Subset, FS_CardinalityType
<1>3. ASSUME N' \subseteq N, I' \subseteq I
      PROVE  Cardinality(N') + Cardinality(I') <= Cardinality(Req)
  <2>1. Cardinality(N') <= Cardinality(N) /\ Cardinality(I') <= Cardinality(I)
    BY <1>1, <1>3, FS_Subset
  <2> QED BY <1>1, <1>2, <2>1
<1>4. CASE \E r \in Req, f \in FileId : InsertPlaceholder(r, f)
  <2> PICK r \in Req, f \in FileId : InsertPlaceholder(r, f)
    BY <1>4
  <2>1. r \in Actor /\ reqs \in [Actor -> Handler]
    BY DEF TypeOK, Actor
  <2>2. I' = I \ {r} /\ (r \in I <=> reqs[r].name = n)
    BY <2>1 DEF InsertPlaceholder, Inserting, Handler, Actor
  <2>3. N' = IF reqs[r].name = n THEN N \cup {f} ELSE N
    BY DEF InsertPlaceholder, Named, Live, Placeholders, Finished, TypeOK
  <2>4. CASE reqs[r].name = n
    <3>1. Cardinality(N \cup {f}) + Cardinality(I \ {r}) <= Cardinality(Req)
      BY <1>1, <2>2, <2>4, Passing, Zenon
    <3> QED BY <2>2, <2>3, <2>4, <3>1
  <2>5. CASE reqs[r].name # n
    BY <2>2, <2>3, <2>5, <1>3
  <2> QED BY <2>4, <2>5
<1>5. CASE \E r \in Req : CheckName(r)
  <2> PICK r \in Req : CheckName(r)
    BY <1>5
  <2>1. r \in Actor /\ reqs \in [Actor -> Handler]
    BY DEF TypeOK, Actor
  <2>2. N' = N
    BY DEF CheckName, Named, Live, Placeholders, Finished
  <2>3. CASE N = {}
    <3>1. Cardinality(N) = 0
      BY <2>3, FS_EmptySet, Zenon
    <3> QED BY <1>1, <1>2, <2>2, <3>1
  <2>4. CASE N # {}
    <3>1. I' \subseteq I
      BY <2>1, <2>4 DEF CheckName, Named, Inserting, Goto, Finish, Idle, Handler, Actor
    <3> QED BY <1>3, <2>2, <3>1
  <2> QED BY <2>3, <2>4
<1>6. CASE /\ ~\E r \in Req, f \in FileId : InsertPlaceholder(r, f)
           /\ ~\E r \in Req : CheckName(r)
  BY <1>3, <1>6, NamedStep, InsertingStep
<1> QED BY <1>4, <1>5, <1>6

(* GenericAfterUpload and AddFile (hooks.go:231, 239): whatever overlaps    *)
(* with the check and the insert of a name, its rows never outnumber the    *)
(* handlers.  A handler that finds the name free may still find it taken    *)
(* when it inserts: the invariant counts those that are on their way.       *)
THEOREM NamesBounded == Spec => []NamesBound
<1>1. Init => NamesInv
  <2> SUFFICES ASSUME Init, NEW n \in Name
               PROVE  Cardinality(Named(n)) + Cardinality(Inserting(n)) <= Cardinality(Req)
    BY DEF NamesInv
  <2>1. Named(n) = {} /\ Inserting(n) = {}
    BY DEF Init, Named, Inserting, Live, Placeholders, Finished, Blank, Idle, Actor
  <2> QED BY <2>1, FS_EmptySet, ReqFinite, FS_CardinalityType
<1>2. TypeOK /\ NamesInv => NamesBound
  <2> SUFFICES ASSUME NamesInv, NEW n \in Name PROVE Cardinality(Named(n)) <= Cardinality(Req)
    BY DEF NamesBound
  <2>1. Cardinality(Named(n)) + Cardinality(Inserting(n)) <= Cardinality(Req)
    BY DEF NamesInv
  <2> QED BY <2>1, NamedFinite, ReqFinite, FS_CardinalityType
<1> QED BY <1>1, <1>2, NamesStep, TypeInit, TypeStep, PTL DEF Spec

-----------------------------------------------------------------------------
(* How far the quota can be exceeded.                                       *)

(* A handler whose chunk has passed, or is bound to pass, the capacity      *)
(* check and has not been charged yet.                                      *)
InFlight == {"probe", "open", "write", "orphan", "size"}

Admitted(r) ==
  \/ reqs[r].pc \in InFlight
  \/ reqs[r].pc = "load" /\ Remaining(reqs[r].used) >= ChunkLen(reqs[r].offset)

Pending(r)  == IF Admitted(r) THEN ChunkLen(reqs[r].offset) ELSE 0
PendingSum  == Total(Req, [r \in Req |-> Pending(r)])

(* The row a handler has read reaches up to the start of its chunk.         *)
SeenAhead == \A r \in Req : reqs[r].pc \in Holding =>
               \A f \in reqs[r].target : reqs[r].seen[f].size >= reqs[r].offset

Headroom == storage + PendingSum <= MaxStorage + (Cardinality(Req) - 1) * LargestChunk
QInv     == SeenAhead /\ Headroom

LEMMA PendingType ==
  TypeOK => /\ [r \in Req |-> Pending(r)] \in Sizes(Req)
            /\ \A r \in Req : Pending(r) \in 0..LargestChunk
<1> SUFFICES ASSUME TypeOK
             PROVE  /\ [r \in Req |-> Pending(r)] \in Sizes(Req)
                    /\ \A r \in Req : Pending(r) \in 0..LargestChunk
  OBVIOUS
<1>1. \A r \in Req : ChunkLen(reqs[r].offset) \in 0..LargestChunk
  BY ChunkBounds DEF TypeOK, Handler, Actor
<1>2. LargestChunk \in 0..FileSize
  BY SizesNat DEF LargestChunk
<1>3. \A r \in Req : Pending(r) \in 0..LargestChunk
  BY <1>1, <1>2, SizesNat DEF Pending
<1> HIDE DEF Pending
<1> QED BY <1>2, <1>3, SizesNat DEF Sizes

LEMMA PendingTypeNext ==
  ASSUME TypeOK'
  PROVE  /\ [r \in Req |-> Pending(r)'] \in Sizes(Req)
         /\ \A r \in Req : Pending(r)' \in 0..LargestChunk
<1>1. (TypeOK => /\ [r \in Req |-> Pending(r)] \in Sizes(Req)
                 /\ \A r \in Req : Pending(r) \in 0..LargestChunk)'
  BY PendingType, PTL
<1> QED BY <1>1

LEMMA BoundType ==
  /\ LargestChunk \in Nat
  /\ Cardinality(Req) - 1 \in Nat
  /\ (Cardinality(Req) - 1) * LargestChunk \in Nat
<1>1. LargestChunk \in Nat
  BY SizesNat DEF LargestChunk
<1>2. Cardinality(Req) \in Nat /\ Cardinality(Req) # 0
  BY ReqFinite, FS_CardinalityType, FS_EmptySet
<1> QED BY <1>1, <1>2

LEMMA PendingSumType == PendingSum \in Nat
  BY BlocksFinite, ReqFinite DEF PendingSum

LEMMA QuotaInit == Init => QInv
<1> SUFFICES ASSUME Init PROVE QInv
  OBVIOUS
<1>1. SeenAhead
  BY DEF Init, SeenAhead, Holding, Idle, Actor
<1>2. [r \in Req |-> Pending(r)] = [r \in Req |-> 0]
  BY DEF Init, Pending, Admitted, InFlight, Idle, Actor
<1>3. Blocks(Req, [r \in Req |-> 0]) = {}
  BY SizesNat DEF Blocks
<1>4. PendingSum = 0
  BY <1>2, <1>3, FS_EmptySet DEF PendingSum, Total
<1>5. storage = 0
  BY DEF Init
<1>6. Headroom
  BY <1>4, <1>5, BoundType, SizesNat DEF Headroom
<1> QED BY <1>1, <1>6 DEF QInv

(* Nothing is charged and nothing more is admitted.                         *)
LEMMA QuotaQuiet ==
  ASSUME TypeOK, TypeOK', Headroom, storage' <= storage,
         \A r \in Req : Pending(r)' <= Pending(r)
  PROVE  Headroom'
<1> DEFINE before == [r \in Req |-> Pending(r)]
           after  == [r \in Req |-> Pending(r)']
<1>1. before \in Sizes(Req) /\ after \in Sizes(Req)
  BY PendingType, PendingTypeNext
<1>2. \A r \in Req : after[r] <= before[r]
  OBVIOUS
<1>3. PendingSum = Total(Req, before) /\ PendingSum' = Total(Req, after)
  BY DEF PendingSum
<1> HIDE DEF before, after
<1>4. Total(Req, after) <= Total(Req, before)
  BY <1>1, <1>2, TotalMonotone, ReqFinite
<1>5. Total(Req, after) \in Nat /\ Total(Req, before) \in Nat
  BY BlocksFinite, ReqFinite
<1> QED BY <1>3, <1>4, <1>5, BoundType, SizesNat DEF Headroom, TypeOK

(* Only one handler moves: the sum of the pending chunks changes with it.   *)
LEMMA PendingUpdate ==
  ASSUME TypeOK, TypeOK', NEW r \in Req, \A q \in Actor \ {r} : reqs'[q] = reqs[q]
  PROVE  PendingSum' = PendingSum - Pending(r) + Pending(r)'
<1> DEFINE before == [q \in Req |-> Pending(q)]
           after  == [q \in Req |-> Pending(q)']
<1>1. before \in Sizes(Req) /\ after \in Sizes(Req)
  BY PendingType, PendingTypeNext
<1>2. \A q \in Req \ {r} : after[q] = before[q]
  BY DEF Pending, Admitted, InFlight, Actor
<1>3. PendingSum = Total(Req, before) /\ PendingSum' = Total(Req, after)
  BY DEF PendingSum
<1>4. before[r] = Pending(r) /\ after[r] = Pending(r)'
  OBVIOUS
<1> HIDE DEF before, after
<1>5. Total(Req, after) = Total(Req, before) - before[r] + after[r]
  BY <1>1, <1>2, TotalUpdate, ReqFinite
<1> QED BY <1>3, <1>4, <1>5

(* A handler that is not newly admitted, and no charge.                     *)
LEMMA QuotaMove ==
  ASSUME TypeOK, TypeOK', QInv, NEW r \in Actor, storage' <= storage,
         \A q \in Actor \ {r} : reqs'[q] = reqs[q],
         r \in Req => (Admitted(r)' => Admitted(r) /\ reqs'[r].offset = reqs[r].offset),
         r \in Req /\ reqs'[r].pc \in Holding =>
           \A f \in reqs'[r].target : reqs'[r].seen[f].size >= reqs'[r].offset
  PROVE  QInv'
<1>1. SeenAhead'
  BY DEF QInv, SeenAhead, Actor
<1>2. \A q \in Req : Pending(q)' <= Pending(q)
  <2>1. \A q \in Req : Pending(q) \in Nat
    BY PendingType, BoundType
  <2>2. ASSUME NEW q \in Req, q # r PROVE Pending(q)' = Pending(q)
    BY <2>2 DEF Pending, Admitted, InFlight, Actor
  <2>3. ASSUME r \in Req PROVE Pending(r)' = Pending(r) \/ Pending(r)' = 0
    BY <2>3 DEF Pending
  <2> QED BY <2>1, <2>2, <2>3
<1>3. Headroom'
  BY <1>2, QuotaQuiet DEF QInv
<1> QED BY <1>1, <1>3 DEF QInv

(* A chunk arrives: it is bound to pass the check only if the counter, as   *)
(* the middleware has just read it, leaves room for it.                     *)
LEMMA QuotaArrival ==
  ASSUME TypeOK, TypeOK', QInv, NEW r \in Req, NEW f \in FileId, NEW o \in Offsets,
         LocalUpload(r, f, o)
  PROVE  QInv'
<1>1. /\ reqs \in [Actor -> Handler] /\ r \in Actor /\ storage \in Nat
      /\ o \in 0..FileSize
  BY OffsetsType DEF TypeOK, Actor
<1>2. /\ reqs'[r].pc = "load" /\ reqs'[r].used = storage /\ reqs'[r].offset = o
      /\ \A q \in Actor \ {r} : reqs'[q] = reqs[q]
      /\ storage' = storage /\ reqs[r].pc = "idle"
  BY <1>1 DEF LocalUpload, Handler
<1>3. SeenAhead'
  BY <1>2 DEF QInv, SeenAhead, Holding, Actor
<1>4. Pending(r) = 0
  BY <1>2 DEF Pending, Admitted, InFlight
<1>5. PendingSum' = PendingSum + Pending(r)'
  BY <1>2, <1>4, PendingUpdate, PendingSumType
<1>6. CASE Pending(r)' = 0
  <2>1. Headroom'
    BY <1>2, <1>5, <1>6, PendingSumType DEF Headroom, QInv
  <2> QED BY <1>3, <2>1 DEF QInv
<1>7. CASE Pending(r)' # 0
  <2>1. Pending(r)' = ChunkLen(o) /\ Remaining(storage) >= ChunkLen(o) /\ ChunkLen(o) # 0
    BY <1>2, <1>7 DEF Pending, Admitted, InFlight
  <2>2. ChunkLen(o) \in Nat
    BY <1>1, ChunkBounds, BoundType
  <2>3. storage + ChunkLen(o) <= MaxStorage
    BY <1>1, <2>1, <2>2, SizesNat DEF Remaining
  <2>4. PendingSum <= (Cardinality(Req) - 1) * LargestChunk
    <3> DEFINE before == [q \in Req |-> Pending(q)]
    <3>1. before \in Sizes(Req) /\ \A q \in Req : Pending(q) \in 0..LargestChunk
      BY PendingType
    <3>2. before[r] = 0 /\ \A q \in Req : before[q] <= LargestChunk
      BY <1>4, <3>1, BoundType
    <3> HIDE DEF before
    <3>3. Total(Req, before) <= (Cardinality(Req) - 1) * LargestChunk
      BY <3>1, <3>2, BoundType, TotalBound, ReqFinite
    <3> QED BY <3>3 DEF PendingSum, before
  <2>5. Headroom'
    BY <1>1, <1>2, <1>5, <2>1, <2>2, <2>3, <2>4, BoundType, PendingSumType, SizesNat DEF Headroom
  <2> QED BY <1>3, <2>5 DEF QInv
<1> QED BY <1>6, <1>7

(* A chunk is charged: at most its length, which is then no longer pending. *)
LEMMA QuotaCharge ==
  ASSUME TypeOK, TypeOK', QInv, NEW r \in Req, NEW f \in FileId, HookChunkUploaded(r, f)
  PROVE  QInv'
<1> DEFINE len == ChunkLen(reqs[r].offset)
           old == reqs[r].seen[f].size
           new == reqs[r].offset + len
<1>1. /\ reqs \in [Actor -> Handler] /\ r \in Actor /\ storage \in Nat /\ storage' \in Nat
      /\ reqs[r] \in Handler /\ reqs[r].seen \in [FileId -> Row] /\ reqs[r].seen[f] \in Row
  BY DEF TypeOK, Handler, Actor
<1>2. reqs[r].offset \in 0..FileSize /\ old \in 0..FileSize /\ len \in Nat /\ new \in Nat
  BY <1>1, ChunkBounds, BoundType, SizesNat DEF Handler, Row
<1>3. reqs[r].target = {f} /\ reqs[r].pc = "size" /\ old >= reqs[r].offset
  BY DEF HookChunkUploaded, At, QInv, SeenAhead, Holding
<1>4. storage' <= storage + len
  BY <1>1, <1>2, <1>3, SizesNat DEF HookChunkUploaded, UpdateSize, RollbackSize, LoseSize
<1>5. \A q \in Actor \ {r} : reqs'[q] = reqs[q]
  BY <1>1 DEF HookChunkUploaded, Goto, Finish
<1>6. \/ reqs'[r].pc = "idle"
      \/ /\ reqs'[r].pc = "truncate"
         /\ reqs'[r].target = {f} /\ reqs'[r].seen[f].size >= reqs'[r].offset
      \/ /\ reqs'[r].pc \in {"pop", "truncate"}
         /\ reqs'[r].target = {f} /\ reqs'[r].seen[f].size >= reqs'[r].offset
  <2>1. CASE Finish(r)
    BY <1>1, <2>1 DEF Finish, Idle
  <2>2. CASE Goto(r, "truncate")
    <3>1. reqs'[r] = [reqs[r] EXCEPT !.pc = "truncate"]
      BY <1>1, <2>2 DEF Goto
    <3> QED BY <1>1, <1>3, <3>1 DEF Handler
  <2>3. ASSUME NEW pc \in {"pop", "truncate"},
               reqs' = [reqs EXCEPT ![r].pc = pc, ![r].seen[f].size = new]
        PROVE  /\ reqs'[r].pc \in {"pop", "truncate"} /\ reqs'[r].target = {f}
               /\ reqs'[r].seen[f].size >= reqs'[r].offset
    <3>1. reqs'[r] = [reqs[r] EXCEPT !.pc = pc, !.seen[f].size = new]
      BY <1>1, <2>3
    <3>2. /\ reqs'[r].pc = pc /\ reqs'[r].target = {f} /\ reqs'[r].offset = reqs[r].offset
          /\ reqs'[r].seen = [reqs[r].seen EXCEPT ![f].size = new]
      BY <1>1, <1>3, <3>1 DEF Handler
    <3>3. reqs'[r].seen[f].size = new
      BY <1>1, <3>2 DEF Row
    <3> QED BY <1>2, <3>2, <3>3, SizesNat
  <2> HIDE DEF new
  <2>4. \/ Finish(r) \/ Goto(r, "truncate")
        \/ \E pc \in {"pop", "truncate"} :
             reqs' = [reqs EXCEPT ![r].pc = pc, ![r].seen[f].size = new]
    BY DEF HookChunkUploaded, new
  <2> QED BY <2>1, <2>2, <2>3, <2>4
<1>7. SeenAhead'
  BY <1>5, <1>6 DEF QInv, SeenAhead, Holding, Actor
<1>8. Pending(r) = len /\ Pending(r)' = 0
  BY <1>3, <1>6 DEF Pending, Admitted, InFlight
<1>9. PendingSum' = PendingSum - len
  BY <1>2, <1>5, <1>8, PendingUpdate, PendingSumType
<1> HIDE DEF len
<1>10. Headroom'
  BY <1>1, <1>2, <1>4, <1>9, BoundType, PendingSumType, SizesNat DEF QInv, Headroom
<1> QED BY <1>7, <1>10 DEF QInv

(* A handler ends, or moves on without being newly admitted.                *)
LEMMA QuotaGoto ==
  ASSUME TypeOK, TypeOK', QInv, NEW r \in Actor, storage' <= storage,
         \/ Finish(r)
         \/ \E pc \in Pc : /\ Goto(r, pc)
                           /\ pc \in Holding => reqs[r].pc \in Holding
                           /\ pc \in InFlight => reqs[r].pc \in InFlight
                           /\ pc # "load"
  PROVE  QInv'
<1>1. reqs \in [Actor -> Handler] /\ \A q \in Actor \ {r} : reqs'[q] = reqs[q]
  BY DEF TypeOK, Finish, Goto
<1>2. CASE Finish(r)
  <2>1. reqs'[r].pc = "idle" /\ ~Admitted(r)' /\ "idle" \notin Holding
    BY <1>1, <1>2 DEF Finish, Idle, Admitted, InFlight, Holding
  <2> QED BY <1>1, <2>1, QuotaMove
<1>3. ASSUME NEW pc \in Pc, Goto(r, pc), pc \in Holding => reqs[r].pc \in Holding,
             pc \in InFlight => reqs[r].pc \in InFlight, pc # "load"
      PROVE  QInv'
  <2>1. /\ reqs'[r].pc = pc /\ reqs'[r].offset = reqs[r].offset
        /\ reqs'[r].target = reqs[r].target /\ reqs'[r].seen = reqs[r].seen
    BY <1>1, <1>3 DEF Goto, Handler
  <2>2. Admitted(r)' => Admitted(r)
    BY <1>3, <2>1 DEF Admitted
  <2>3. r \in Req /\ reqs'[r].pc \in Holding =>
          \A f \in reqs'[r].target : reqs'[r].seen[f].size >= reqs'[r].offset
    BY <1>3, <2>1 DEF QInv, SeenAhead
  <2> QED BY <1>1, <2>1, <2>2, <2>3, QuotaMove
<1> QED BY <1>2, <1>3

(* A chunk passes the check: it was bound to, and the row reaches its start.*)
LEMMA QuotaAccept ==
  ASSUME TypeOK, TypeOK', QInv, NEW r \in Req, NEW f \in FileId, AcceptChunk(r, f)
  PROVE  QInv'
<1>1. reqs \in [Actor -> Handler] /\ r \in Actor /\ storage' = storage /\ storage \in Nat
  BY DEF TypeOK, Actor, AcceptChunk
<1>2. \A q \in Actor \ {r} : reqs'[q] = reqs[q]
  BY <1>1 DEF AcceptChunk
<1>3. /\ reqs'[r].seen = Fetched({f}) /\ reqs'[r].offset = reqs[r].offset
      /\ reqs'[r].target = {f}
  BY <1>1 DEF AcceptChunk, At, Handler
<1>4. Admitted(r)
  BY DEF AcceptChunk, At, ChunkAcceptable, Admitted
<1>5. reqs'[r].seen[f].size >= reqs'[r].offset
  BY <1>3 DEF AcceptChunk, ChunkAcceptable, Fetched
<1> QED BY <1>1, <1>2, <1>3, <1>4, <1>5, QuotaMove

(* The row goes back to where the failed chunk started.                     *)
LEMMA QuotaShrink ==
  ASSUME TypeOK, TypeOK', QInv, NEW r \in Req, NEW f \in FileId, HookChunkUploadFailed(r, f)
  PROVE  QInv'
<1>1. /\ r \in Actor /\ storage \in Nat
      /\ reqs[r].offset \in 0..FileSize /\ reqs[r].seen[f].size \in 0..FileSize
  BY DEF TypeOK, Actor, Handler, Row
<1>2. reqs[r].seen[f].size >= reqs[r].offset
  BY DEF HookChunkUploadFailed, At, QInv, SeenAhead, Holding
<1>3. storage' <= storage
  BY <1>1, <1>2, SizesNat
     DEF HookChunkUploadFailed, UpdateSize, RollbackSize, LoseSize
<1>4. Finish(r)
  BY DEF HookChunkUploadFailed
<1> QED BY <1>1, <1>3, <1>4, QuotaGoto

(* Removing files moves the writers of these files aside.                   *)
LEMMA QuotaUnlink ==
  ASSUME TypeOK, TypeOK', QInv, NEW r \in Actor, NEW failed \in SUBSET FileId,
         DeleteGroupedFile(r, failed)
  PROVE  QInv'
<1>1. /\ reqs \in [Actor -> Handler] /\ Req \subseteq Actor
      /\ storage' = storage /\ storage \in Nat
  BY DEF TypeOK, Actor, DeleteGroupedFile, Unlink
<1>2. reqs'[r].pc = "commit"
  BY <1>1 DEF DeleteGroupedFile, Unlink, Handler
<1>3. ASSUME NEW q \in Actor \ {r}
      PROVE  \/ reqs'[q] = reqs[q]
             \/ /\ reqs[q].pc = "write" /\ reqs'[q].pc = "orphan"
                /\ reqs'[q].target = reqs[q].target /\ reqs'[q].seen = reqs[q].seen
                /\ reqs'[q].offset = reqs[q].offset
  BY <1>1 DEF DeleteGroupedFile, Unlink, Detached, Handler
<1>4. SeenAhead'
  BY <1>1, <1>2, <1>3 DEF QInv, SeenAhead, Holding
<1>5. \A q \in Req : Pending(q)' <= Pending(q)
  <2>1. \A q \in Req : Pending(q) \in Nat
    BY PendingType, BoundType
  <2>2. Pending(r)' = 0
    BY <1>2 DEF Pending, Admitted, InFlight
  <2>3. ASSUME NEW q \in Req, q # r PROVE Pending(q)' = Pending(q)
    BY <1>1, <1>3, <2>3 DEF Pending, Admitted, InFlight
  <2> QED BY <2>1, <2>2, <2>3
<1> QED BY <1>1, <1>4, <1>5, QuotaQuiet DEF QInv

(* Nobody is left after a crash.                                            *)
LEMMA QuotaCrash ==
  ASSUME TypeOK, TypeOK', QInv, Crash
  PROVE  QInv'
<1>1. storage' = storage /\ storage \in Nat /\ \A r \in Req : reqs'[r].pc = "idle"
  BY DEF TypeOK, Crash, Idle, Actor
<1>2. SeenAhead'
  BY <1>1 DEF SeenAhead, Holding
<1>3. \A q \in Req : Pending(q)' <= Pending(q)
  <2>1. \A q \in Req : Pending(q) \in Nat
    BY PendingType, BoundType
  <2>2. \A q \in Req : Pending(q)' = 0
    BY <1>1 DEF Pending, Admitted, InFlight
  <2> QED BY <2>1, <2>2
<1> QED BY <1>1, <1>2, <1>3, QuotaQuiet DEF QInv

LEMMA QuotaStep == TypeOK /\ TypeOK' /\ QInv /\ [Next]_vars => QInv'
<1> SUFFICES ASSUME TypeOK, TypeOK', QInv, [Next]_vars PROVE QInv'
  OBVIOUS
<1>a. /\ reqs \in [Actor -> Handler] /\ Req \subseteq Actor /\ storage \in Nat
      /\ Cron \in Actor /\ Cron \notin Req
  BY ReqFinite DEF TypeOK, Actor
<1>1. ASSUME NEW r \in Req, NEW n \in Name, CreateUploadSession(r, n) PROVE QInv'
  <2>1. reqs'[r].pc = "check" /\ \A q \in Actor \ {r} : reqs'[q] = reqs[q]
    BY <1>1, <1>a DEF CreateUploadSession, Handler
  <2> QED BY <1>1, <1>a, <2>1, QuotaMove DEF CreateUploadSession, Admitted, InFlight, Holding
<1>2. ASSUME NEW r \in Req, CheckName(r) \/ InsertFails(r) PROVE QInv'
  BY <1>2, <1>a, InPc, QuotaGoto DEF CheckName, InsertFails, Holding, InFlight
<1>3. ASSUME NEW r \in Req, NEW f \in FileId, InsertPlaceholder(r, f) PROVE QInv'
  <2>1. reqs'[r].pc = "register" /\ \A q \in Actor \ {r} : reqs'[q] = reqs[q]
    BY <1>3, <1>a DEF InsertPlaceholder, Handler
  <2> QED BY <1>3, <1>a, <2>1, QuotaMove DEF InsertPlaceholder, Admitted, InFlight, Holding
<1>4. ASSUME NEW r \in Req, NEW f \in FileId,
             RegisterSession(r, f) \/ ForgetSession(r, f) \/ RejectChunk(r, f)
      PROVE  QInv'
  BY <1>4, <1>a, QuotaGoto DEF RegisterSession, ForgetSession, RejectChunk
<1>5. ASSUME NEW r \in Req, NEW f \in FileId, ProbeFile(r, f) \/ OpenFile(r, f) PROVE QInv'
  BY <1>5, <1>a, InPc, QuotaGoto DEF ProbeFile, OpenFile, At, Holding, InFlight
<1>6. ASSUME NEW r \in Req, NEW f \in FileId, WriteChunk(r, f) \/ WriteUnlinked(r, f)
      PROVE  QInv'
  <2>1. reqs[r].pc \in {"write", "orphan"} /\ storage' = storage
    BY <1>6, Zenon DEF WriteChunk, WriteUnlinked, At
  <2>2. Finish(r) \/ Goto(r, "size")
    BY <1>6 DEF WriteChunk, WriteUnlinked
  <2> QED BY <1>a, <2>1, <2>2, InPc, QuotaGoto DEF Holding, InFlight
<1>7. ASSUME NEW r \in Req, NEW f \in FileId,
             PopPlaceholder(r, f) \/ TruncateFailedChunk(r, f)
      PROVE  QInv'
  BY <1>7, <1>a, InPc, QuotaGoto
     DEF PopPlaceholder, TruncateFailedChunk, At, Holding, InFlight
<1>8. ASSUME NEW r \in Req, NEW f \in FileId, ClientLeaves(r, f) PROVE QInv'
  <2>1. /\ reqs'[r].pc = reqs[r].pc /\ reqs'[r].target = reqs[r].target
        /\ reqs'[r].seen = reqs[r].seen /\ reqs'[r].used = reqs[r].used
        /\ reqs'[r].offset = reqs[r].offset
        /\ \A q \in Actor \ {r} : reqs'[q] = reqs[q]
    BY <1>8, <1>a DEF ClientLeaves, Handler
  <2>2. Admitted(r)' => Admitted(r)
    BY <2>1 DEF Admitted
  <2>3. storage' <= storage
    BY <1>8, <1>a DEF ClientLeaves
  <2>4. reqs'[r].pc \in Holding =>
          \A g \in reqs'[r].target : reqs'[r].seen[g].size >= reqs'[r].offset
    BY <2>1 DEF QInv, SeenAhead
  <2> QED BY <1>a, <2>1, <2>2, <2>3, <2>4, QuotaMove
<1>9. ASSUME NEW r \in Req, NEW ids \in SUBSET FileId, Delete(r, ids) PROVE QInv'
  <2>1. reqs'[r].pc = "unlink" /\ \A q \in Actor \ {r} : reqs'[q] = reqs[q]
    BY <1>9, <1>a DEF Delete, Handler
  <2> QED BY <1>9, <1>a, <2>1, QuotaMove DEF Delete, Admitted, InFlight, Holding
<1>10. ASSUME NEW r \in Actor, DeleteFiles(r) \/ DeleteFilesRollback(r) PROVE QInv'
  <2>1. SeenTotal(r) \in Nat
    BY BlocksFinite, FileIdFinite DEF SeenTotal
  <2>2. storage' <= storage
    BY <1>10, <1>a, <2>1 DEF DeleteFiles, DeleteFilesRollback
  <2> QED BY <1>10, <2>2, QuotaGoto DEF DeleteFiles, DeleteFilesRollback
<1>11. CASE ListPlaceholders \/ SkipLiveSessions \/ RereadPlaceholders
  <2>1. \A q \in Actor \ {Cron} : reqs'[q] = reqs[q]
    BY <1>11, <1>a DEF ListPlaceholders, SkipLiveSessions, RereadPlaceholders, Finish
  <2>2. storage' <= storage
    BY <1>11, <1>a DEF ListPlaceholders, SkipLiveSessions, RereadPlaceholders
  <2> QED BY <1>a, <2>1, <2>2, QuotaMove
<1>12. CASE \/ \E c \in cancels : CancelUpload(c)
            \/ \E f \in FileId : ExpireSession(f)
            \/ UNCHANGED vars
  <2>1. reqs' = reqs /\ storage' = storage
    BY <1>12 DEF CancelUpload, ExpireSession, vars
  <2> QED BY <1>a, <2>1, QuotaMove
<1> QED
  BY <1>1, <1>2, <1>3, <1>4, <1>5, <1>6, <1>7, <1>8, <1>9, <1>10, <1>11, <1>12,
     QuotaArrival, QuotaAccept, QuotaCharge, QuotaShrink, QuotaUnlink, QuotaCrash
     DEF Next, Arrival, HandlerStep, CreateStep, ChunkStep, DeleteStep, CronStep, Actor

(* The quota is exceeded by at most one chunk of every other handler,       *)
(* whatever overlaps, fails or crashes: each chunk is compared with a       *)
(* counter as old as the handler, but charged once, and only for its length.*)
THEOREM QuotaBounded == Spec => []QuotaBound
<1> DEFINE IInv == TypeOK /\ QInv
<1>1. Init => IInv
  BY TypeInit, QuotaInit
<1>2. IInv /\ [Next]_vars => IInv'
  BY TypeStep, QuotaStep
<1>3. IInv => QuotaBound
  BY PendingSumType, BoundType, SizesNat DEF TypeOK, QInv, Headroom, QuotaBound
<1> QED BY <1>1, <1>2, <1>3, PTL DEF Spec
-----------------------------------------------------------------------------
(* Finished files are whole.                                                *)

(* Handlers of a chunk, from its admission to its end.                      *)
Uploading == {"probe", "open", "write", "size", "pop", "truncate", "shrink"}

ChunkEnd(r) == reqs[r].offset + ChunkLen(reqs[r].offset)

(* What a handler may rely on: the object is a placeholder until its last   *)
(* chunk is popped, and after the write the file reaches to the chunk's end.*)
Stage(r) ==
  /\ reqs[r].pc # "orphan"
  /\ reqs[r].pc \in Uploading =>
       r \in Req /\ \E f \in Placeholders : reqs[r].target = {f}
  /\ \A f \in reqs[r].target :
       /\ reqs[r].pc = "write" => disk[f] = Bytes(0, reqs[r].offset)
       /\ reqs[r].pc \in {"size", "pop", "truncate"} => disk[f] = Bytes(0, ChunkEnd(r))
       /\ reqs[r].pc = "pop" => IsLastChunk(reqs[r].offset) /\ rows[f].size = ChunkEnd(r)
       /\ reqs[r].pc = "commit" => disk[f] = NoFile

(* A physical file has no holes, and belongs to a row; that of a finished   *)
(* file is complete.                                                        *)
Sound(f) ==
  /\ disk[f] # NoFile => f \in Live /\ \E k \in 0..FileSize : disk[f] = Bytes(0, k)
  /\ f \in Finished => rows[f].size = FileSize /\ disk[f] \in {Whole, NoFile}

Intact == /\ \A r \in Actor : Stage(r)
          /\ \A f \in FileId : Sound(f)
          /\ cancels = {}

(* What the file system does to a file without holes.                       *)
LEMMA BytesMade ==
  ASSUME NEW o \in 0..FileSize, NEW n \in Nat, o + n <= FileSize
  PROVE  /\ Bytes(0, o) \in Seq(Nat) /\ Len(Bytes(0, o)) = o
         /\ Bytes(0, o) \o Bytes(o, o + n) = Bytes(0, o + n)
<1>1. /\ Bytes(0, o) \in Seq(Nat) /\ Len(Bytes(0, o)) = o
  BY SizesNat DEF Bytes
<1>2. /\ Bytes(o, o + n) \in Seq(Nat) /\ Len(Bytes(o, o + n)) = n
  BY SizesNat DEF Bytes
<1>3. /\ Bytes(0, o + n) \in Seq(Nat) /\ Len(Bytes(0, o + n)) = o + n
  BY SizesNat DEF Bytes
<1>4. /\ \A i \in 1..o : Bytes(0, o)[i] = i
      /\ \A i \in 1..n : Bytes(o, o + n)[i] = o + i
      /\ \A i \in 1..(o + n) : Bytes(0, o + n)[i] = i
  BY SizesNat DEF Bytes
<1> DEFINE a == Bytes(0, o)  b == Bytes(o, o + n)  c == Bytes(0, o + n)
<1> HIDE DEF a, b, c
<1>5. a \o b = c
  <2>1. /\ a \in Seq(Nat) /\ b \in Seq(Nat) /\ c \in Seq(Nat)
        /\ Len(a) = o /\ Len(b) = n /\ Len(c) = o + n
    BY <1>1, <1>2, <1>3 DEF a, b, c
  <2>2. /\ \A i \in 1..o : a[i] = i
        /\ \A i \in 1..n : b[i] = o + i
        /\ \A i \in 1..(o + n) : c[i] = i
    BY <1>4 DEF a, b, c
  <2>3. /\ a \o b \in Seq(Nat) /\ Len(a \o b) = o + n
        /\ \A i \in 1..(o + n) : (a \o b)[i] = IF i <= o THEN a[i] ELSE b[i - o]
    BY <2>1, ConcatProperties
  <2>4. \A i \in 1..(o + n) : (a \o b)[i] = c[i]
    BY <2>2, <2>3, SizesNat
  <2> QED BY <2>1, <2>3, <2>4, SeqEqual
<1> QED BY <1>1, <1>5 DEF a, b, c

LEMMA BytesCut ==
  ASSUME NEW k \in 0..FileSize, NEW n \in 0..k
  PROVE  Resize(Bytes(0, k), n) = Bytes(0, n)
  BY SizesNat DEF Resize, Bytes

LEMMA NothingCut == Bytes(0, 0) = <<>>
  BY DEF Bytes

(* Chunks end within the file, the last one at its end.                     *)
LEMMA ChunkEnds ==
  ASSUME TypeOK, NEW r \in Actor
  PROVE  /\ reqs[r].offset \in 0..FileSize
         /\ ChunkLen(reqs[r].offset) \in Nat
         /\ ChunkEnd(r) \in 0..FileSize
         /\ IsLastChunk(reqs[r].offset) => ChunkEnd(r) = FileSize
<1>1. reqs[r].offset \in 0..FileSize
  BY DEF TypeOK, Handler
<1> QED BY <1>1, ChunkBounds, SizesNat DEF ChunkEnd, ChunkLen
LEMMA IntactInit == Init => Intact
  BY DEF Init, Intact, Stage, Sound, Idle, Uploading, Finished, Blank

(* A handler changes nothing but its objects.                               *)
LEMMA IntactStep ==
  ASSUME TypeOK, Disjoint, Intact, NEW r \in Actor, cancels' = {},
         \A q \in Actor \ {r} : reqs'[q] = reqs[q],
         \A f \in FileId \ reqs[r].target : rows'[f] = rows[f] /\ disk'[f] = disk[f],
         \A f \in reqs[r].target : Sound(f)',
         Stage(r)'
  PROVE  Intact'
<1>1. ASSUME NEW q \in Actor, q # r PROVE Stage(q)'
  <2>1. \A f \in reqs[q].target : f \in FileId /\ rows'[f] = rows[f] /\ disk'[f] = disk[f]
    BY <1>1 DEF Disjoint, TypeOK, Handler
  <2>2. \A f \in reqs[q].target : f \in Placeholders <=> f \in Placeholders'
    BY <2>1 DEF Placeholders
  <2>3. ChunkEnd(q)' = ChunkEnd(q) /\ reqs'[q] = reqs[q]
    BY <1>1 DEF ChunkEnd
  <2>4. Stage(q)
    BY DEF Intact
  <2> QED BY <2>1, <2>2, <2>3, <2>4 DEF Stage
<1>2. ASSUME NEW f \in FileId, f \notin reqs[r].target PROVE Sound(f)'
  <2>1. rows'[f] = rows[f] /\ disk'[f] = disk[f]
    BY <1>2
  <2>2. Sound(f)
    BY DEF Intact
  <2> QED BY <2>1, <2>2 DEF Sound, Live, Placeholders, Finished
<1> QED BY <1>1, <1>2 DEF Intact, TypeOK, Handler

(* Steps that leave rows and files alone.                                   *)
LEMMA IntactMove ==
  ASSUME TypeOK, Disjoint, Intact, NEW r \in Actor,
         UNCHANGED <<rows, disk, cancels>>,
         \A q \in Actor \ {r} : reqs'[q] = reqs[q],
         Stage(r)'
  PROVE  Intact'
<1>1. cancels' = {} /\ \A f \in FileId : Sound(f)
  BY DEF Intact
<1>2. \A f \in FileId : Sound(f)'
  BY <1>1 DEF Sound, Live, Placeholders, Finished
<1> QED BY <1>1, <1>2, IntactStep DEF TypeOK, Handler

(* A handler that ends, or that does not upload.                            *)
Resting == {"idle", "check", "insert", "register", "load", "forget",
            "filter", "reread", "unlink"}

LEMMA StageResting ==
  ASSUME NEW r \in Actor, reqs'[r].pc \in Resting
  PROVE  Stage(r)'
  BY DEF Stage, Resting, Uploading

LEMMA StageEnds ==
  ASSUME TypeOK, NEW r \in Actor, Finish(r)
  PROVE  Stage(r)' /\ \A q \in Actor \ {r} : reqs'[q] = reqs[q]
<1>1. reqs'[r] = Idle /\ \A q \in Actor \ {r} : reqs'[q] = reqs[q]
  BY DEF Finish, TypeOK
<1> QED BY <1>1, StageResting DEF Idle, Resting

LEMMA GotoDoes ==
  ASSUME TypeOK, NEW r \in Actor, NEW pc, Goto(r, pc)
  PROVE  /\ reqs'[r].pc = pc /\ reqs'[r].target = reqs[r].target
         /\ reqs'[r].offset = reqs[r].offset
         /\ ChunkEnd(r)' = ChunkEnd(r)
         /\ \A q \in Actor \ {r} : reqs'[q] = reqs[q]
<1>1. reqs'[r] = [reqs[r] EXCEPT !.pc = pc] /\ \A q \in Actor \ {r} : reqs'[q] = reqs[q]
  BY DEF Goto, TypeOK
<1>2. reqs[r] \in Handler
  BY DEF TypeOK
<1>3. /\ reqs'[r].pc = pc /\ reqs'[r].target = reqs[r].target
      /\ reqs'[r].offset = reqs[r].offset
  BY <1>1, <1>2 DEF Handler
<1> QED BY <1>1, <1>3 DEF ChunkEnd

(* The steps of a handler that has taken up a chunk.                        *)
LEMMA OpenIntact ==
  ASSUME TypeOK, Disjoint, Intact, NEW r \in Req, NEW f \in FileId, OpenFile(r, f)
  PROVE  Intact'
<1> DEFINE data  == IF disk[f] = NoFile THEN <<>> ELSE disk[f]
           start == reqs[r].offset
<1>1. /\ r \in Actor /\ reqs[r].target = {f} /\ reqs[r].pc = "open"
      /\ f \in Placeholders /\ Sound(f) /\ start \in 0..FileSize
      /\ disk \in [FileId -> Seq(0..FileSize) \cup {NoFile}]
  BY DEF OpenFile, At, Intact, Stage, Uploading, Actor, TypeOK, Handler
<1>2. PICK k \in 0..FileSize : data = Bytes(0, k) /\ Len(data) = k
  <2>1. \A k \in 0..FileSize : Len(Bytes(0, k)) = k
    BY SizesNat DEF Bytes
  <2>2. 0 \in 0..FileSize
    BY SizesNat
  <2>3. CASE disk[f] = NoFile
    <3>1. data = Bytes(0, 0)
      BY <2>3, NothingCut
    <3> QED BY <2>1, <2>2, <3>1
  <2>4. CASE disk[f] # NoFile
    <3>1. PICK k \in 0..FileSize : disk[f] = Bytes(0, k)
      BY <1>1, <2>4 DEF Sound
    <3> QED BY <2>1, <2>4, <3>1
  <2> QED BY <2>3, <2>4
<1>3. \A g \in FileId \ {f} : disk'[g] = disk[g]
  BY <1>1 DEF OpenFile
<1>4. rows' = rows /\ cancels' = cancels /\ cancels = {}
  BY DEF OpenFile, Intact
<1>5. Sound(f)' /\ Stage(r)' /\ \A q \in Actor \ {r} : reqs'[q] = reqs[q]
  <2>1. ASSUME NEW n \in 0..FileSize, disk'[f] = Bytes(0, n) PROVE Sound(f)'
    BY <1>1, <1>4, <2>1 DEF Sound, Live, Placeholders, Finished
  <2>2. CASE k < start /\ Finish(r) /\ disk' = [disk EXCEPT ![f] = data]
    BY <1>1, <1>2, <2>1, <2>2, StageEnds
  <2>3. CASE k = start /\ Goto(r, "write") /\ disk' = [disk EXCEPT ![f] = data]
    <3>1. disk'[f] = Bytes(0, start)
      BY <1>1, <1>2, <2>3
    <3>2. /\ reqs'[r].pc = "write" /\ reqs'[r].target = {f} /\ reqs'[r].offset = start
          /\ \A q \in Actor \ {r} : reqs'[q] = reqs[q]
      BY <1>1, <2>3, GotoDoes
    <3>3. Stage(r)'
      BY <1>1, <1>4, <3>1, <3>2 DEF Stage, Placeholders
    <3> QED BY <1>1, <2>1, <3>1, <3>2, <3>3
  <2>4. CASE /\ k > start /\ disk' = [disk EXCEPT ![f] = Resize(data, start)]
             /\ IF ChunkLen(start) = 0 THEN Goto(r, "size") ELSE Finish(r)
    <3>1. disk'[f] = Bytes(0, start)
      BY <1>1, <1>2, <2>4, BytesCut
    <3>2. CASE Finish(r)
      BY <1>1, <2>1, <3>1, <3>2, StageEnds
    <3>3. CASE ChunkLen(start) = 0 /\ Goto(r, "size")
      <4>1. /\ reqs'[r].pc = "size" /\ reqs'[r].target = {f} 
            /\ ChunkEnd(r)' = ChunkEnd(r)
            /\ \A q \in Actor \ {r} : reqs'[q] = reqs[q]
        BY <1>1, <3>3, GotoDoes
      <4>2. ChunkEnd(r) = start
        BY <1>1, <3>3 DEF ChunkEnd
      <4>3. Stage(r)'
        BY <1>1, <1>4, <3>1, <4>1, <4>2 DEF Stage, Placeholders
      <4> QED BY <1>1, <2>1, <3>1, <4>1, <4>3
    <3> QED BY <2>4, <3>2, <3>3
  <2> QED BY <1>2, <2>2, <2>3, <2>4 DEF OpenFile
<1> QED BY <1>1, <1>3, <1>4, <1>5, IntactStep

LEMMA WriteIntact ==
  ASSUME TypeOK, Disjoint, Intact, NEW r \in Req, NEW f \in FileId, WriteChunk(r, f)
  PROVE  Intact'
<1> DEFINE start == reqs[r].offset
           len   == ChunkLen(start)
           Put(n) == disk' = [disk EXCEPT ![f] =
                       IF @ = NoFile THEN NoFile ELSE @ \o Bytes(start, start + n)]
<1>1. /\ r \in Actor /\ reqs[r].target = {f} /\ reqs[r].pc = "write"
      /\ f \in Placeholders /\ disk[f] = Bytes(0, start)
      /\ disk \in [FileId -> Seq(0..FileSize) \cup {NoFile}]
  BY DEF WriteChunk, At, Intact, Stage, Uploading, Actor, TypeOK
<1>2. start \in 0..FileSize /\ len \in Nat /\ start + len \in 0..FileSize
      /\ ChunkEnd(r) = start + len
  BY <1>1, ChunkEnds DEF ChunkEnd
<1>3. rows' = rows /\ cancels' = cancels /\ cancels = {}
  BY DEF WriteChunk, Intact
<1>4. ASSUME NEW n \in 0..len, Put(n)
      PROVE  /\ disk'[f] = Bytes(0, start + n)
             /\ \A g \in FileId \ {f} : disk'[g] = disk[g]
             /\ Sound(f)'
  <2>1. start + n \in 0..FileSize /\ n \in Nat /\ start + n <= FileSize
    BY <1>2, SizesNat
  <2>2. disk[f] # NoFile
    BY <1>1, <1>2, NoFileDistinct
  <2>3. disk'[f] = disk[f] \o Bytes(start, start + n)
    BY <1>1, <1>4, <2>2
  <2>4. disk'[f] = Bytes(0, start + n)
    BY <1>1, <1>2, <2>1, <2>3, BytesMade
  <2>5. \A g \in FileId \ {f} : disk'[g] = disk[g]
    BY <1>1, <1>4
  <2>6. Sound(f)'
    BY <1>1, <1>3, <2>1, <2>4 DEF Sound, Live, Placeholders, Finished
  <2> QED BY <2>4, <2>5, <2>6
<1>5. CASE Put(len) /\ Goto(r, "size")
  <2>1. disk'[f] = Bytes(0, ChunkEnd(r)) /\ Sound(f)'
        /\ \A g \in FileId \ {f} : disk'[g] = disk[g]
    <3>1. len \in 0..len
      BY <1>2
    <3>2. Put(len)
      BY <1>5
    <3> HIDE DEF Put, len
    <3> QED BY <1>2, <1>4, <3>1, <3>2
  <2>2. /\ reqs'[r].pc = "size" /\ reqs'[r].target = {f} 
        /\ ChunkEnd(r)' = ChunkEnd(r)
        /\ \A q \in Actor \ {r} : reqs'[q] = reqs[q]
    BY <1>1, <1>5, GotoDoes
  <2>3. Stage(r)'
    BY <1>1, <1>3, <2>1, <2>2 DEF Stage, Placeholders
  <2> QED BY <1>1, <1>3, <2>1, <2>2, <2>3, IntactStep
<1>6. ASSUME NEW n \in 0..(len - 1), Put(n), Finish(r) PROVE Intact'
  <2>1. n \in 0..len
    BY <1>2
  <2>2. Sound(f)' /\ \A g \in FileId \ {f} : disk'[g] = disk[g]
    BY <1>4, <1>6, <2>1
  <2> QED BY <1>1, <1>3, <1>6, <2>2, StageEnds, IntactStep
<1> QED BY <1>5, <1>6 DEF WriteChunk
(* A chunk is charged: the row follows the file.                            *)
LEMMA ChargeIntact ==
  ASSUME TypeOK, TypeOK', Alone, Intact, "commit" \notin DbFaults,
         NEW r \in Req, NEW f \in FileId, HookChunkUploaded(r, f)
  PROVE  Intact'
<1> DEFINE old == reqs[r].seen[f].size
           new == reqs[r].offset + ChunkLen(reqs[r].offset)
<1>1. /\ r \in Actor /\ reqs[r].target = {f} /\ reqs[r].pc = "size"
      /\ f \in Placeholders /\ Sound(f) /\ disk[f] = Bytes(0, ChunkEnd(r))
      /\ Matches(f, old)
      /\ reqs \in [Actor -> Handler] /\ rows \in [FileId -> Row]
      /\ disk' = disk /\ cancels' = cancels /\ cancels = {}
  BY DEF HookChunkUploaded, At, Intact, Stage, Uploading, Actor, TypeOK, Alone, Current,
         Holding
<1>2. ChunkEnd(r) = new /\ new \in 0..FileSize
  BY <1>1, ChunkEnds DEF ChunkEnd
<1>3. Disjoint
  BY DEF Alone
<1>4. CASE RollbackSize(old, new) /\ Goto(r, "truncate")
  <2>1. /\ reqs'[r].pc = "truncate" /\ reqs'[r].target = {f}
        /\ ChunkEnd(r)' = ChunkEnd(r)
        /\ \A q \in Actor \ {r} : reqs'[q] = reqs[q]
    BY <1>1, <1>4, GotoDoes
  <2>2. rows' = rows
    BY <1>4 DEF RollbackSize
  <2>3. Stage(r)'
    BY <1>1, <2>1, <2>2 DEF Stage, Placeholders
  <2> QED BY <1>1, <1>3, <2>1, <2>2, <2>3, IntactMove
<1>5. ASSUME UpdateSize(f, old, new)
      PROVE  /\ \A g \in FileId \ {f} : rows'[g] = rows[g]
             /\ rows'[f].state = "placeholder" /\ rows'[f].size = new
             /\ Sound(f)'
  <2>1. rows' = [rows EXCEPT ![f].size = new]
    BY <1>1, <1>5 DEF UpdateSize
  <2>2. /\ \A g \in FileId \ {f} : rows'[g] = rows[g]
        /\ rows'[f].state = "placeholder" /\ rows'[f].size = new
    BY <1>1, <2>1 DEF Row, Placeholders
  <2>3. Sound(f)'
    BY <1>1, <1>2, <2>2 DEF Sound, Live, Placeholders, Finished
  <2> QED BY <2>2, <2>3
<1>6. CASE UpdateSize(f, old, new) /\ Finish(r)
  BY <1>1, <1>3, <1>5, <1>6, StageEnds, IntactStep
<1>7. CASE /\ UpdateSize(f, old, new) /\ IsLastChunk(reqs[r].offset)
           /\ reqs' = [reqs EXCEPT ![r].pc = "pop", ![r].seen[f].size = new]
  <2>1. reqs[r] \in Handler /\ reqs[r].seen \in [FileId -> Row] /\ reqs[r].seen[f] \in Row
    BY <1>1 DEF Handler
  <2>2. /\ reqs'[r] = [reqs[r] EXCEPT !.pc = "pop", !.seen[f].size = new]
        /\ \A q \in Actor \ {r} : reqs'[q] = reqs[q]
    BY <1>1, <1>7
  <2>3. /\ reqs'[r].pc = "pop" /\ reqs'[r].target = {f} /\ reqs'[r].offset = reqs[r].offset
    BY <1>1, <2>1, <2>2 DEF Handler
  <2>4. ChunkEnd(r)' = ChunkEnd(r)
    BY <2>3 DEF ChunkEnd
  <2>5. Stage(r)'
    BY <1>1, <1>2, <1>5, <1>7, <2>3, <2>4 DEF Stage, Placeholders
  <2> QED BY <1>1, <1>3, <1>5, <1>7, <2>2, <2>5, IntactStep
<1> HIDE DEF old, new
<1>8. \/ UpdateSize(f, old, new) /\ Finish(r)
      \/ /\ UpdateSize(f, old, new) /\ IsLastChunk(reqs[r].offset)
         /\ reqs' = [reqs EXCEPT ![r].pc = "pop", ![r].seen[f].size = new]
      \/ RollbackSize(old, new) /\ Goto(r, "truncate")
  BY DEF HookChunkUploaded, LoseSize, old, new
<1> QED BY <1>4, <1>6, <1>7, <1>8

LEMMA PopIntact ==
  ASSUME TypeOK, Alone, Intact, NEW r \in Req, NEW f \in FileId, PopPlaceholder(r, f)
  PROVE  Intact'
<1>1. /\ r \in Actor /\ reqs[r].target = {f} /\ reqs[r].pc = "pop" /\ Disjoint
      /\ f \in Placeholders /\ Sound(f) /\ disk[f] = Bytes(0, ChunkEnd(r))
      /\ rows[f].size = ChunkEnd(r) /\ IsLastChunk(reqs[r].offset)
      /\ rows \in [FileId -> Row]
      /\ disk' = disk /\ cancels' = cancels /\ cancels = {}
  BY DEF PopPlaceholder, At, Intact, Stage, Uploading, Actor, TypeOK, Alone
<1>2. ChunkEnd(r) = FileSize
  BY <1>1, ChunkEnds
<1>3. CASE rows' = [rows EXCEPT ![f].state = "finished"] /\ Goto(r, "forget")
  <2>1. /\ \A g \in FileId \ {f} : rows'[g] = rows[g]
        /\ rows'[f].state = "finished" /\ rows'[f].size = FileSize
    BY <1>1, <1>2, <1>3 DEF Row
  <2>2. Sound(f)'
    BY <1>1, <1>2, <2>1 DEF Sound, Live, Placeholders, Finished, Whole
  <2>3. Stage(r)' /\ \A q \in Actor \ {r} : reqs'[q] = reqs[q]
    BY <1>1, <1>3, GotoDoes, StageResting DEF Resting
  <2> QED BY <1>1, <2>1, <2>2, <2>3, IntactStep
<1>4. CASE Goto(r, "truncate") /\ rows' = rows
  <2>1. /\ reqs'[r].pc = "truncate" /\ reqs'[r].target = {f}
        /\ ChunkEnd(r)' = ChunkEnd(r)
        /\ \A q \in Actor \ {r} : reqs'[q] = reqs[q]
    BY <1>1, <1>4, GotoDoes
  <2>2. Stage(r)'
    BY <1>1, <1>4, <2>1 DEF Stage, Placeholders
  <2> QED BY <1>1, <1>4, <2>1, <2>2, IntactMove
<1>5. f \in Live
  BY <1>1 DEF Live
<1> QED BY <1>3, <1>4, <1>5 DEF PopPlaceholder

LEMMA TruncateIntact ==
  ASSUME TypeOK, Disjoint, Intact, NEW r \in Req, NEW f \in FileId,
         TruncateFailedChunk(r, f)
  PROVE  Intact'
<1>1. /\ r \in Actor /\ reqs[r].target = {f} /\ reqs[r].pc = "truncate"
      /\ f \in Placeholders /\ Sound(f) /\ disk[f] = Bytes(0, ChunkEnd(r))
      /\ disk \in [FileId -> Seq(0..FileSize) \cup {NoFile}]
      /\ rows' = rows /\ cancels' = cancels /\ cancels = {}
  BY DEF TruncateFailedChunk, At, Intact, Stage, Uploading, Actor, TypeOK
<1>2. /\ reqs[r].offset \in 0..ChunkEnd(r) /\ reqs[r].offset \in 0..FileSize
      /\ ChunkEnd(r) \in 0..FileSize
  BY <1>1, ChunkEnds DEF ChunkEnd
<1>3. disk[f] # NoFile
  BY <1>1, <1>2, NoFileDistinct
<1>4. disk' = [disk EXCEPT ![f] = Resize(@, reqs[r].offset)] /\ Goto(r, "shrink")
  BY <1>3 DEF TruncateFailedChunk
<1>5. /\ disk'[f] = Bytes(0, reqs[r].offset)
      /\ \A g \in FileId \ {f} : disk'[g] = disk[g]
  BY <1>1, <1>2, <1>4, BytesCut
<1>6. Sound(f)'
  BY <1>1, <1>2, <1>5 DEF Sound, Live, Placeholders, Finished
<1>7. /\ reqs'[r].pc = "shrink" /\ reqs'[r].target = {f}
      /\ \A q \in Actor \ {r} : reqs'[q] = reqs[q]
  BY <1>1, <1>4, GotoDoes
<1>8. Stage(r)'
  BY <1>1, <1>7 DEF Stage, Placeholders
<1> QED BY <1>1, <1>5, <1>6, <1>7, <1>8, IntactStep

LEMMA ShrinkIntact ==
  ASSUME TypeOK, Disjoint, Intact, NEW r \in Req, NEW f \in FileId,
         HookChunkUploadFailed(r, f)
  PROVE  Intact'
<1> DEFINE old == reqs[r].seen[f].size
           new == reqs[r].offset
<1>1. /\ r \in Actor /\ reqs[r].target = {f} /\ f \in Placeholders /\ Sound(f)
      /\ rows \in [FileId -> Row] /\ Finish(r)
      /\ disk' = disk /\ cancels' = cancels /\ cancels = {}
  BY DEF HookChunkUploadFailed, At, Intact, Stage, Uploading, Actor, TypeOK
<1>2. rows' = rows \/ rows' = [rows EXCEPT ![f].size = new]
  BY DEF HookChunkUploadFailed, UpdateSize, RollbackSize, LoseSize
<1>3. /\ \A g \in FileId \ {f} : rows'[g] = rows[g]
      /\ rows'[f].state = "placeholder"
  BY <1>1, <1>2 DEF Row, Placeholders
<1>4. Sound(f)'
  BY <1>1, <1>3 DEF Sound, Live, Placeholders, Finished
<1> QED BY <1>1, <1>3, <1>4, StageEnds, IntactStep
(* A new row has no file yet.                                               *)
LEMMA InsertIntact ==
  ASSUME TypeOK, Alone, Intact, NEW r \in Req, NEW f \in FileId, InsertPlaceholder(r, f)
  PROVE  Intact'
<1>1. /\ reqs \in [Actor -> Handler] /\ rows \in [FileId -> Row] /\ r \in Actor
      /\ rows[f].state = "unborn" /\ Sound(f)
      /\ disk' = disk /\ cancels' = cancels /\ cancels = {}
  BY DEF InsertPlaceholder, TypeOK, Intact, Actor
<1>2. /\ reqs'[r].pc = "register"
      /\ \A q \in Actor \ {r} : reqs'[q] = reqs[q]
      /\ rows'[f].state = "placeholder"
      /\ \A g \in FileId \ {f} : rows'[g] = rows[g]
  BY <1>1 DEF InsertPlaceholder, Handler
<1>3. \A q \in Actor : f \notin reqs[q].target /\ reqs[q].target \subseteq FileId
  BY <1>1 DEF Alone, Born, Handler
<1>4. ASSUME NEW q \in Actor PROVE Stage(q)'
  <2>1. CASE q = r
    BY <1>2, <2>1, StageResting DEF Resting
  <2>2. CASE q # r
    <3>1. /\ ChunkEnd(q)' = ChunkEnd(q) /\ reqs'[q] = reqs[q] /\ Stage(q)
          /\ \A g \in reqs[q].target : rows'[g] = rows[g]
      BY <1>2, <1>3, <2>2 DEF ChunkEnd, Intact
    <3>2. \A g \in reqs[q].target : g \in Placeholders <=> g \in Placeholders'
      BY <3>1, <1>3 DEF Placeholders
    <3> QED BY <1>1, <3>1, <3>2 DEF Stage
  <2> QED BY <2>1, <2>2
<1>5. ASSUME NEW g \in FileId PROVE Sound(g)'
  <2>1. Sound(g)
    BY DEF Intact
  <2> QED BY <1>1, <1>2, <2>1 DEF Sound, Live, Placeholders, Finished
<1> QED BY <1>1, <1>4, <1>5 DEF Intact

(* The files of the targets go first, then their rows.                      *)
LEMMA UnlinkIntact ==
  ASSUME TypeOK, Disjoint, Intact, NEW r \in Actor, NEW failed \in SUBSET FileId,
         DeleteGroupedFile(r, failed)
  PROVE  Intact'
<1> DEFINE removed == reqs[r].target \ failed
<1>1. /\ reqs \in [Actor -> Handler] /\ reqs[r] \in Handler /\ reqs[r].pc = "unlink"
      /\ rows' = rows /\ cancels' = cancels /\ cancels = {}
      /\ \A f \in FileId : disk'[f] = IF f \in removed THEN NoFile ELSE disk[f]
      /\ reqs' = [q \in Actor |-> IF q = r
                    THEN [reqs[r] EXCEPT !.pc = "commit", !.target = removed]
                    ELSE Detached(q, removed)]
  BY DEF DeleteGroupedFile, Unlink, TypeOK, Intact
<1>2. ASSUME NEW q \in Actor, q # r PROVE reqs'[q] = reqs[q]
  <2>1. ~(reqs[q].pc = "write" /\ reqs[q].target \subseteq removed)
    BY <1>2 DEF Intact, Stage, Uploading, Disjoint
  <2> QED BY <1>1, <1>2, <2>1 DEF Detached
<1>3. /\ reqs'[r].pc = "commit" /\ reqs'[r].target = removed
      /\ removed \subseteq FileId /\ removed \subseteq reqs[r].target
  BY <1>1 DEF Handler
<1>4. ASSUME NEW f \in reqs[r].target PROVE Sound(f)'
  <2>1. Sound(f) /\ f \in FileId
    BY <1>1 DEF Intact, Handler
  <2> QED BY <1>1, <2>1 DEF Sound, Live, Placeholders, Finished
<1>5. Stage(r)'
  BY <1>1, <1>3 DEF Stage, Uploading
<1>6. \A f \in FileId \ reqs[r].target : rows'[f] = rows[f] /\ disk'[f] = disk[f]
  BY <1>1
<1> QED BY <1>1, <1>2, <1>4, <1>5, <1>6, IntactStep

LEMMA DeleteIntact ==
  ASSUME TypeOK, Disjoint, Intact, NEW r \in Actor, DeleteFiles(r)
  PROVE  Intact'
<1>1. /\ reqs[r].pc = "commit" /\ reqs[r].target \subseteq FileId
      /\ disk' = disk /\ cancels' = cancels /\ cancels = {} /\ Finish(r)
      /\ \A f \in FileId : rows'[f] = IF f \in reqs[r].target THEN Gone ELSE rows[f]
  BY DEF DeleteFiles, TypeOK, Handler, Intact
<1>2. \A f \in reqs[r].target : disk[f] = NoFile
  BY <1>1 DEF Intact, Stage
<1>3. ASSUME NEW f \in reqs[r].target PROVE Sound(f)'
  BY <1>1, <1>2 DEF Sound, Finished, Gone
<1> QED BY <1>1, <1>3, StageEnds, IntactStep

LEMMA IntactNext ==
  ASSUME TypeOK, TypeOK', Alone, Intact, ~Disconnects, "commit" \notin DbFaults,
         [Next]_vars
  PROVE  Intact'
<1> DEFINE Others(r) == \A q \in Actor \ {r} : reqs'[q] = reqs[q]
<1>a. /\ Disjoint /\ cancels = {}
      /\ reqs \in [Actor -> Handler] /\ Req \subseteq Actor /\ Cron \in Actor
      /\ \A q \in Actor : reqs[q] \in Handler
  BY DEF Alone, Intact, TypeOK, Actor
<1>m. ASSUME NEW r \in Actor, UNCHANGED <<rows, disk, cancels>>,
             \/ Finish(r)
             \/ \E pc \in Resting : Goto(r, pc)
             \/ reqs'[r].pc \in Resting /\ Others(r)
      PROVE  Intact'
  BY <1>a, <1>m, StageEnds, GotoDoes, StageResting, IntactMove
<1>1. ASSUME NEW r \in Req, NEW n \in Name, CreateUploadSession(r, n) PROVE Intact'
  <2>1. reqs'[r].pc = "check" /\ Others(r)
    BY <1>1, <1>a DEF CreateUploadSession, Handler
  <2> QED BY <1>1, <1>a, <1>m, <2>1 DEF CreateUploadSession, Resting
<1>2. ASSUME NEW r \in Req, CheckName(r) \/ InsertFails(r) PROVE Intact'
  BY <1>2, <1>a, <1>m DEF CheckName, InsertFails, Resting
<1>3. ASSUME NEW r \in Req, NEW f \in FileId, InsertPlaceholder(r, f) PROVE Intact'
  BY <1>3, InsertIntact
<1>4. ASSUME NEW r \in Req, NEW f \in FileId,
             RegisterSession(r, f) \/ ForgetSession(r, f) \/ RejectChunk(r, f)
      PROVE  Intact'
  BY <1>4, <1>a, <1>m DEF RegisterSession, ForgetSession, RejectChunk
<1>5. ASSUME NEW r \in Req, NEW f \in FileId, NEW o \in Offsets, LocalUpload(r, f, o)
      PROVE  Intact'
  <2>1. reqs'[r].pc = "load" /\ Others(r)
    BY <1>5, <1>a DEF LocalUpload, Handler
  <2> QED BY <1>5, <1>a, <1>m, <2>1 DEF LocalUpload, Resting
<1>6. ASSUME NEW r \in Req, NEW f \in FileId, AcceptChunk(r, f) PROVE Intact'
  <2>1. /\ reqs'[r].target = {f} /\ reqs'[r].pc \in {"probe", "open"} /\ Others(r)
    BY <1>6, <1>a DEF AcceptChunk, At, Handler
  <2>2. f \in Placeholders'
    BY <1>6 DEF AcceptChunk, ChunkAcceptable, Placeholders
  <2>3. Stage(r)'
    BY <2>1, <2>2 DEF Stage
  <2> QED BY <1>6, <1>a, <2>1, <2>3, IntactMove DEF AcceptChunk
<1>7. ASSUME NEW r \in Req, NEW f \in FileId, ProbeFile(r, f) PROVE Intact'
  <2>1. CASE Finish(r)
    BY <1>7, <1>a, <2>1, <1>m DEF ProbeFile
  <2>2. CASE Goto(r, "open")
    <3>1. reqs'[r].pc = "open" /\ reqs'[r].target = reqs[r].target /\ Others(r)
      BY <1>a, <2>2, GotoDoes
    <3>2. r \in Req /\ \E g \in Placeholders' : reqs'[r].target = {g}
      BY <1>7, <1>a, <3>1 DEF ProbeFile, At, Intact, Stage, Uploading, Placeholders
    <3>3. Stage(r)'
      BY <3>1, <3>2 DEF Stage
    <3> QED BY <1>7, <1>a, <3>1, <3>3, IntactMove DEF ProbeFile
  <2> QED BY <1>7, <2>1, <2>2 DEF ProbeFile
<1>8. ASSUME NEW r \in Req, NEW f \in FileId, OpenFile(r, f) \/ WriteChunk(r, f)
      PROVE  Intact'
  BY <1>8, <1>a, OpenIntact, WriteIntact
<1>9. ASSUME NEW r \in Req, NEW f \in FileId, WriteUnlinked(r, f) PROVE Intact'
  BY <1>9, <1>a DEF WriteUnlinked, At, Intact, Stage
<1>10. ASSUME NEW r \in Req, NEW f \in FileId,
              HookChunkUploaded(r, f) \/ PopPlaceholder(r, f)
       PROVE  Intact'
  BY <1>10, ChargeIntact, PopIntact
<1>11. ASSUME NEW r \in Req, NEW f \in FileId,
              TruncateFailedChunk(r, f) \/ HookChunkUploadFailed(r, f)
       PROVE  Intact'
  BY <1>11, <1>a, TruncateIntact, ShrinkIntact
<1>12. ASSUME NEW r \in Req, NEW f \in FileId, ClientLeaves(r, f) PROVE Intact'
  BY <1>12 DEF ClientLeaves
<1>13. ASSUME NEW r \in Req, NEW ids \in SUBSET FileId, Delete(r, ids) PROVE Intact'
  <2>1. reqs'[r].pc = "unlink" /\ Others(r)
    BY <1>13, <1>a DEF Delete, Handler
  <2> QED BY <1>13, <1>a, <1>m, <2>1 DEF Delete, Resting
<1>14. ASSUME NEW r \in Actor, NEW failed \in SUBSET FileId, DeleteGroupedFile(r, failed)
       PROVE  Intact'
  BY <1>14, <1>a, UnlinkIntact
<1>15. ASSUME NEW r \in Actor, DeleteFiles(r) \/ DeleteFilesRollback(r) PROVE Intact'
  BY <1>15, <1>a, <1>m, DeleteIntact DEF DeleteFilesRollback
<1>16. CASE ListPlaceholders
  <2>1. reqs'[Cron].pc = "filter" /\ Others(Cron)
    BY <1>16, <1>a DEF ListPlaceholders, Handler
  <2> QED BY <1>16, <1>a, <1>m, <2>1 DEF ListPlaceholders, Resting
<1>17. CASE SkipLiveSessions
  <2>1. CASE Finish(Cron)
    BY <1>17, <1>a, <1>m, <2>1 DEF SkipLiveSessions
  <2>2. CASE ~Finish(Cron)
    <3>1. reqs'[Cron].pc = "reread" /\ Others(Cron)
      BY <1>17, <1>a, <2>2 DEF SkipLiveSessions, Handler
    <3> QED BY <1>17, <1>a, <1>m, <3>1 DEF SkipLiveSessions, Resting
  <2> QED BY <2>1, <2>2
<1>18. CASE RereadPlaceholders
  <2>1. reqs'[Cron].pc = "unlink" /\ Others(Cron)
    BY <1>18, <1>a DEF RereadPlaceholders, Handler
  <2> QED BY <1>18, <1>a, <1>m, <2>1 DEF RereadPlaceholders, Resting
<1>19. CASE \/ \E c \in cancels : CancelUpload(c)
            \/ \E f \in FileId : ExpireSession(f)
            \/ UNCHANGED vars
  <2>1. UNCHANGED <<rows, disk, cancels, reqs>>
    BY <1>19, <1>a DEF ExpireSession, vars
  <2> QED BY <2>1 DEF Intact, Stage, Sound, ChunkEnd, Live, Placeholders, Finished
<1>20. CASE Crash
  <2>1. UNCHANGED <<rows, disk>> /\ cancels' = {} /\ \A q \in Actor : reqs'[q] = Idle
    BY <1>20 DEF Crash
  <2>2. \A q \in Actor : Stage(q)'
    BY <2>1, StageResting DEF Idle, Resting
  <2>3. \A f \in FileId : Sound(f)'
    BY <2>1 DEF Intact, Sound, Live, Placeholders, Finished
  <2> QED BY <2>1, <2>2, <2>3 DEF Intact
<1>21. ASSUME NEW r \in Req, Arrival(r) PROVE Intact'
  BY <1>21, <1>1, <1>5, <1>13 DEF Arrival
<1>22. ASSUME NEW r \in Actor, DeleteStep(r) PROVE Intact'
  BY <1>22, <1>14, <1>15 DEF DeleteStep
<1>23. ASSUME NEW r \in Req, HandlerStep(r) PROVE Intact'
  <2>1. CASE CreateStep(r)
    BY <2>1, <1>2, <1>3, <1>4 DEF CreateStep
  <2>2. ASSUME NEW f \in FileId, ChunkStep(r, f) PROVE Intact'
    BY <2>2, <1>4, <1>6, <1>7, <1>8, <1>9, <1>10, <1>11 DEF ChunkStep
  <2> QED BY <1>a, <1>23, <1>22, <2>1, <2>2 DEF HandlerStep
<1>24. CASE CronStep
  <2>1. Cron \in Actor
    BY DEF Actor
  <2> QED BY <1>24, <1>17, <1>18, <1>22, <2>1 DEF CronStep
<1>25. CASE \E r \in Req : Arrival(r) \/ HandlerStep(r) \/ \E f \in FileId : ClientLeaves(r, f)
  BY <1>25, <1>12, <1>21, <1>23
<1>26. CASE Next
  BY <1>26, <1>16, <1>19, <1>20, <1>24, <1>25 DEF Next
<1> QED BY <1>19, <1>26


(* For every chunk size and file size, with writes cut short, removals,     *)
(* statements and servers that fail: a file that is no placeholder any more *)
(* is complete, byte by byte, and no physical file outlives its row.  The   *)
(* hypotheses are those under which LocalUpload, HookChunkUploaded and      *)
(* Delete keep that promise (see the README): requests about one object do  *)
(* not overlap, no client leaves in the middle of a chunk (CancelUpload     *)
(* truncates at any time), and no commit fails (LoseSize).                  *)
THEOREM FinishedAreWhole ==
  ASSUME ~Overlap, ~Disconnects, "commit" \notin DbFaults
  PROVE  Spec => []FinishedIntact
<1> DEFINE IInv == TypeOK /\ Alone /\ Intact
<1>1. Init => IInv
  BY TypeInit, AloneInit, IntactInit
<1>2. IInv /\ [Next]_vars => IInv'
  <2> SUFFICES ASSUME IInv, [Next]_vars PROVE IInv'
    OBVIOUS
  <2>1. TypeOK'
    BY TypeStep
  <2> QED BY <2>1, AloneStep, IntactNext
<1>3. IInv => FinishedIntact
  BY DEF Intact, Sound, FinishedIntact, Finished
<1> QED BY <1>1, <1>2, <1>3, PTL DEF Spec
=============================================================================

---------------------------- MODULE Webdav_proofs ----------------------------
(***************************************************************************)
(* For every tree, every number of requests and every list of properties:  *)
(* a multistatus answer has each resource once and of each resource each   *)
(* property once, and what stays at its place while a walk goes on is in   *)
(* its answer, below the entry of its folder.                              *)
(*                                                                         *)
(* The invariant is about what a walk has still to do.  The hrefs that two *)
(* things to do can give are different, and none is in the answer; of what *)
(* stayed, each row is listed or held by one thing to do; and what another *)
(* request moves takes everything below it from what stayed.               *)
(***************************************************************************)
EXTENDS Webdav, FiniteSetTheorems, FunctionTheorems, SequenceTheorems, TLAPS

-----------------------------------------------------------------------------
(* Sets as sequences.                                                       *)

(* A finite set as a sequence has each of its members once.                 *)
LEMMA SetAsSeq ==
  ASSUME NEW S, IsFiniteSet(S)
  PROVE  /\ SetToSeq(S) \in Seq(S) /\ ToSet(SetToSeq(S)) = S
         /\ \A i, j \in DOMAIN SetToSeq(S) : SetToSeq(S)[i] = SetToSeq(S)[j] => i = j
         /\ DOMAIN SetToSeq(S) = 1..Cardinality(S) /\ Cardinality(S) \in Nat
<1> DEFINE n == Cardinality(S)  s == SetToSeq(S)
<1>1. n \in Nat /\ \E f \in [1..n -> S] : IsInjective(f)
  BY FS_CardinalityType DEF ExistsBijection, Bijection, Injection, IsInjective
<1>2. s \in [1..n -> S] /\ IsInjective(s)
  BY <1>1 DEF SetToSeq
<1>3. s \in Injection(1..n, S)
  BY <1>2 DEF Injection
<1>4. Cardinality(1..n) = n
  BY <1>1, FS_Interval
<1>5. s \in Surjection(1..n, S)
  BY <1>3, <1>4, FS_Injection
<1>6. ToSet(s) = S
  BY <1>2, <1>5 DEF ToSet, Surjection
<1>7. s \in Seq(S)
  BY <1>1, <1>2
<1>8. QED
  BY <1>1, <1>2, <1>6, <1>7 DEF IsInjective

(* A list and the part of it that is in a set.                              *)
LEMMA PositionsFinite ==
  ASSUME NEW s \in Seq(Property), NEW I \in SUBSET DOMAIN s
  PROVE  IsFiniteSet(I) /\ Cardinality(I) \in Nat
<1>1. DOMAIN s = 1..Len(s) /\ Len(s) \in Nat
  OBVIOUS
<1>2. IsFiniteSet(DOMAIN s)
  BY <1>1, FS_Interval
<1>3. QED
  BY <1>2, FS_Subset, FS_CardinalityType

(* Kept keeps what is in K, as often as the list has it.                    *)
LEMMA KeptOf ==
  ASSUME NEW s \in Seq(Property), NEW K
  PROVE  /\ Kept(s, K) \in Seq(Property)
         /\ ToSet(Kept(s, K)) = ToSet(s) \cap K
         /\ \A x : Times(x, Kept(s, K)) = IF x \in K THEN Times(x, s) ELSE 0
<1> DEFINE I == {i \in DOMAIN s : s[i] \in K}
           at == SetToSeq(I)
           n == Cardinality(I)
<1>1. IsFiniteSet(I)
  BY PositionsFinite
<1>2. /\ at \in Seq(I) /\ ToSet(at) = I /\ DOMAIN at = 1..n /\ n \in Nat
      /\ \A i, j \in DOMAIN at : at[i] = at[j] => i = j
  BY <1>1, SetAsSeq
<1> HIDE DEF at
<1>3. Kept(s, K) = [k \in 1..n |-> s[at[k]]]
  BY <1>2 DEF Kept, at
<1>4. \A k \in 1..n : at[k] \in I
  BY <1>2
<1>5. \A i \in DOMAIN s : s[i] \in Property
  OBVIOUS
<1>6. Kept(s, K) \in [1..n -> Property]
  BY <1>3, <1>4, <1>5
<1>7. Kept(s, K) \in Seq(Property)
  <2>1. n \in Nat
    BY <1>2
  <2> HIDE DEF n, I
  <2>2. QED
    BY <1>6, <2>1
<1>8. ToSet(Kept(s, K)) = ToSet(s) \cap K
  <2>1. \A i \in I : \E k \in 1..n : at[k] = i
    BY <1>2 DEF ToSet
  <2>2. \A i \in I : s[i] \in ToSet(s) \cap K
    BY DEF ToSet
  <2>3. \A x \in ToSet(s) \cap K : \E i \in I : s[i] = x
    BY DEF ToSet
  <2>4. DOMAIN Kept(s, K) = 1..n /\ \A k \in 1..n : Kept(s, K)[k] = s[at[k]]
    BY <1>3
  <2> HIDE DEF I, n
  <2>5. ToSet(Kept(s, K)) \subseteq ToSet(s) \cap K
    <3>1. \A k \in DOMAIN Kept(s, K) : Kept(s, K)[k] \in ToSet(s) \cap K
      BY <1>4, <2>2, <2>4
    <3>2. QED
      BY <3>1 DEF ToSet
  <2>6. ASSUME NEW x \in ToSet(s) \cap K
        PROVE  x \in ToSet(Kept(s, K))
    <3>1. PICK i \in I : s[i] = x
      BY <2>3
    <3>2. PICK k \in 1..n : at[k] = i
      BY <2>1
    <3>3. k \in DOMAIN Kept(s, K) /\ Kept(s, K)[k] = x
      BY <2>4, <3>1, <3>2
    <3>4. QED
      BY <3>3 DEF ToSet
  <2>7. QED
    BY <2>5, <2>6
<1>9. ASSUME NEW x
      PROVE  Times(x, Kept(s, K)) = IF x \in K THEN Times(x, s) ELSE 0
  <2> DEFINE J == {k \in 1..n : s[at[k]] = x}
             X == {i \in DOMAIN s : s[i] = x}
  <2>1. Times(x, Kept(s, K)) = Cardinality(J)
    BY <1>3 DEF Times
  <2>2. CASE x \in K
    <3> DEFINE g == [k \in J |-> at[k]]
    <3>1. g \in [J -> X]
      BY <1>4, <2>2
    <3>2. \A a, b \in J : g[a] = g[b] => a = b
      BY <1>2
    <3>3. \A i \in X : \E k \in J : g[k] = i
      <4>1. SUFFICES ASSUME NEW i \in X PROVE \E k \in J : g[k] = i
        OBVIOUS
      <4>2. i \in I
        BY <2>2
      <4>3. PICK k \in 1..n : at[k] = i
        BY <4>2, <1>2 DEF ToSet
      <4>4. QED
        BY <4>3
    <3>4. g \in Bijection(J, X)
      BY <3>1, <3>2, <3>3, Fun_IsBij
    <3>5. ExistsBijection(J, X)
      BY <3>4 DEF ExistsBijection
    <3>6. IsFiniteSet(J)
      <4>1. IsFiniteSet(1..n)
        BY <1>2, FS_Interval
      <4>2. QED
        BY <4>1, FS_Subset
    <3>7. Cardinality(X) = Cardinality(J)
      BY <3>5, <3>6, FS_Bijection
    <3>8. QED
      BY <2>1, <2>2, <3>7 DEF Times
  <2>3. CASE x \notin K
    <3>1. J = {}
      BY <1>4, <2>3
    <3>2. QED
      BY <2>1, <2>3, <3>1, FS_EmptySet
  <2>4. QED
    BY <2>2, <2>3
<1>10. QED
  BY <1>7, <1>8, <1>9

(* How often a list has something is a number.                              *)
LEMMA TimesNat ==
  ASSUME NEW s \in Seq(Property), NEW x
  PROVE  Times(x, s) \in Nat /\ (x \notin ToSet(s) => Times(x, s) = 0)
<1> DEFINE X == {i \in DOMAIN s : s[i] = x}
<1>1. Cardinality(X) \in Nat
  BY PositionsFinite
<1>2. x \notin ToSet(s) => X = {}
  BY DEF ToSet
<1>3. QED
  BY <1>1, <1>2, FS_EmptySet DEF Times

(* What is kept and what is left are the list.                              *)
LEMMA KeptAndLeft ==
  ASSUME NEW s \in Seq(Property), NEW K
  PROVE  /\ Left(s, K) \in Seq(Property) /\ ToSet(Left(s, K)) = ToSet(s) \ K
         /\ \A x : Times(x, Kept(s, K)) + Times(x, Left(s, K)) = Times(x, s)
<1>1. /\ Left(s, K) \in Seq(Property) /\ ToSet(Left(s, K)) = ToSet(s) \ K
      /\ \A x : Times(x, Left(s, K)) = IF x \in ToSet(s) \ K THEN Times(x, s) ELSE 0
  BY KeptOf DEF Left
<1>2. \A x : Times(x, Kept(s, K)) = IF x \in K THEN Times(x, s) ELSE 0
  BY KeptOf
<1>3. \A x : Times(x, s) \in Nat /\ (x \notin ToSet(s) => Times(x, s) = 0)
  BY TimesNat
<1>4. QED
  BY <1>1, <1>2, <1>3

(* A set, as a list, has each element once.                                 *)
LEMMA TimesOfSet ==
  ASSUME NEW S \in SUBSET Property, IsFiniteSet(S)
  PROVE  /\ SetToSeq(S) \in Seq(Property)
         /\ \A x \in S : Times(x, SetToSeq(S)) = 1
<1> DEFINE s == SetToSeq(S)
<1>1. /\ s \in Seq(S) /\ ToSet(s) = S
      /\ \A i, j \in DOMAIN s : s[i] = s[j] => i = j
  BY SetAsSeq
<1> HIDE DEF s
<1>2. s \in Seq(Property)
  BY <1>1, SeqMonotonic, Zenon
<1>3. ASSUME NEW x \in S
      PROVE  Times(x, s) = 1
  <2>1. PICK k \in DOMAIN s : s[k] = x
    BY <1>1 DEF ToSet
  <2>2. {i \in DOMAIN s : s[i] = x} = {k}
    BY <1>1, <2>1
  <2>3. QED
    BY <2>2, FS_Singleton DEF Times
<1>4. QED
  BY <1>2, <1>3 DEF s

(* Two lists one after the other.                                           *)
LEMMA TimesConcat ==
  ASSUME NEW s \in Seq(Property), NEW t \in Seq(Property)
  PROVE  /\ s \o t \in Seq(Property) /\ ToSet(s \o t) = ToSet(s) \cup ToSet(t)
         /\ \A x : Times(x, s \o t) = Times(x, s) + Times(x, t)
<1> DEFINE u == s \o t
<1>1. /\ u \in Seq(Property) /\ Len(u) = Len(s) + Len(t) /\ Len(s) \in Nat /\ Len(t) \in Nat
      /\ DOMAIN u = 1..Len(u) /\ DOMAIN s = 1..Len(s) /\ DOMAIN t = 1..Len(t)
      /\ \A i \in 1..Len(s) : u[i] = s[i]
      /\ \A i \in 1..Len(t) : u[Len(s) + i] = t[i]
  BY ConcatProperties
<1> HIDE DEF u
<1>2. \A i \in DOMAIN u : i \in 1..Len(s) \/ i - Len(s) \in 1..Len(t)
  BY <1>1
<1>3. \A i \in DOMAIN u : i \notin 1..Len(s) => u[i] = t[i - Len(s)]
  <2>1. SUFFICES ASSUME NEW i \in DOMAIN u, i \notin 1..Len(s)
                 PROVE  u[i] = t[i - Len(s)]
    OBVIOUS
  <2>2. i - Len(s) \in 1..Len(t) /\ Len(s) + (i - Len(s)) = i
    BY <1>1, <2>1
  <2>3. QED
    BY <1>1, <2>2
<1>4. ToSet(u) = ToSet(s) \cup ToSet(t)
  <2>1. ToSet(u) \subseteq ToSet(s) \cup ToSet(t)
    BY <1>1, <1>2, <1>3 DEF ToSet
  <2>2. \A i \in DOMAIN s : i \in DOMAIN u /\ u[i] = s[i]
    BY <1>1
  <2>3. \A i \in DOMAIN t : Len(s) + i \in DOMAIN u /\ u[Len(s) + i] = t[i]
    BY <1>1
  <2>4. QED
    BY <2>1, <2>2, <2>3 DEF ToSet
<1>5. ASSUME NEW x
      PROVE  Times(x, u) = Times(x, s) + Times(x, t)
  <2> DEFINE U == {i \in DOMAIN u : u[i] = x}
             A == {i \in DOMAIN s : s[i] = x}
             B == {i \in DOMAIN t : t[i] = x}
             C == {i \in DOMAIN u : u[i] = x /\ i \notin 1..Len(s)}
  <2>1. U = A \cup C /\ A \cap C = {}
    BY <1>1, <1>2
  <2>2. IsFiniteSet(A) /\ IsFiniteSet(B) /\ IsFiniteSet(C)
    BY <1>1, PositionsFinite
  <2> DEFINE g == [i \in B |-> Len(s) + i]
  <2>3. g \in [B -> C]
    BY <1>1
  <2>4. \A a, b \in B : g[a] = g[b] => a = b
    BY <1>1
  <2>5. \A c \in C : \E b \in B : g[b] = c
    <3>1. SUFFICES ASSUME NEW c \in C PROVE \E b \in B : g[b] = c
      OBVIOUS
    <3>2. c - Len(s) \in B /\ Len(s) + (c - Len(s)) = c
      BY <1>1, <1>2, <1>3
    <3>3. QED
      BY <3>2
  <2> HIDE DEF g, B, C
  <2>6. ExistsBijection(B, C)
    BY <2>3, <2>4, <2>5, Fun_IsBij DEF ExistsBijection
  <2>7. Cardinality(C) = Cardinality(B)
    BY <2>2, <2>6, FS_Bijection
  <2>8. Cardinality(U) = Cardinality(A) + Cardinality(C)
    <3>1. Cardinality(A \cap C) = 0
      BY <2>1, FS_EmptySet
    <3>2. Cardinality(A) \in Nat /\ Cardinality(C) \in Nat
      BY <2>2, FS_CardinalityType
    <3>3. Cardinality(A \cup C) = Cardinality(A) + Cardinality(C) - Cardinality(A \cap C)
      BY <2>2, FS_Union
    <3>4. U = A \cup C
      BY <2>1
    <3> HIDE DEF U, A, C
    <3>5. QED
      BY <3>1, <3>2, <3>3, <3>4
  <2>9. QED
    BY <2>7, <2>8 DEF Times, A, B
<1>6. QED
  BY <1>1, <1>4, <1>5 DEF u

-----------------------------------------------------------------------------
(* What is below a folder, in any rows.                                     *)

DirsIn(rows, d) ==
  {e \in Folder : \A S \in SUBSET Folder :
     d \in S /\ (\A c \in Folder : rows[c].parent \in S => c \in S) => e \in S}
BelowIn(rows, d) == DirsIn(rows, d) \cup {n \in Node : rows[n].parent \in DirsIn(rows, d)}

(* Below is BelowIn of the rows as they are.                                *)
LEMMA BelowIs == \A d : Below(d) = BelowIn(row, d) /\ Below(d)' = BelowIn(row', d)
<1>1. \A d : FoldersBelow(d) = DirsIn(row, d) /\ FoldersBelow(d)' = DirsIn(row', d)
  BY DEF FoldersBelow, DirsIn
<1>2. QED
  BY <1>1 DEF Below, BelowIn

(* Folders and files are different rows, and Nowhere is none.               *)
LEMMA NodeKinds ==
  /\ Folder \subseteq Node /\ File \subseteq Node /\ Folder \cap File = {} /\ Nowhere \notin Node
  /\ Root \in Folder /\ IsFiniteSet(Node) /\ IsFiniteSet(Folder) /\ IsFiniteSet(File)
<1>1. Folder \in SUBSET Node /\ File \in SUBSET Node
  BY DEF Node
<1>2. IsFiniteSet(Folder) /\ IsFiniteSet(File)
  BY <1>1, FS_Subset, WebdavNodes
<1>3. QED
  BY <1>1, <1>2, WebdavNodes

(* A row has a parent, or none, and a name.                                 *)
LEMMA RowParts ==
  ASSUME NEW rows \in [Node -> Row], NEW n \in Node
  PROVE  /\ rows[n].parent \in Folder \cup {Nowhere} /\ rows[n].name \in Name
         /\ rows[n] = [parent |-> rows[n].parent, name |-> rows[n].name]
         /\ rows[n].parent \in Node => rows[n].parent \in Folder
         /\ rows[n].parent # Nowhere => rows[n].parent \in Folder
  BY NodeKinds DEF Row

(* A folder is below itself.                                                *)
LEMMA BelowSelf ==
  ASSUME NEW rows \in [Node -> Row], NEW d \in Folder
  PROVE  d \in BelowIn(rows, d) /\ BelowIn(rows, d) \subseteq Node
  BY NodeKinds DEF BelowIn, DirsIn

(* The folders below a folder are those that the least set has.             *)
LEMMA DirsClosed ==
  ASSUME NEW rows \in [Node -> Row], NEW d \in Folder,
         NEW e \in Folder, e \in BelowIn(rows, d)
  PROVE  e \in DirsIn(rows, d)
<1>1. CASE e \in DirsIn(rows, d)
  BY <1>1
<1>2. CASE rows[e].parent \in DirsIn(rows, d)
  BY <1>2 DEF DirsIn
<1>3. QED
  BY <1>1, <1>2 DEF BelowIn

(* What is in something below a folder is below it.                         *)
LEMMA BelowClosed ==
  ASSUME NEW rows \in [Node -> Row], NEW d \in Folder,
         NEW n \in Node, rows[n].parent \in BelowIn(rows, d)
  PROVE  n \in BelowIn(rows, d)
<1>1. rows[n].parent \in Folder
  BY RowParts, BelowSelf
<1>2. rows[n].parent \in DirsIn(rows, d)
  BY <1>1, DirsClosed
<1>3. QED
  BY <1>2 DEF BelowIn

(* And nothing else is: any set that has the folder and is closed has it.   *)
LEMMA BelowLeast ==
  ASSUME NEW rows \in [Node -> Row], NEW d \in Folder, NEW T,
         d \in T, \A n \in Node : rows[n].parent \in T => n \in T
  PROVE  BelowIn(rows, d) \subseteq T
<1>1. T \cap Folder \in SUBSET Folder /\ d \in T \cap Folder
  OBVIOUS
<1>2. \A c \in Folder : rows[c].parent \in T \cap Folder => c \in T \cap Folder
  BY NodeKinds
<1>3. DirsIn(rows, d) \subseteq T
  BY <1>1, <1>2 DEF DirsIn
<1>4. QED
  BY <1>3 DEF BelowIn

(* What is below a folder is in something below it.                         *)
LEMMA BelowParent ==
  ASSUME NEW rows \in [Node -> Row], NEW d \in Folder,
         NEW n \in BelowIn(rows, d), n # d
  PROVE  n \in Node /\ rows[n].parent \in BelowIn(rows, d) /\ rows[n].parent \in Folder
<1> DEFINE B == BelowIn(rows, d)
           T == {m \in B : m = d \/ rows[m].parent \in B}
<1>1. d \in T
  BY BelowSelf
<1>2. ASSUME NEW m \in Node, rows[m].parent \in T
      PROVE  m \in T
  <2>1. rows[m].parent \in B
    BY <1>2
  <2>2. m \in B
    BY <2>1, BelowClosed
  <2>3. QED
    BY <2>1, <2>2
<1>3. B \subseteq T
  <2> HIDE DEF T
  <2>1. QED
    BY <1>1, <1>2, BelowLeast
<1>4. n \in Node /\ rows[n].parent \in B
  BY <1>3, BelowSelf
<1>5. QED
  BY <1>4, RowParts, BelowSelf

(* What is below something below a folder is below the folder.              *)
LEMMA BelowTrans ==
  ASSUME NEW rows \in [Node -> Row], NEW d \in Folder,
         NEW e \in Folder, e \in BelowIn(rows, d)
  PROVE  BelowIn(rows, e) \subseteq BelowIn(rows, d)
<1>1. \A n \in Node : rows[n].parent \in BelowIn(rows, d) => n \in BelowIn(rows, d)
  BY BelowClosed
<1>2. QED
  BY <1>1, BelowLeast

(* No folder is below a folder in it, nor in itself.                        *)
LEMMA NoCycle ==
  ASSUME NEW rows, IsTree(rows),
         NEW c \in Folder, NEW d \in Folder, rows[c].parent = d
  PROVE  d \notin BelowIn(rows, c) /\ c # d
<1>1. rows \in [Node -> Row] /\ \A S \in SUBSET Folder : S # {} => \E e \in S : rows[e].parent \notin S
  BY DEF IsTree
<1>2. SUFFICES ASSUME d \in BelowIn(rows, c) PROVE FALSE
  BY <1>1, BelowSelf
<1> DEFINE S == {e \in Folder : e \in BelowIn(rows, c) /\ d \in BelowIn(rows, e)}
<1>3. c \in S /\ d \in S
  BY <1>1, <1>2, BelowSelf
<1>4. PICK e \in S : rows[e].parent \notin S
  BY <1>1, <1>3
<1>5. e # c
  BY <1>3, <1>4
<1>6. rows[e].parent \in Folder /\ rows[e].parent \in BelowIn(rows, c)
  BY <1>1, <1>5, BelowParent
<1>7. e \in BelowIn(rows, rows[e].parent)
  BY <1>1, <1>6, BelowSelf, BelowClosed, NodeKinds
<1>8. d \in BelowIn(rows, rows[e].parent)
  BY <1>1, <1>6, <1>7, BelowTrans
<1>9. QED
  BY <1>4, <1>6, <1>8

(* A row that was removed has nothing in it.                                *)
LEMMA MissingEmpty ==
  ASSUME IsTree(row), NEW m \in Node, Missing(m), NEW n \in Node
  PROVE  row[n].parent # m
  BY NodeKinds DEF IsTree, Missing

-----------------------------------------------------------------------------
(* Paths.                                                                   *)

Alive(rows, n) == n = Root \/ rows[n].parent # Nowhere

(* A path of a parent and a last name.                                      *)
LEMMA FrontLast ==
  ASSUME NEW p \in Seq(Name), p # <<>>
  PROVE  /\ Len(p) \in Nat \ {0} /\ Front(p) \in Seq(Name) /\ Len(Front(p)) = Len(p) - 1
         /\ \A i \in 1..(Len(p) - 1) : Front(p)[i] = p[i]
         /\ Last(p) = p[Len(p)] /\ Last(p) \in Name
<1>1. Len(p) \in Nat \ {0}
  OBVIOUS
<1>2. p[Len(p)] \in Name
  BY <1>1, ElementOfSeq
<1>3. \A i \in 1..(Len(p) - 1) : p[i] \in Name
  BY <1>1, ElementOfSeq
<1> DEFINE q == SubSeq(p, 1, Len(p) - 1)
<1>4. /\ q \in Seq(Name)
      /\ Len(q) = IF 1 <= Len(p) - 1 THEN Len(p) - 1 - 1 + 1 ELSE 0
      /\ \A i \in 1..(Len(p) - 1 - 1 + 1) : q[i] = p[1 + i - 1]
  BY <1>1, <1>3, SubSeqProperties
<1>5. q \in Seq(Name) /\ Len(q) = Len(p) - 1 /\ \A i \in 1..(Len(p) - 1) : q[i] = p[i]
  <2> DEFINE k == Len(p)
  <2> HIDE DEF q, k
  <2>1. k \in Nat \ {0}
    BY <1>1 DEF k
  <2>2. k - 1 - 1 + 1 = k - 1 /\ (1 <= k - 1 \/ k - 1 = 0)
    <3>1. k \in Nat /\ k # 0
      BY <2>1
    <3>2. k - 1 \in Nat
      BY <3>1
    <3>3. QED
      BY <3>1, <3>2
  <2>3. \A i \in 1..(k - 1) : q[i] = p[i]
    <3>1. SUFFICES ASSUME NEW i \in 1..(k - 1) PROVE q[i] = p[i]
      OBVIOUS
    <3>2. 1 + i - 1 = i
      OBVIOUS
    <3>3. QED
      BY <1>4, <2>2, <3>2 DEF k
  <2>4. Len(q) = IF 1 <= k - 1 THEN k - 1 - 1 + 1 ELSE 0
    BY <1>4 DEF k
  <2>5. Len(q) = k - 1
    BY <2>2, <2>4
  <2>6. QED
    BY <1>4, <2>3, <2>5 DEF k
<1>6. QED
  BY <1>1, <1>2, <1>5 DEF Front, Last

(* IsPathExist finds folders that are there, or nothing.                    *)
LEMMA FolderFromOk ==
  ASSUME row \in [Node -> Row], NEW base \in Folder, NEW path \in Seq(Name)
  PROVE  /\ FolderFrom(base, path) \in Folder \cup {Nowhere}
         /\ FolderFrom(base, path) # Nowhere /\ path # <<>>
              => row[FolderFrom(base, path)].parent \in Folder
<1>1. CASE path = <<>> \/ Trails(base, path) = {}
  BY <1>1 DEF FolderFrom
<1>2. CASE path # <<>> /\ Trails(base, path) # {}
  <2> DEFINE t == CHOOSE u \in Trails(base, path) : TRUE
             k == Len(path)
  <2>1. k \in 1..k /\ k \in Nat \ {0}
    BY <1>2
  <2>2. t \in Trails(base, path)
    BY <1>2
  <2>3. /\ t \in [1..k -> Folder]
        /\ row[t[k]].parent = IF k = 1 THEN base ELSE t[k-1]
    BY <2>1, <2>2 DEF Trails, Lowest, Named, Children
  <2>4. FolderFrom(base, path) = t[k]
    BY <1>2 DEF FolderFrom
  <2> HIDE DEF t, k
  <2>5. k = 1 \/ k - 1 \in 1..k
    BY <2>1
  <2>6. QED
    BY <2>1, <2>3, <2>4, <2>5
<1>3. QED
  BY <1>1, <1>2

(* The root of a request is a folder that is there.                         *)
LEMMA BaseOk ==
  ASSUME IsTree(row)
  PROVE  Base \in Folder /\ Alive(row, Base)
<1>1. row \in [Node -> Row] /\ Root \in Folder /\ AccountRoot \in Seq(Name) /\ Nowhere \notin Folder
  BY NodeKinds, WebdavNodes DEF IsTree
<1>2. FolderFrom(Root, AccountRoot) \in Folder \cup {Nowhere}
  BY <1>1, FolderFromOk
<1>3. CASE AccountRoot = <<>>
  <2>1. FolderFrom(Root, AccountRoot) = Root
    BY <1>3 DEF FolderFrom
  <2>2. QED
    BY <1>1, <2>1 DEF Base, Alive
<1>4. CASE AccountRoot # <<>>
  <2>1. FolderFrom(Root, AccountRoot) # Nowhere => row[FolderFrom(Root, AccountRoot)].parent \in Folder
    BY <1>1, <1>4, FolderFromOk
  <2>2. QED
    BY <1>1, <1>2, <2>1 DEF Base, Alive
<1>5. QED
  BY <1>3, <1>4

(* So does a path from that root.                                           *)
LEMMA FolderAtOk ==
  ASSUME IsTree(row), NEW p \in Seq(Name)
  PROVE  /\ FolderAt(p) \in Folder \cup {Nowhere}
         /\ FolderAt(p) # Nowhere => Alive(row, FolderAt(p))
<1>1. row \in [Node -> Row] /\ Nowhere \notin Folder /\ Base \in Folder /\ Alive(row, Base)
  BY NodeKinds, BaseOk DEF IsTree
<1>2. CASE p = <<>>
  BY <1>1, <1>2 DEF FolderAt, FolderFrom
<1>3. CASE p # <<>>
  BY <1>1, <1>3, FolderFromOk DEF FolderAt, Alive
<1>4. QED
  BY <1>2, <1>3

(* A path to a file finds a file of that name in that folder, or nothing.   *)
LEMMA FileAtOk ==
  ASSUME IsTree(row), NEW p \in Seq(Name)
  PROVE  /\ FileAt(p) \in File \cup {Nowhere}
         /\ FileAt(p) # Nowhere => Alive(row, FileAt(p))
<1> DEFINE d == FolderAt(Front(p))
           found == {f \in Named(Children(d) \cap File, Last(p)) : Lowest(f)}
<1>1. FileAt(p) = IF p = <<>> \/ d = Nowhere \/ found = {}
                  THEN Nowhere ELSE CHOOSE f \in found : TRUE
  BY DEF FileAt
<1>2. found \subseteq {n \in File : row[n].parent = d}
  BY NodeKinds DEF Lowest, Named, Children
<1>3. Nowhere \notin File
  BY NodeKinds
<1> HIDE DEF d, found
<1>4. CASE p = <<>> \/ d = Nowhere \/ found = {}
  BY <1>1, <1>4
<1>5. CASE ~(p = <<>> \/ d = Nowhere \/ found = {})
  <2>1. FileAt(p) = CHOOSE f \in found : TRUE
    BY <1>1, <1>5
  <2>2. FileAt(p) \in found
    BY <2>1, <1>5
  <2>3. QED
    BY <1>2, <1>3, <1>5, <2>2 DEF Alive
<1>6. QED
  BY <1>4, <1>5

(* A path finds a row that is there, or nothing.                            *)
LEMMA NodeAtOk ==
  ASSUME IsTree(row), NEW p \in Seq(Name)
  PROVE  /\ NodeAt(p) \in Node \cup {Nowhere}
         /\ NodeAt(p) # Nowhere => Alive(row, NodeAt(p))
BY FolderAtOk, FileAtOk, NodeKinds DEF NodeAt

-----------------------------------------------------------------------------
(* What the methods do keeps the tables a tree.                             *)

(* A row is there if it is not missing.                                     *)
LEMMA AliveIsNotMissing ==
  ASSUME NEW n \in Node
  PROVE  Alive(row, n) <=> ~Missing(n)
BY DEF Alive, Missing

(* A folder is removed with what is below it, and a tree is left.           *)
LEMMA TreeRemoved ==
  ASSUME IsTree(row), NEW n \in Node
  PROVE  IsTree(Removed(n))
<1> DEFINE gone == IF n \in Folder THEN Below(n) ELSE {n}
           new == Removed(n)
<1>1. /\ row \in [Node -> Row] /\ row[Root].parent = Nowhere /\ Root \in Node /\ Folder \subseteq Node
      /\ Nowhere \notin Node
  BY NodeKinds DEF IsTree
<1>2. new = [m \in Node |-> IF m \in gone THEN [row[m] EXCEPT !.parent = Nowhere] ELSE row[m]]
  BY DEF Removed
<1> HIDE DEF new, gone
<1>3. \A m \in Node : /\ new[m].parent = IF m \in gone THEN Nowhere ELSE row[m].parent
                      /\ new[m].name = row[m].name
                      /\ new[m] \in Row
  <2>1. SUFFICES ASSUME NEW m \in Node
                 PROVE  /\ new[m].parent = IF m \in gone THEN Nowhere ELSE row[m].parent
                        /\ new[m].name = row[m].name
                        /\ new[m] \in Row
    OBVIOUS
  <2>2. row[m] \in Row
    BY <1>1
  <2>3. new[m] = IF m \in gone THEN [row[m] EXCEPT !.parent = Nowhere] ELSE row[m]
    BY <1>2
  <2>4. QED
    BY <2>2, <2>3 DEF Row
<1>4. new \in [Node -> Row]
  BY <1>2, <1>3
<1>5. new[Root].parent = Nowhere
  BY <1>1, <1>3
<1>7. ASSUME NEW m \in Node, new[m].parent # Nowhere, new[m].parent # Root
      PROVE  new[new[m].parent].parent # Nowhere
  <2> DEFINE d == row[m].parent
  <2>1. m \notin gone /\ new[m].parent = d
    BY <1>3, <1>7
  <2>2. d # Nowhere /\ d # Root /\ row[d].parent # Nowhere
    BY <1>7, <2>1 DEF IsTree
  <2>3. d \in Folder
    BY <1>1, <2>2, RowParts
  <2>4. d \notin gone
    <3>1. CASE n \in Folder
      <4>1. gone = BelowIn(row, n)
        BY <3>1, BelowIs DEF gone
      <4>2. QED
        BY <1>1, <2>1, <3>1, <4>1, BelowClosed
    <3>2. CASE n \notin Folder
      BY <2>3, <3>2 DEF gone
    <3>3. QED
      BY <3>1, <3>2
  <2>5. QED
    BY <1>1, <1>3, <2>1, <2>2, <2>3, <2>4
<1>8. ASSUME NEW S \in SUBSET Folder, S # {}
      PROVE  \E d \in S : new[d].parent \notin S
  <2>1. PICK d \in S : row[d].parent \notin S
    BY <1>8 DEF IsTree
  <2>2. QED
    BY <1>1, <1>3, <2>1
<1>9. QED
  BY <1>4, <1>5, <1>7, <1>8 DEF IsTree, new

(* One row gets another parent and another name.                            *)
LEMMA PutIs ==
  ASSUME row \in [Node -> Row], NEW n \in Node, NEW d \in Folder, NEW x \in Name
  PROVE  /\ Put(row, n, d, x) \in [Node -> Row]
         /\ Put(row, n, d, x)[n] = [parent |-> d, name |-> x]
         /\ \A m \in Node : m # n => Put(row, n, d, x)[m] = row[m]
<1>1. [parent |-> d, name |-> x] \in Row
  BY DEF Row
<1>2. QED
  BY <1>1 DEF Put

(* A row is made in a folder.                                               *)
LEMMA TreeMade ==
  ASSUME IsTree(row), NEW n \in Node, Missing(n),
         NEW d \in Folder, Alive(row, d), NEW x \in Name
  PROVE  IsTree(Put(row, n, d, x))
<1> DEFINE new == Put(row, n, d, x)
<1>1. /\ row \in [Node -> Row] /\ row[Root].parent = Nowhere /\ Root \in Node /\ Folder \subseteq Node
      /\ Nowhere \notin Node
  BY NodeKinds DEF IsTree
<1>2. /\ new \in [Node -> Row] /\ new[n] = [parent |-> d, name |-> x]
      /\ \A m \in Node : m # n => new[m] = row[m]
  BY <1>1, PutIs
<1> HIDE DEF new
<1>3. n # Root /\ n # d /\ \A m \in Node : row[m].parent # n
  BY MissingEmpty DEF Missing, Alive
<1>4. new[Root].parent = Nowhere
  BY <1>1, <1>2, <1>3
<1>6. ASSUME NEW m \in Node, new[m].parent # Nowhere, new[m].parent # Root
      PROVE  new[new[m].parent].parent # Nowhere
  <2>1. CASE m = n
    BY <1>1, <1>2, <1>3, <1>6, <2>1 DEF Alive
  <2>2. CASE m # n
    <3>1. /\ new[m] = row[m] /\ row[m].parent # n /\ row[m].parent # Nowhere
          /\ row[m].parent # Root
      BY <1>2, <1>3, <1>6, <2>2
    <3>a. row[m].parent \in Node
      BY <1>1, <3>1, RowParts
    <3>2. row[row[m].parent].parent # Nowhere
      BY <3>1 DEF IsTree
    <3>3. QED
      BY <1>2, <3>1, <3>a, <3>2
  <2>3. QED
    BY <2>1, <2>2
<1>7. ASSUME NEW S \in SUBSET Folder, S # {}
      PROVE  \E e \in S : new[e].parent \notin S
  <2>1. CASE S = {n}
    BY <1>1, <1>2, <1>3, <2>1
  <2>2. CASE S # {n}
    <3>1. S \ {n} \in SUBSET Folder /\ S \ {n} # {}
      BY <1>7, <2>2
    <3>2. PICK e \in S \ {n} : row[e].parent \notin S \ {n}
      BY <3>1 DEF IsTree
    <3>3. QED
      BY <1>1, <1>2, <1>3, <3>2
  <2>3. QED
    BY <2>1, <2>2
<1>8. QED
  BY <1>2, <1>4, <1>6, <1>7 DEF IsTree, new

(* Some rows are in another folder than before, the others where they were. *)
AreIn(rows, away, d) == \A n \in Node : rows[n].parent = IF n \in away THEN d ELSE row[n].parent

(* Rows are moved to a folder that is not below them, one folder at most.   *)
LEMMA TreeMoved ==
  ASSUME IsTree(row), NEW t \in Node, t # Root, NEW away \in SUBSET Node, away \cap Folder \subseteq {t},
         NEW d \in Folder, Alive(row, d), t \in Folder => d \notin Below(t),
         NEW rows \in [Node -> Row],
         AreIn(rows, away, d)
  PROVE  IsTree(rows)
<1> USE DEF AreIn
<1>1. /\ row \in [Node -> Row] /\ row[Root].parent = Nowhere /\ Root \in Folder /\ Folder \subseteq Node
      /\ Nowhere \notin Node
  BY NodeKinds DEF IsTree
<1>2. t \in Folder => d \notin BelowIn(row, t) /\ t \in BelowIn(row, t)
  BY <1>1, BelowIs, BelowSelf
<1>3. Root \notin away /\ d \notin away
  BY <1>1, <1>2
<1>4. rows[Root].parent = Nowhere
  BY <1>1, <1>3
<1>5. ASSUME NEW m \in Node, rows[m].parent # Nowhere, rows[m].parent # Root
      PROVE  rows[rows[m].parent].parent # Nowhere
  <2>1. CASE m \in away
    BY <1>1, <1>3, <1>5, <2>1 DEF Alive
  <2>2. CASE m \notin away
    <3>1. rows[m].parent = row[m].parent /\ row[m].parent \in Node
      BY <1>1, <1>5, <2>2, RowParts
    <3>2. row[row[m].parent].parent # Nowhere
      BY <1>5, <3>1 DEF IsTree
    <3>3. QED
      BY <1>1, <3>1, <3>2
  <2>3. QED
    BY <2>1, <2>2
<1>6. ASSUME NEW S \in SUBSET Folder, S # {}
      PROVE  \E e \in S : rows[e].parent \notin S
  <2>1. CASE t \notin S \/ t \notin away
    <3>1. PICK e \in S : row[e].parent \notin S
      BY <1>6 DEF IsTree
    <3>2. QED
      BY <1>1, <2>1, <3>1
  <2>2. CASE t \in S /\ t \in away /\ S \subseteq BelowIn(row, t)
    BY <1>2, <2>2
  <2>3. CASE t \in S /\ t \in away /\ ~(S \subseteq BelowIn(row, t))
    <3> DEFINE W == {e \in S : e \notin BelowIn(row, t)}
    <3>1. W \in SUBSET Folder /\ W # {}
      BY <2>3
    <3>2. PICK e \in W : row[e].parent \notin W
      BY <3>1 DEF IsTree
    <3>3. row[e].parent \notin BelowIn(row, t)
      BY <1>1, <2>3, <3>2, BelowClosed
    <3>4. e \notin away
      BY <1>2, <2>3, <3>2
    <3>5. QED
      BY <1>1, <3>2, <3>3, <3>4
  <2>4. QED
    BY <2>1, <2>2, <2>3
<1>7. QED
  BY <1>4, <1>5, <1>6 DEF IsTree

(* What is copied, and its folder among them.                               *)
LEMMA Copied ==
  ASSUME IsTree(row), NEW t \in Node, NEW S, S = IF t \in Folder THEN Below(t) ELSE {t}
  PROVE  /\ S \subseteq Node /\ t \in S
         /\ \A m \in S : m # t => row[m].parent \in S /\ row[m].parent \in Folder
<1>1. row \in [Node -> Row]
  BY DEF IsTree
<1>2. CASE t \in Folder
  <2>1. S = BelowIn(row, t)
    BY <1>2, BelowIs
  <2>2. QED
    BY <1>1, <1>2, <2>1, BelowSelf, BelowParent
<1>3. CASE t \notin Folder
  BY <1>3
<1>4. QED
  BY <1>2, <1>3

CopyOf(rows, f, S, t, d) ==
  /\ S = IF t \in Folder THEN Below(t) ELSE {t}
  /\ \A m \in S : f[m] \in Node /\ Missing(f[m])
  /\ \A m, n \in S : f[m] = f[n] => m = n
  /\ \A m \in S : m \in Folder <=> f[m] \in Folder
  /\ d \in Folder /\ Alive(row, d)
  /\ rows \in [Node -> Row]
  /\ \A n \in Node : n \notin {f[m] : m \in S} => rows[n] = row[n]
  /\ \A m \in S : /\ rows[f[m]].parent = IF m = t THEN d ELSE f[row[m].parent]
                  /\ rows[f[m]].name = row[m].name

(* A copy goes into rows that are missing and keeps its shape.              *)
LEMMA TreeCopied ==
  ASSUME IsTree(row), NEW t \in Node, NEW S, NEW f, NEW d, NEW rows, CopyOf(rows, f, S, t, d)
  PROVE  IsTree(rows)
<1> SUFFICES
      ASSUME S = IF t \in Folder THEN Below(t) ELSE {t},
             \A m \in S : f[m] \in Node /\ Missing(f[m]),
             \A m, n \in S : f[m] = f[n] => m = n,
             \A m \in S : m \in Folder <=> f[m] \in Folder,
             d \in Folder, Alive(row, d),
             rows \in [Node -> Row],
             \A n \in Node : n \notin {f[m] : m \in S} => rows[n] = row[n],
             \A m \in S : /\ rows[f[m]].parent = IF m = t THEN d ELSE f[row[m].parent]
                          /\ rows[f[m]].name = row[m].name
      PROVE  IsTree(rows)
  BY DEF CopyOf
<1> DEFINE Im == {f[m] : m \in S}
<1>1. /\ row \in [Node -> Row] /\ row[Root].parent = Nowhere /\ Root \in Node /\ Folder \subseteq Node
      /\ Nowhere \notin Node
  BY NodeKinds DEF IsTree
<1>2. /\ S \subseteq Node /\ t \in S
      /\ \A m \in S : m # t => row[m].parent \in S /\ row[m].parent \in Folder
  BY Copied
<1>3. /\ \A i \in Im : i \in Node /\ i # Root /\ row[i].parent = Nowhere
      /\ \A i \in Im : \E m \in S : f[m] = i
      /\ \A m \in S : f[m] \in Im
  BY DEF Missing
<1>4. d \notin Im /\ \A n \in Node : row[n].parent \notin Im
  <2>1. \A i \in Im : Missing(i)
    OBVIOUS
  <2>2. QED
    BY <1>3, <2>1, MissingEmpty DEF Alive
<1>5. \A n \in Node : n \notin Im => rows[n] = row[n]
  OBVIOUS
<1> HIDE DEF Im
<1>6. rows[Root].parent = Nowhere
  BY <1>1, <1>3, <1>5
<1>8. ASSUME NEW a \in Node, rows[a].parent # Nowhere, rows[a].parent # Root
      PROVE  rows[rows[a].parent].parent # Nowhere
  <2>1. CASE a \notin Im
    <3>1. rows[a] = row[a] /\ row[a].parent # Nowhere /\ row[a].parent # Root
      BY <1>5, <1>8, <2>1
    <3>2. row[a].parent \in Node /\ row[a].parent \notin Im
      BY <1>1, <1>4, <3>1, RowParts
    <3>3. row[row[a].parent].parent # Nowhere
      BY <3>1 DEF IsTree
    <3>4. QED
      BY <1>5, <3>1, <3>2, <3>3
  <2>2. CASE a \in Im
    <3>1. PICK m \in S : f[m] = a
      BY <1>3, <2>2
    <3>2. CASE m = t
      <4>1. rows[a].parent = d
        BY <3>1, <3>2
      <4>2. QED
        BY <1>1, <1>4, <1>5, <1>8, <4>1 DEF Alive
    <3>3. CASE m # t
      <4>1. rows[a].parent = f[row[m].parent] /\ row[m].parent \in S
        BY <1>2, <3>1, <3>3
      <4> DEFINE e == row[m].parent
      <4>2. rows[f[e]].parent = IF e = t THEN d ELSE f[row[e].parent]
        BY <4>1
      <4>3. e # t => f[row[e].parent] \in Im
        BY <1>2, <1>3, <4>1
      <4>4. QED
        BY <1>1, <1>3, <4>1, <4>2, <4>3
    <3>4. QED
      BY <3>2, <3>3
  <2>3. QED
    BY <2>1, <2>2
<1>9. ASSUME NEW X \in SUBSET Folder, X # {}
      PROVE  \E e \in X : rows[e].parent \notin X
  <2>1. CASE X \subseteq Im
    <3> DEFINE W == {m \in S \cap Folder : f[m] \in X}
    <3>1. W \in SUBSET Folder /\ W # {}
      BY <1>3, <1>9, <2>1
    <3>2. PICK e \in W : row[e].parent \notin W
      BY <3>1 DEF IsTree
    <3>3. rows[f[e]].parent = (IF e = t THEN d ELSE f[row[e].parent]) /\ f[e] \in X
      BY <3>2
    <3>4. e # t => f[row[e].parent] \notin X
      BY <1>2, <3>2
    <3>5. QED
      BY <1>4, <2>1, <3>3, <3>4
  <2>2. CASE ~(X \subseteq Im)
    <3>1. X \ Im \in SUBSET Folder /\ X \ Im # {}
      BY <1>9, <2>2
    <3>2. PICK e \in X \ Im : row[e].parent \notin X \ Im
      BY <3>1 DEF IsTree
    <3>3. QED
      BY <1>1, <1>4, <1>5, <3>2
  <2>3. QED
    BY <2>1, <2>2
<1>10. QED
  BY <1>6, <1>8, <1>9 DEF IsTree

-----------------------------------------------------------------------------
(* The invariant.                                                           *)

(* The hrefs that something still to do can give: those of what it visits,  *)
(* and of what is below it; for a folder whose files are to be read, those  *)
(* of its files, and of its folders and what is below them.                 *)
Hrefs == Seq(Name)
Under(p, s) == Len(p) < Len(s) /\ \A k \in 1..Len(p) : s[k] = p[k]
Covers(f, p, dir) ==
  \/ /\ f.do = "visit"
     /\ \/ p = f.path /\ (dir <=> f.node \in Folder)
        \/ f.node \in Folder /\ Under(f.path, p)
  \/ /\ f.do = "files"
     /\ \/ ~dir /\ Len(p) = Len(f.path) + 1 /\ Under(f.path, p)
        \/ \E d \in f.dirs : \/ dir /\ p = Append(f.path, d[2])
                             \/ Under(Append(f.path, d[2]), p)

(* What a walk has done with a node, and what it is going to visit it for.  *)
Entries(q) == 1..Len(q.answer)
ToDos(q) == 1..Len(q.todo)
Listed(q, i, n) == q.answer[i].node = n
Visits(f, n) == f.do = "visit" /\ f.node = n
Queues(f, n) == f.do = "files" /\ \E x \in Name : <<n, x>> \in f.dirs
Reads(f, n) == f.do = "files" /\ f.node = n
Holds(rows, f, n) == Visits(f, n) \/ Queues(f, n) \/ (n \in File /\ Reads(f, rows[n].parent))

(* Answers, of any request.                                                 *)
HrefsOnce(q) ==
  \A i, j \in Entries(q) :
    /\ i # j /\ ~q.clash =>
         <<q.answer[i].path, IsDir(q.answer[i])>> # <<q.answer[j].path, IsDir(q.answer[j])>>
    /\ q.depth >= 0 => Len(q.answer[i].path) - Len(q.path) <= q.depth

(* The properties of an entry.                                              *)
EntryOK(q, e) ==
  /\ ToSet(e.ok) \cap ToSet(e.rest) = {}
  /\ \A x \in Reported(e) \cup ToSet(q.asked) :
       Times(x, e.ok) + Times(x, e.rest) = IF q.asked = <<>> THEN 1 ELSE Times(x, q.asked)
  /\ q.method = "PROPPATCH" =>
       IF ToSet(q.asked) \cap LiveProps = {} THEN e.rest = <<>> ELSE e.ok = <<>>
  /\ q.method = "PROPFIND" => ToSet(e.ok) \subseteq Known(e.node) /\ ToSet(e.rest) \cap Known(e.node) = {}

(* A walk begins with the resource that was asked for.                      *)
FirstFrame(q) == [do |-> "visit", node |-> q.top, path |-> q.path, depth |-> q.depth, dirs |-> {}]
Begun(q) ==
  /\ q.pc = "close" \/ q.cut => q.todo = <<>>
  /\ q.top \in Node /\ q.path \in Hrefs /\ q.method = "PROPFIND"
  /\ Acceptable(q.body) /\ q.asked = q.body.prop
  /\ q.answer = <<>> => q.cut \/ q.todo = <<FirstFrame(q)>>
  /\ q.answer # <<>> => q.answer[1].node = q.top

(* How deep it still goes.                                                  *)
WithinDepth(q) ==
  \A k \in ToDos(q) : LET f == q.todo[k] IN
    /\ q.depth = Infinite => f.depth = Infinite
    /\ q.depth # Infinite =>
         /\ f.depth \in {0, 1}
         /\ Len(f.path) + f.depth + (IF f.do = "files" THEN 1 ELSE 0) <= Len(q.path) + q.depth

(* A folder whose files are to be read has been listed; its folders were     *)
(* read when no two rows shared a name.                                     *)
Opened(q) ==
  \A k \in ToDos(q) : q.todo[k].do = "files" =>
    /\ q.todo[k].node \in Folder /\ IsFiniteSet(q.todo[k].dirs)
    /\ \E j \in Entries(q) : Listed(q, j, q.todo[k].node) /\ q.answer[j].path = q.todo[k].path
    /\ ~q.clash => \A d, e \in q.todo[k].dirs : d[2] = e[2] => d = e

(* No href can come twice, unless rows share names.                         *)
Apart(q) ==
  ~q.clash => \A k \in ToDos(q), p \in Hrefs, dir \in BOOLEAN : Covers(q.todo[k], p, dir) =>
    /\ \A l \in ToDos(q) : Covers(q.todo[l], p, dir) => k = l
    /\ \A i \in Entries(q) : ~(q.answer[i].path = p /\ (IsDir(q.answer[i]) <=> dir))

(* What stayed hangs together.                                              *)
Connected(rows, q) ==
  /\ \A n \in q.stayed : n = q.top \/ rows[n].parent \in q.stayed
  /\ q.stayed # {} => q.top \in q.stayed
  /\ q.stayed \subseteq (IF q.top \in Folder THEN BelowIn(rows, q.top) ELSE {q.top})

(* The walk does not come back to the resource that it began with.          *)
Aside(rows, q, n) == n # q.top /\ (n \in Folder => q.top \notin BelowIn(rows, n))
NoReturn(rows, q) ==
  q.top \in q.stayed => \A k \in ToDos(q) : LET f == q.todo[k] IN
    /\ f.do = "visit" /\ q.answer # <<>> => Aside(rows, q, f.node)
    /\ f.do = "files" => f.node = q.top \/ Aside(rows, q, f.node)
    /\ \A n \in Node : Queues(f, n) => Aside(rows, q, n)

(* What stayed is listed or to come, once.                                  *)
OnceOnly(rows, q) ==
  \A n \in q.stayed :
    /\ \A i, j \in Entries(q) : Listed(q, i, n) /\ Listed(q, j, n) => i = j
    /\ \A k, l \in ToDos(q) : Holds(rows, q.todo[k], n) /\ Holds(rows, q.todo[l], n) => k = l
    /\ \A i \in Entries(q), k \in ToDos(q) : ~(Listed(q, i, n) /\ Holds(rows, q.todo[k], n))

(* And is, or will be, below the entry of its folder.                       *)
UnderEntry(rows, q, n, path) ==
  \E j \in Entries(q) : Listed(q, j, rows[n].parent) /\ path = Append(q.answer[j].path, rows[n].name)
EntriesBelow(rows, q, n) ==
  n # q.top => /\ \A i \in Entries(q) : Listed(q, i, n) => UnderEntry(rows, q, n, q.answer[i].path)
               /\ \A k \in ToDos(q) : Visits(q.todo[k], n) => UnderEntry(rows, q, n, q.todo[k].path)
QueuedBelow(rows, q, n) ==
  \A k \in ToDos(q), x \in Name : q.todo[k].do = "files" /\ <<n, x>> \in q.todo[k].dirs =>
    n # q.top /\ rows[n].parent = q.todo[k].node /\ rows[n].name = x
BelowFolder(rows, q) == \A n \in q.stayed : EntriesBelow(rows, q, n) /\ QueuedBelow(rows, q, n)

(* Unless a query or a write failed, nothing that stayed is left out.       *)
InScope(rows, q, n) == n # q.top /\ (q.depth = Infinite \/ (q.depth = 1 /\ rows[n].parent = q.top))
NothingLeftOut(rows, q) ==
  ~q.short /\ ~q.cut =>
    \A n \in q.stayed :
      InScope(rows, q, n) /\ (\E j \in Entries(q) : Listed(q, j, rows[n].parent)) =>
        \/ \E i \in Entries(q) : Listed(q, i, n)
        \/ \E k \in ToDos(q) : Holds(rows, q.todo[k], n)

Walking(rows, q) ==
  /\ Begun(q) /\ WithinDepth(q) /\ Opened(q) /\ Apart(q)
  /\ Connected(rows, q) /\ NoReturn(rows, q) /\ OnceOnly(rows, q) /\ BelowFolder(rows, q)
  /\ NothingLeftOut(rows, q)
  /\ ~q.clash => NamesDiffer(rows)

ReqInv(rows, q) ==
  /\ HrefsOnce(q)
  /\ \A i \in Entries(q) : EntryOK(q, q.answer[i])
  /\ q.pc \in {"walk", "close"} => Walking(rows, q)

IInv == TypeOK /\ IsTree(row) /\ \A r \in Request : ReqInv(row, req[r])

(* They depend on nothing else that a request has.                          *)
LEMMA SameEntryOK ==
  ASSUME NEW q, NEW q2, q2.method = q.method, q2.asked = q.asked, NEW e, EntryOK(q, e)
  PROVE  EntryOK(q2, e)
BY DEF EntryOK

(* Nor do the hrefs.                                                        *)
LEMMA SameHrefsOnce ==
  ASSUME NEW q, NEW q2, q2.answer = q.answer, q2.path = q.path, q2.depth = q.depth,
         ~q2.clash => ~q.clash, HrefsOnce(q)
  PROVE  HrefsOnce(q2)
BY DEF HrefsOnce, Entries

-----------------------------------------------------------------------------
(* Paths below one another.                                                 *)

(* The path of a child.                                                     *)
LEMMA AppendOf ==
  ASSUME NEW p \in Hrefs, NEW x \in Name
  PROVE  /\ Append(p, x) \in Hrefs /\ Len(p) \in Nat /\ Len(Append(p, x)) = Len(p) + 1
         /\ \A k \in 1..Len(p) : Append(p, x)[k] = p[k]
         /\ Append(p, x)[Len(p) + 1] = x
         /\ Under(p, Append(p, x))
<1>1. /\ Append(p, x) \in Hrefs /\ Len(p) \in Nat /\ Len(Append(p, x)) = Len(p) + 1
      /\ \A k \in 1..Len(p) : Append(p, x)[k] = p[k]
      /\ Append(p, x)[Len(p) + 1] = x
  BY AppendProperties DEF Hrefs
<1>2. QED
  BY <1>1 DEF Under

(* What is under the path of a child is under that of its folder.           *)
LEMMA UnderAppend ==
  ASSUME NEW p \in Hrefs, NEW x \in Name, NEW s \in Hrefs, Under(Append(p, x), s)
  PROVE  Under(p, s) /\ s[Len(p) + 1] = x /\ Len(s) > Len(p) + 1
<1> DEFINE a == Append(p, x)  m == Len(p)
<1>1. /\ m \in Nat /\ Len(a) = m + 1 /\ a[m + 1] = x
      /\ \A k \in 1..m : a[k] = p[k]
  BY AppendOf
<1>2. Len(a) < Len(s) /\ \A k \in 1..Len(a) : s[k] = a[k]
  BY DEF Under
<1>3. Len(s) \in Nat
  BY DEF Hrefs
<1> HIDE DEF a
<1>4. s[m + 1] = x /\ Len(s) > m + 1
  BY <1>1, <1>2, <1>3
<1>5. \A k \in 1..m : s[k] = p[k]
  BY <1>1, <1>2
<1>6. QED
  BY <1>1, <1>3, <1>4, <1>5 DEF Under

(* Children of different names have different paths.                        *)
LEMMA AppendOnce ==
  ASSUME NEW p \in Hrefs, NEW x \in Name, NEW y \in Name, Append(p, x) = Append(p, y)
  PROVE  x = y
BY AppendOf

-----------------------------------------------------------------------------
(* A change of the tree leaves every walk its invariant.                    *)

(* The parts of a request have their types.                                 *)
LEMMA WalkParts ==
  ASSUME NEW q \in ReqState
  PROVE  /\ q.todo \in Seq(ToDo) /\ q.answer \in Seq(AnEntry) /\ q.stayed \in SUBSET Node
         /\ q.asked \in Seq(Property) /\ q.depth \in Depths /\ q.body \in Bodies
         /\ q.short \in BOOLEAN /\ q.cut \in BOOLEAN /\ q.clash \in BOOLEAN
         /\ q.pc \in {"idle", "walk", "close", "done"}
         /\ \A k \in ToDos(q) : q.todo[k] \in ToDo
         /\ \A i \in Entries(q) : q.answer[i] \in AnEntry
<1>1. q.todo \in Seq(ToDo) /\ q.answer \in Seq(AnEntry)
  BY DEF ReqState
<1>2. \A k \in ToDos(q) : q.todo[k] \in ToDo
  BY <1>1, ElementOfSeq DEF ToDos
<1>3. \A i \in Entries(q) : q.answer[i] \in AnEntry
  BY <1>1, ElementOfSeq DEF Entries
<1>4. /\ q.stayed \in SUBSET Node
      /\ q.asked \in Seq(Property) /\ q.depth \in Depths /\ q.body \in Bodies
      /\ q.short \in BOOLEAN /\ q.cut \in BOOLEAN /\ q.clash \in BOOLEAN
      /\ q.pc \in {"idle", "walk", "close", "done"}
  BY DEF ReqState
<1>5. QED
  BY <1>1, <1>2, <1>3, <1>4

(* An entry, or a failed write, leaves a request its type.                  *)
LEMMA Updated ==
  ASSUME NEW q \in ReqState, NEW s \in Nat, NEW a \in Seq(AnEntry), NEW c \in BOOLEAN
  PROVE  /\ [q EXCEPT !.answer = a, !.status = s] \in ReqState
         /\ [q EXCEPT !.cut = c, !.status = s] \in ReqState
<1>1. [q EXCEPT !.answer = a, !.status = s] \in ReqState
  BY Zenon DEF ReqState
<1>2. [q EXCEPT !.cut = c, !.status = s] \in ReqState
  BY Zenon DEF ReqState
<1>3. QED
  BY <1>1, <1>2

(* The parts of something to do have their types.                           *)
LEMMA FrameParts ==
  ASSUME NEW f \in ToDo
  PROVE  /\ f.do \in {"visit", "files"} /\ f.node \in Node /\ f.path \in Hrefs /\ f.depth \in Depths
         /\ f.dirs \in SUBSET (Folder \X Name)
BY DEF ToDo, Hrefs

Moved(rows, new) == {n \in Node : rows[n] # new[n]}
Off(rows, new) ==
  {n \in Node : n \in Moved(rows, new) \/ \E x \in Moved(rows, new) \cap Folder : n \in BelowIn(rows, x)}

(* What a change puts out of place takes along what is below it.            *)
LEMMA OffClosed ==
  ASSUME NEW rows \in [Node -> Row], NEW new \in [Node -> Row]
  PROVE  /\ \A n \in Node : n \notin Off(rows, new) => new[n] = rows[n]
         /\ \A n \in Node : rows[n].parent \in Off(rows, new) => n \in Off(rows, new)
         /\ \A t \in Folder \cap Off(rows, new) : BelowIn(rows, t) \subseteq Off(rows, new)
<1> DEFINE M == Moved(rows, new)
<1>1. \A n \in Node : n \notin Off(rows, new) => new[n] = rows[n]
  BY DEF Off, Moved
<1>2. \A x \in M \cap Folder : BelowIn(rows, x) \subseteq Off(rows, new)
  BY BelowSelf DEF Off
<1>3. \A n \in Off(rows, new) : n \in M \/ \E x \in M \cap Folder : n \in BelowIn(rows, x)
  BY DEF Off
<1> HIDE DEF M
<1>4. ASSUME NEW n \in Node, rows[n].parent \in Off(rows, new)
      PROVE  n \in Off(rows, new)
  <2> DEFINE d == rows[n].parent
  <2>1. Off(rows, new) \subseteq Node
    BY DEF Off
  <2>2. d \in Folder
    BY <1>4, <2>1, RowParts
  <2>3. CASE d \in M
    BY <1>2, <1>4, <2>2, <2>3, BelowSelf, BelowClosed
  <2>4. CASE d \notin M
    <3>1. PICK x \in M \cap Folder : d \in BelowIn(rows, x)
      BY <1>3, <1>4, <2>4
    <3>2. QED
      BY <1>2, <3>1, BelowClosed
  <2>5. QED
    BY <2>3, <2>4
<1>5. ASSUME NEW t \in Folder \cap Off(rows, new)
      PROVE  BelowIn(rows, t) \subseteq Off(rows, new)
  <2>1. CASE t \in M
    BY <1>2, <2>1
  <2>2. CASE t \notin M
    <3>1. PICK x \in M \cap Folder : t \in BelowIn(rows, x)
      BY <1>3, <2>2
    <3>2. QED
      BY <1>2, <3>1, BelowTrans
  <2>3. QED
    BY <2>1, <2>2
<1>6. QED
  BY <1>1, <1>4, <1>5

(* What stayed still hangs together after a change.                         *)
LEMMA ConnectedChanged ==
  ASSUME NEW rows \in [Node -> Row], NEW new \in [Node -> Row],
         NEW q, q.stayed \in SUBSET Node, q.top \in Node, Connected(rows, q),
         NEW q2, q2.stayed = q.stayed \ Off(rows, new), q2.top = q.top
  PROVE  Connected(new, q2)
<1> DEFINE S == q2.stayed  top == q.top
<1>1. \A n \in S : n \in q.stayed /\ n \in Node /\ n \notin Off(rows, new) /\ new[n] = rows[n]
  BY OffClosed
<1>2. \A n \in S : n = top \/ new[n].parent \in S
  BY <1>1, OffClosed DEF Connected
<1>3. ASSUME NEW n \in S
      PROVE  top \in S
  <2>1. top \in q.stayed
    BY <1>1 DEF Connected
  <2>2. CASE top \in Folder
    BY <1>1, <2>1, <2>2, OffClosed DEF Connected
  <2>3. CASE top \notin Folder
    BY <1>1, <2>3 DEF Connected
  <2>4. QED
    BY <2>2, <2>3
<1>4. ASSUME top \in Folder
      PROVE  S \subseteq BelowIn(new, top)
  <2> DEFINE T == BelowIn(new, top) \cup (Node \ S)
  <2>1. top \in T
    BY <1>4, BelowSelf
  <2>2. ASSUME NEW m \in Node, rows[m].parent \in T
        PROVE  m \in T
    <3>1. SUFFICES ASSUME m \in S, m # top PROVE m \in BelowIn(new, top)
      BY <2>1
    <3>2. rows[m].parent \in S
      BY <1>1, <1>2, <3>1
    <3>3. new[m].parent \in BelowIn(new, top)
      BY <1>1, <2>2, <3>1, <3>2
    <3>4. QED
      BY <1>4, <3>3, BelowClosed
  <2> HIDE DEF T
  <2>3. BelowIn(rows, top) \subseteq T
    BY <1>4, <2>1, <2>2, BelowLeast
  <2>4. q.stayed \subseteq BelowIn(rows, top)
    BY <1>4 DEF Connected
  <2>5. QED
    BY <1>1, <2>3, <2>4 DEF T
<1>5. ASSUME top \notin Folder
      PROVE  S \subseteq {top}
  BY <1>1, <1>5 DEF Connected
<1>6. QED
  BY <1>2, <1>3, <1>4, <1>5 DEF Connected

(* What stayed has not come below a folder that it was not in.              *)
LEMMA AsideChanged ==
  ASSUME NEW rows \in [Node -> Row], NEW new \in [Node -> Row],
         NEW q, q.top \in Node, q.top \notin Off(rows, new),
         NEW n \in Node, Aside(rows, q, n),
         NEW q2, q2.top = q.top
  PROVE  Aside(new, q2, n)
<1> DEFINE top == q.top
           T == {m \in Node : m # top /\ (m \in Folder => top \notin BelowIn(rows, m))}
<1>1. SUFFICES ASSUME n \in Folder PROVE top \notin BelowIn(new, n)
  BY DEF Aside
<1>2. n \in T
  BY DEF Aside
<1>3. ASSUME NEW m \in Node, new[m].parent \in T
      PROVE  m \in T
  <2>1. SUFFICES ASSUME m = top \/ (m \in Folder /\ top \in BelowIn(rows, m))
                 PROVE  FALSE
    OBVIOUS
  <2>2. m \notin Off(rows, new)
    BY <2>1, OffClosed
  <2>3. new[m] = rows[m]
    BY <2>2, OffClosed
  <2> DEFINE d == rows[m].parent
  <2>4. d \in Folder
    BY <1>3, <2>3, RowParts
  <2>5. m \in BelowIn(rows, d)
    BY <2>4, BelowSelf, BelowClosed
  <2>6. top \in BelowIn(rows, d)
    BY <2>1, <2>4, <2>5, BelowTrans
  <2>7. QED
    BY <1>3, <2>3, <2>4, <2>6
<1> HIDE DEF T
<1>4. BelowIn(new, n) \subseteq T
  BY <1>1, <1>2, <1>3, BelowLeast
<1>5. QED
  BY <1>4 DEF T

(* What is to come of a row that stayed is still to come.                   *)
LEMMA HoldsChanged ==
  ASSUME NEW rows, NEW new, NEW f, NEW n, new[n] = rows[n]
  PROVE  Holds(new, f, n) <=> Holds(rows, f, n)
BY DEF Holds

(* The invariant of a walk survives the change of another request.          *)
LEMMA WalkingChanged ==
  ASSUME NEW rows \in [Node -> Row], NEW new \in [Node -> Row],
         NEW q \in ReqState, Walking(rows, q),
         NEW q2, q2 = [q EXCEPT !.stayed = @ \ Off(rows, new), !.clash = @ \/ ~NamesDiffer(new)]
  PROVE  Walking(new, q2)
<1>1. /\ q2.pc = q.pc /\ q2.method = q.method /\ q2.top = q.top /\ q2.path = q.path
      /\ q2.depth = q.depth /\ q2.body = q.body /\ q2.asked = q.asked /\ q2.todo = q.todo
      /\ q2.answer = q.answer /\ q2.short = q.short /\ q2.cut = q.cut
      /\ q2.stayed = q.stayed \ Off(rows, new)
  BY DEF ReqState
<1>b. ~q2.clash => ~q.clash /\ NamesDiffer(new)
  BY DEF ReqState
<1>2. ToDos(q2) = ToDos(q) /\ Entries(q2) = Entries(q)
  BY <1>1 DEF ToDos, Entries
<1>3. \A i, n : Listed(q2, i, n) <=> Listed(q, i, n)
  BY <1>1 DEF Listed
<1>4. q.top \in Node /\ q.stayed \in SUBSET Node /\ \A k \in ToDos(q) : q.todo[k] \in ToDo
  BY WalkParts DEF Walking, Begun
<1>5. \A n \in q2.stayed : n \in q.stayed /\ n \in Node /\ n \notin Off(rows, new) /\ new[n] = rows[n]
  BY <1>1, <1>4, OffClosed
<1>6. \A n \in q2.stayed : \A f : Holds(new, f, n) <=> Holds(rows, f, n)
  BY <1>5, HoldsChanged
<1>a. /\ Begun(q) /\ WithinDepth(q) /\ Opened(q) /\ Apart(q)
      /\ Connected(rows, q) /\ NoReturn(rows, q) /\ OnceOnly(rows, q) /\ BelowFolder(rows, q)
      /\ NothingLeftOut(rows, q)
  BY DEF Walking
<1>7. Begun(q2)
  <2>1. FirstFrame(q2) = FirstFrame(q)
    BY <1>a, <1>1 DEF FirstFrame
  <2>2. QED
    BY <1>a, <1>1, <2>1 DEF Begun
<1>8. WithinDepth(q2)
  BY <1>a, <1>1, <1>2 DEF WithinDepth
<1>9. Opened(q2)
  <2>1. q2.todo = q.todo /\ q2.answer = q.answer /\ Opened(q) /\ (~q2.clash => ~q.clash)
    BY <1>1, <1>a, <1>b
  <2>2. QED
    BY <2>1 DEF Opened, ToDos, Entries, Listed
<1>10. Apart(q2)
  <2>1. q2.todo = q.todo /\ q2.answer = q.answer /\ Apart(q) /\ (~q2.clash => ~q.clash)
    BY <1>1, <1>a, <1>b
  <2>2. QED
    BY <2>1 DEF Apart, ToDos, Entries
<1>11. Connected(new, q2)
  BY <1>a, <1>1, <1>4, ConnectedChanged
<1>12. NoReturn(new, q2)
  <2>1. SUFFICES ASSUME q.top \in q2.stayed
                 PROVE  NoReturn(new, q2)
    BY <1>a, <1>1 DEF NoReturn
  <2>2. q.top \in q.stayed /\ q.top \notin Off(rows, new)
    BY <1>5, <2>1
  <2>3. \A n \in Node : Aside(rows, q, n) => Aside(new, q2, n)
    <3>1. q.top \in Node /\ q.top \notin Off(rows, new) /\ q2.top = q.top
      BY <1>1, <1>4, <2>2
    <3>2. QED
      BY <3>1, AsideChanged
  <2>4. \A k \in ToDos(q) : q.todo[k].node \in Node
    BY <1>4, FrameParts
  <2>5. QED
    BY <1>a, <1>1, <1>2, <2>2, <2>3, <2>4 DEF NoReturn
<1>13. OnceOnly(new, q2)
  <2>1. q2.todo = q.todo /\ q2.answer = q.answer /\ OnceOnly(rows, q)
    BY <1>1, <1>a
  <2>2. \A n \in q2.stayed : n \in q.stayed
    BY <1>5
  <2>3. QED
    BY <1>6, <2>1, <2>2 DEF OnceOnly, ToDos, Entries, Listed
<1>14. BelowFolder(new, q2)
  <2>1. \A n \in q2.stayed : \A path : UnderEntry(new, q2, n, path) <=> UnderEntry(rows, q, n, path)
    BY <1>1, <1>2, <1>3, <1>5 DEF UnderEntry
  <2>2. q2.todo = q.todo /\ q2.answer = q.answer /\ q2.top = q.top /\ BelowFolder(rows, q)
    BY <1>1, <1>a
  <2>3. \A n \in q2.stayed : n \in q.stayed /\ new[n] = rows[n]
    BY <1>5
  <2>4. ASSUME NEW n \in q2.stayed
        PROVE  EntriesBelow(new, q2, n) /\ QueuedBelow(new, q2, n)
    <3>1. EntriesBelow(rows, q, n) /\ QueuedBelow(rows, q, n) /\ new[n] = rows[n]
      BY <2>2, <2>3, <2>4 DEF BelowFolder
    <3>2. EntriesBelow(new, q2, n)
      BY <2>1, <2>2, <3>1 DEF EntriesBelow, ToDos, Entries, Listed
    <3>3. QueuedBelow(new, q2, n)
      BY <2>2, <3>1 DEF QueuedBelow, ToDos
    <3>4. QED
      BY <3>2, <3>3
  <2>5. QED
    BY <2>4 DEF BelowFolder
<1>15. NothingLeftOut(new, q2)
  <2>1. \A n \in q2.stayed : InScope(new, q2, n) <=> InScope(rows, q, n)
    BY <1>a, <1>1, <1>5 DEF InScope
  <2>2. QED
    BY <1>a, <1>1, <1>2, <1>3, <1>5, <1>6, <2>1 DEF NothingLeftOut
<1>16. QED
  BY <1>b, <1>7, <1>8, <1>9, <1>10, <1>11, <1>12, <1>13, <1>14, <1>15 DEF Walking

-----------------------------------------------------------------------------
(* A step of a walk has other things to do in place of the first.           *)

Replaces(todo2, todo, N) ==
  \E o \in [1..Len(todo2) -> 1..Len(todo)] :
    /\ \A k \in 1..Len(todo2) : IF o[k] = 1 THEN todo2[k] \in N ELSE todo2[k] = todo[o[k]]
    /\ \A k, l \in 1..Len(todo2) : o[k] = o[l] /\ (o[k] = 1 => todo2[k] = todo2[l]) => k = l
    /\ \A l \in 1..Len(todo) : l # 1 => \E k \in 1..Len(todo2) : o[k] = l
    /\ \A g \in N : \E k \in 1..Len(todo2) : todo2[k] = g

(* After a step what is to do is new or was there.                          *)
LEMMA NewOrOld ==
  ASSUME NEW todo, NEW todo2, NEW N, Replaces(todo2, todo, N)
  PROVE  /\ \A k \in 1..Len(todo2) :
              todo2[k] \in N \/ \E l \in 1..Len(todo) : l # 1 /\ todo2[k] = todo[l]
         /\ \A l \in 1..Len(todo) : l # 1 => \E k \in 1..Len(todo2) : todo2[k] = todo[l]
         /\ \A g \in N : \E k \in 1..Len(todo2) : todo2[k] = g
<1>1. PICK o \in [1..Len(todo2) -> 1..Len(todo)] :
        /\ \A k \in 1..Len(todo2) : IF o[k] = 1 THEN todo2[k] \in N ELSE todo2[k] = todo[o[k]]
        /\ \A l \in 1..Len(todo) : l # 1 => \E k \in 1..Len(todo2) : o[k] = l
        /\ \A g \in N : \E k \in 1..Len(todo2) : todo2[k] = g
  BY DEF Replaces
<1>2. ASSUME NEW k \in 1..Len(todo2)
      PROVE  todo2[k] \in N \/ \E l \in 1..Len(todo) : l # 1 /\ todo2[k] = todo[l]
  <2>1. o[k] \in 1..Len(todo)
    BY <1>1
  <2>2. QED
    BY <1>1, <2>1
<1>3. ASSUME NEW l \in 1..Len(todo), l # 1
      PROVE  \E k \in 1..Len(todo2) : todo2[k] = todo[l]
  <2>1. PICK k \in 1..Len(todo2) : o[k] = l
    BY <1>1, <1>3
  <2>2. QED
    BY <1>1, <1>3, <2>1
<1>4. QED
  BY <1>1, <1>2, <1>3

(* What is in at most one place before is so afterwards.                    *)
InOne(todo, H) == \A k, l \in 1..Len(todo) : todo[k] \in H /\ todo[l] \in H => k = l
OneNew(todo, N, H) ==
  /\ \A g, h \in N : g \in H /\ h \in H => g = h
  /\ \A g \in N : g \in H => todo[1] \in H \/ \A l \in 1..Len(todo) : todo[l] \notin H

(* Of what is to do, two that came from one are one.                        *)
LEMMA OneOf ==
  ASSUME NEW todo, NEW todo2, NEW N, Replaces(todo2, todo, N), 1 \in 1..Len(todo),
         NEW H, InOne(todo, H), OneNew(todo, N, H)
  PROVE  InOne(todo2, H)
<1>1. PICK o \in [1..Len(todo2) -> 1..Len(todo)] :
        /\ \A k \in 1..Len(todo2) : IF o[k] = 1 THEN todo2[k] \in N ELSE todo2[k] = todo[o[k]]
        /\ \A k, l \in 1..Len(todo2) : o[k] = o[l] /\ (o[k] = 1 => todo2[k] = todo2[l]) => k = l
  BY DEF Replaces
<1>2. SUFFICES ASSUME NEW k \in 1..Len(todo2), NEW l \in 1..Len(todo2),
                      todo2[k] \in H, todo2[l] \in H
               PROVE  k = l
  BY DEF InOne
<1>a. InOne(todo, H) /\ OneNew(todo, N, H)
  OBVIOUS
<1>3. o[k] \in 1..Len(todo) /\ o[l] \in 1..Len(todo)
  BY <1>1
<1>4. o[k] # 1 => todo[o[k]] \in H
  BY <1>1, <1>2
<1>5. o[l] # 1 => todo[o[l]] \in H
  BY <1>1, <1>2
<1>6. o[k] = 1 => todo2[k] \in N
  BY <1>1
<1>7. o[l] = 1 => todo2[l] \in N
  BY <1>1
<1>8. o[k] = o[l]
  <2>1. o[k] # 1 /\ o[l] # 1 => o[k] = o[l]
    BY <1>a, <1>3, <1>4, <1>5 DEF InOne
  <2>2. ~(o[k] = 1 /\ o[l] # 1)
    BY <1>a, <1>2, <1>3, <1>5, <1>6 DEF InOne, OneNew
  <2>3. ~(o[k] # 1 /\ o[l] = 1)
    BY <1>a, <1>2, <1>3, <1>4, <1>7 DEF InOne, OneNew
  <2>4. QED
    BY <2>1, <2>2, <2>3
<1>9. o[k] = 1 => todo2[k] = todo2[l]
  BY <1>a, <1>2, <1>6, <1>7, <1>8 DEF OneNew
<1>10. QED
  BY <1>1, <1>8, <1>9

(* The first is done and nothing comes in its place.                        *)
LEMMA ReplacedByNone ==
  ASSUME NEW todo \in Seq(ToDo), todo # <<>>
  PROVE  /\ Tail(todo) \in Seq(ToDo) /\ Replaces(Tail(todo), todo, {})
<1> DEFINE t == Tail(todo)  n == Len(todo)  o == [k \in 1..Len(t) |-> k + 1]
<1>1. t \in Seq(ToDo) /\ Len(t) = n - 1 /\ \A k \in 1..Len(t) : t[k] = todo[k + 1]
  BY HeadTailProperties
<1>2. n \in Nat /\ n # 0
  BY EmptySeq
<1> HIDE DEF t, n
<1>3. /\ o \in [1..Len(t) -> 1..n]
      /\ \A k \in 1..Len(t) : o[k] # 1 /\ t[k] = todo[o[k]]
      /\ \A k, l \in 1..Len(t) : o[k] = o[l] => k = l
  BY <1>1, <1>2
<1>4. ASSUME NEW l \in 1..n, l # 1
      PROVE  \E k \in 1..Len(t) : o[k] = l
  <2>1. l - 1 \in 1..Len(t) /\ o[l - 1] = l
    BY <1>1, <1>2, <1>4
  <2>2. QED
    BY <2>1
<1> HIDE DEF o
<1>5. Replaces(t, todo, {})
  BY <1>3, <1>4 DEF Replaces, n
<1>6. QED
  BY <1>1, <1>5 DEF t

(* One comes in the place of the first.                                     *)
LEMMA ReplacedByOne ==
  ASSUME NEW todo \in Seq(ToDo), todo # <<>>, NEW g \in ToDo
  PROVE  /\ <<g>> \o Tail(todo) \in Seq(ToDo) /\ Replaces(<<g>> \o Tail(todo), todo, {g})
<1> DEFINE t == Tail(todo)  n == Len(todo)  u == <<g>> \o t  o == [k \in 1..n |-> k]
<1>1. t \in Seq(ToDo) /\ Len(t) = n - 1 /\ \A k \in 1..Len(t) : t[k] = todo[k + 1]
  BY HeadTailProperties
<1>2. n \in Nat /\ n # 0
  BY EmptySeq
<1>3. <<g>> \in Seq(ToDo) /\ Len(<<g>>) = 1 /\ <<g>>[1] = g
  OBVIOUS
<1> HIDE DEF t, n
<1>4. /\ u \in Seq(ToDo) /\ Len(u) = Len(<<g>>) + Len(t)
      /\ \A k \in 1..Len(<<g>>) : u[k] = <<g>>[k]
      /\ \A k \in 1..Len(t) : u[Len(<<g>>) + k] = t[k]
  BY <1>1, <1>3, ConcatProperties
<1> HIDE DEF u
<1>5. Len(u) = n /\ u[1] = g
  BY <1>1, <1>2, <1>3, <1>4
<1>6. ASSUME NEW k \in 1..n, k # 1
      PROVE  u[k] = todo[k]
  <2>1. k - 1 \in 1..Len(t) /\ 1 + (k - 1) = k /\ (k - 1) + 1 = k
    BY <1>1, <1>2, <1>6
  <2>2. u[1 + (k - 1)] = t[k - 1]
    BY <1>3, <1>4, <2>1
  <2>3. QED
    BY <1>1, <2>1, <2>2
<1>7. o \in [1..Len(u) -> 1..n] /\ \A k \in 1..n : o[k] = k
  BY <1>5
<1>8. 1 \in 1..n
  BY <1>2
<1> HIDE DEF o
<1>9. Replaces(u, todo, {g})
  BY <1>5, <1>6, <1>7, <1>8 DEF Replaces, n
<1>10. QED
  BY <1>4, <1>9 DEF u, t

(* The members of two sets come in the place of the first.                  *)
LEMMA ReplacedByTwo ==
  ASSUME NEW todo \in Seq(ToDo), todo # <<>>,
         NEW A \in SUBSET ToDo, NEW B \in SUBSET ToDo, IsFiniteSet(A), IsFiniteSet(B), A \cap B = {}
  PROVE  /\ SetToSeq(A) \o SetToSeq(B) \o Tail(todo) \in Seq(ToDo)
         /\ Replaces(SetToSeq(A) \o SetToSeq(B) \o Tail(todo), todo, A \cup B)
<1> DEFINE t == Tail(todo)  n == Len(todo)  a == SetToSeq(A)  b == SetToSeq(B)
           c == a \o b  u == c \o t
<1>1. t \in Seq(ToDo) /\ Len(t) = n - 1 /\ \A k \in 1..Len(t) : t[k] = todo[k + 1]
  BY HeadTailProperties
<1>2. n \in Nat /\ n # 0
  BY EmptySeq
<1>3. /\ a \in Seq(A) /\ ToSet(a) = A /\ \A i, j \in DOMAIN a : a[i] = a[j] => i = j
      /\ b \in Seq(B) /\ ToSet(b) = B /\ \A i, j \in DOMAIN b : b[i] = b[j] => i = j
  BY SetAsSeq
<1> HIDE DEF t, n, a, b
<1>4. a \in Seq(ToDo) /\ b \in Seq(ToDo)
  BY <1>3, SeqMonotonic, Zenon
<1>5. /\ Len(a) \in Nat /\ Len(b) \in Nat /\ DOMAIN a = 1..Len(a) /\ DOMAIN b = 1..Len(b)
      /\ \A k \in 1..Len(a) : a[k] \in A
      /\ \A k \in 1..Len(b) : b[k] \in B
      /\ \A x \in A : \E k \in 1..Len(a) : a[k] = x
      /\ \A x \in B : \E k \in 1..Len(b) : b[k] = x
  <2>1. Len(a) \in Nat /\ Len(b) \in Nat /\ DOMAIN a = 1..Len(a) /\ DOMAIN b = 1..Len(b)
    BY <1>4
  <2>2. QED
    BY <1>3, <2>1 DEF ToSet
<1>6. /\ c \in Seq(ToDo) /\ Len(c) = Len(a) + Len(b)
      /\ \A k \in 1..Len(a) : c[k] = a[k]
      /\ \A k \in 1..Len(b) : c[Len(a) + k] = b[k]
  BY <1>4, ConcatProperties
<1> HIDE DEF c
<1>7. /\ u \in Seq(ToDo) /\ Len(u) = Len(c) + Len(t)
      /\ \A k \in 1..Len(c) : u[k] = c[k]
      /\ \A k \in 1..Len(t) : u[Len(c) + k] = t[k]
  <2>1. c \in Seq(ToDo) /\ t \in Seq(ToDo)
    BY <1>1, <1>6
  <2>2. QED
    BY <2>1, ConcatProperties
<1> HIDE DEF u
<1> DEFINE la == Len(a)  lc == Len(c)
<1>8. la \in Nat /\ lc \in Nat /\ la <= lc /\ Len(u) = lc + n - 1 /\ lc - la = Len(b) /\ Len(t) = n - 1
  BY <1>1, <1>2, <1>5, <1>6, <1>7
<1> HIDE DEF la, lc
<1> DEFINE o == [k \in 1..Len(u) |-> IF k <= lc THEN 1 ELSE k - lc + 1]
<1>9. o \in [1..Len(u) -> 1..n]
  BY <1>2, <1>8
<1>10. ASSUME NEW k \in 1..la
       PROVE  k \in 1..Len(u) /\ o[k] = 1 /\ u[k] \in A /\ u[k] = a[k]
  BY <1>2, <1>5, <1>6, <1>7, <1>8, <1>10 DEF la, lc
<1>11. ASSUME NEW k \in 1..Len(b)
       PROVE  la + k \in 1..Len(u) /\ o[la + k] = 1 /\ u[la + k] \in B /\ u[la + k] = b[k]
  <2>1. la + k \in 1..lc /\ la + k \in 1..Len(u)
    BY <1>2, <1>8
  <2>2. u[la + k] = c[la + k] /\ c[la + k] = b[k]
    BY <1>6, <1>7, <2>1 DEF la, lc
  <2>3. QED
    BY <1>5, <2>1, <2>2
<1>12. ASSUME NEW k \in 1..Len(u), o[k] = 1
       PROVE  k \in 1..la \/ k - la \in 1..Len(b)
  <2>1. k <= lc
    BY <1>2, <1>8, <1>12
  <2>2. QED
    BY <1>8, <2>1
<1>13. ASSUME NEW k \in 1..Len(u), o[k] # 1
       PROVE  o[k] = k - lc + 1 /\ u[k] = todo[o[k]]
  <2>1. k > lc /\ k - lc \in 1..Len(t) /\ lc + (k - lc) = k
    BY <1>2, <1>8, <1>13
  <2>2. u[lc + (k - lc)] = t[k - lc]
    BY <1>7, <2>1 DEF lc
  <2>3. t[k - lc] = todo[(k - lc) + 1]
    BY <1>1, <2>1
  <2>4. o[k] = k - lc + 1
    BY <1>13
  <2>5. QED
    BY <2>1, <2>2, <2>3, <2>4
<1>14. ASSUME NEW l \in 1..n, l # 1
       PROVE  \E k \in 1..Len(u) : o[k] = l
  <2>1. l - 1 + lc \in 1..Len(u) /\ o[l - 1 + lc] = l
    BY <1>2, <1>8, <1>14
  <2>2. QED
    BY <2>1
<1>15. ASSUME NEW k \in 1..Len(u), NEW l \in 1..Len(u), o[k] = o[l], o[k] = 1 => u[k] = u[l]
       PROVE  k = l
  <2>1. CASE o[k] # 1
    BY <1>8, <1>13, <1>15, <2>1
  <2>2. CASE o[k] = 1
    <3>1. u[k] = u[l] /\ o[l] = 1
      BY <1>15, <2>2
    <3>2. CASE k \in 1..la /\ l \in 1..la
      <4>1. a[k] = a[l]
        BY <1>10, <3>1, <3>2
      <4>2. k \in DOMAIN a /\ l \in DOMAIN a
        BY <1>5, <3>2 DEF la
      <4>3. QED
        BY <1>3, <4>1, <4>2
    <3>3. CASE k \in 1..la /\ l - la \in 1..Len(b)
      <4>1. u[k] \in A /\ u[la + (l - la)] \in B
        BY <1>10, <1>11, <3>3
      <4>3. la + (l - la) = l
        BY <1>8
      <4>2. QED
        BY <3>1, <4>1, <4>3
    <3>4. CASE k - la \in 1..Len(b) /\ l \in 1..la
      <4>1. u[l] \in A /\ u[la + (k - la)] \in B
        BY <1>10, <1>11, <3>4
      <4>3. la + (k - la) = k
        BY <1>8
      <4>2. QED
        BY <3>1, <4>1, <4>3
    <3>5. CASE k - la \in 1..Len(b) /\ l - la \in 1..Len(b)
      <4>1. u[la + (k - la)] = b[k - la] /\ u[la + (l - la)] = b[l - la]
        BY <1>11, <3>5
      <4>2. la + (k - la) = k /\ la + (l - la) = l
        BY <1>8
      <4>3. b[k - la] = b[l - la]
        BY <3>1, <4>1, <4>2
      <4>4. k - la = l - la
        BY <1>3, <1>5, <3>5, <4>3
      <4>5. QED
        BY <4>2, <4>4
    <3>6. QED
      BY <1>12, <2>2, <3>1, <3>2, <3>3, <3>4, <3>5
  <2>3. QED
    BY <2>1, <2>2
<1>16. ASSUME NEW k \in 1..Len(u), o[k] = 1
       PROVE  u[k] \in A \cup B
  <2>1. CASE k \in 1..la
    BY <1>10, <2>1
  <2>2. CASE k - la \in 1..Len(b)
    <3>1. la + (k - la) = k
      BY <1>8
    <3>2. QED
      BY <1>11, <2>2, <3>1
  <2>3. QED
    BY <1>12, <1>16, <2>1, <2>2
<1>17. ASSUME NEW g \in A \cup B
       PROVE  \E k \in 1..Len(u) : u[k] = g
  <2>1. CASE g \in A
    <3>1. PICK k \in 1..Len(a) : a[k] = g
      BY <1>5, <2>1
    <3>2. QED
      BY <1>10, <3>1 DEF la
  <2>2. CASE g \in B
    <3>1. PICK k \in 1..Len(b) : b[k] = g
      BY <1>5, <2>2
    <3>2. QED
      BY <1>11, <3>1
  <2>3. QED
    BY <2>1, <2>2
<1> HIDE DEF o
<1>18. Replaces(u, todo, A \cup B)
  BY <1>9, <1>13, <1>14, <1>15, <1>16, <1>17 DEF Replaces, n
<1>19. QED
  BY <1>7, <1>18 DEF u, c, a, b, t

-----------------------------------------------------------------------------
(* The steps of a walk: a folder that is visited is to be read, what was    *)
(* read of it is to be visited.                                             *)

IsOpened(rows, f, g) ==
  /\ f.do = "visit" /\ f.node \in Folder /\ f.depth # 0
  /\ g \in ToDo /\ g.do = "files" /\ g.node = f.node /\ g.path = f.path /\ g.depth = Deeper(f.depth)
  /\ IsFiniteSet(g.dirs)
  /\ \A c \in Folder, x \in Name : <<c, x>> \in g.dirs => rows[c].parent = f.node /\ rows[c].name = x

IsRead(rows, f, g) ==
  /\ f.do = "files" /\ g \in ToDo
  /\ \E x \in Name : /\ g = Frame(g.node, x, f.path, f.depth)
                     /\ \/ g.node \in File /\ rows[g.node].parent = f.node /\ rows[g.node].name = x
                        \/ g.node \in Folder /\ <<g.node, x>> \in f.dirs

(* The first thing to do is done: q becomes q2, and N comes in its place.   *)
Advances(rows, q, q2, f, N) ==
  /\ q.todo # <<>> /\ f = q.todo[1] /\ Replaces(q2.todo, q.todo, N)
  /\ \/ \A g \in N : IsOpened(rows, f, g) /\ \A h \in N : g = h
     \/ \A g \in N : IsRead(rows, f, g)
  /\ q.pc = "walk" /\ q2.pc = "walk" /\ q2.method = q.method /\ q2.top = q.top /\ q2.path = q.path
  /\ q2.depth = q.depth /\ q2.body = q.body /\ q2.asked = q.asked /\ q2.cut = q.cut /\ q2.stayed = q.stayed
  /\ q2.clash = q.clash
  /\ \A i \in Entries(q) : i \in Entries(q2) /\ q2.answer[i] = q.answer[i]
  /\ \A i \in Entries(q2) \ Entries(q) :
       f.do = "visit" /\ q2.answer[i].path = f.path /\ q2.answer[i].node = f.node
  /\ \A i, j \in Entries(q2) \ Entries(q) : i = j
  /\ f.do = "visit" => \E i \in Entries(q2) : q2.answer[i].path = f.path /\ q2.answer[i].node = f.node
  /\ q2 \in ReqState

(* There is a first thing to do.                                            *)
LEMMA FirstToDo ==
  ASSUME NEW q \in ReqState, q.todo # <<>>
  PROVE  /\ 1 \in ToDos(q) /\ q.todo[1] \in ToDo
         /\ \A k \in ToDos(q) : q.todo[k] \in ToDo
<1>1. q.todo \in Seq(ToDo) /\ \A k \in ToDos(q) : q.todo[k] \in ToDo
  BY WalkParts
<1>2. 1 \in ToDos(q)
  BY <1>1, EmptySeq DEF ToDos
<1>3. QED
  BY <1>1, <1>2

(* What was read of a folder is visited under its name.                     *)
LEMMA ReadName ==
  ASSUME NEW rows, NEW f \in ToDo, NEW g, IsRead(rows, f, g)
  PROVE  \E x \in Name : /\ g = Frame(g.node, x, f.path, f.depth) /\ g.path = Append(f.path, x)
                         /\ \/ /\ g.node \in File /\ g.node \notin Folder
                               /\ rows[g.node].parent = f.node /\ rows[g.node].name = x
                            \/ g.node \in Folder /\ g.node \notin File /\ <<g.node, x>> \in f.dirs
<1>1. PICK x \in Name : /\ g = Frame(g.node, x, f.path, f.depth)
                        /\ \/ g.node \in File /\ rows[g.node].parent = f.node /\ rows[g.node].name = x
                           \/ g.node \in Folder /\ <<g.node, x>> \in f.dirs
  BY DEF IsRead
<1>2. g.path = Append(f.path, x)
  BY <1>1 DEF Frame
<1>3. QED
  BY <1>1, <1>2, NodeKinds

(* And one name deeper than the folder.                                     *)
LEMMA ReadPath ==
  ASSUME NEW rows, NEW f \in ToDo, NEW g, IsRead(rows, f, g)
  PROVE  /\ f.do = "files" /\ g \in ToDo /\ g.do = "visit" /\ g.depth = f.depth /\ g.dirs = {}
         /\ g.path \in Hrefs /\ Len(g.path) = Len(f.path) + 1 /\ Under(f.path, g.path)
<1>1. PICK x \in Name : g = Frame(g.node, x, f.path, f.depth)
  BY DEF IsRead
<1>2. f.path \in Hrefs
  BY FrameParts
<1>3. g.do = "visit" /\ g.depth = f.depth /\ g.dirs = {} /\ g.path = Append(f.path, x)
  BY <1>1 DEF Frame
<1>4. g.path \in Hrefs /\ Len(g.path) = Len(f.path) + 1 /\ Under(f.path, g.path)
  BY <1>2, <1>3, AppendOf
<1>5. f.do = "files" /\ g \in ToDo
  BY DEF IsRead
<1>6. QED
  BY <1>3, <1>4, <1>5

(* What a new thing to do can give, the first could.                        *)
LEMMA CoveredBefore ==
  ASSUME NEW rows, NEW f \in ToDo, NEW g, IsOpened(rows, f, g) \/ IsRead(rows, f, g),
         NEW p \in Hrefs, NEW dir \in BOOLEAN, Covers(g, p, dir)
  PROVE  Covers(f, p, dir)
<1>1. f.path \in Hrefs /\ f.dirs \in SUBSET (Folder \X Name) /\ Len(f.path) \in Nat
  BY FrameParts DEF Hrefs
<1>2. CASE IsOpened(rows, f, g)
  <2>1. g \in ToDo /\ g.do = "files" /\ g.path = f.path /\ f.do = "visit" /\ f.node \in Folder
    BY <1>2 DEF IsOpened
  <2>2. Under(f.path, p)
    <3>1. CASE Under(g.path, p)
      BY <2>1, <3>1
    <3>2. ASSUME NEW d \in g.dirs, p = Append(g.path, d[2]) \/ Under(Append(g.path, d[2]), p)
          PROVE  Under(f.path, p)
      <4>1. d[2] \in Name
        BY <2>1, <3>2, FrameParts
      <4>2. CASE p = Append(f.path, d[2])
        BY <1>1, <4>1, <4>2, AppendOf
      <4>3. CASE Under(Append(f.path, d[2]), p)
        BY <1>1, <4>1, <4>3, UnderAppend
      <4>4. QED
        BY <2>1, <3>2, <4>2, <4>3
    <3>3. QED
      BY <2>1, <3>1, <3>2 DEF Covers
  <2>3. QED
    BY <2>1, <2>2 DEF Covers
<1>3. CASE IsRead(rows, f, g)
  <2>1. f.do = "files" /\ g.do = "visit" /\ Len(g.path) = Len(f.path) + 1 /\ Under(f.path, g.path)
    BY <1>3, ReadPath
  <2>2. PICK x \in Name : /\ g = Frame(g.node, x, f.path, f.depth) /\ g.path = Append(f.path, x)
                          /\ \/ /\ g.node \in File /\ g.node \notin Folder
                                /\ rows[g.node].parent = f.node /\ rows[g.node].name = x
                             \/ g.node \in Folder /\ g.node \notin File /\ <<g.node, x>> \in f.dirs
    BY <1>3, ReadName
  <2>3. CASE g.node \in File /\ g.node \notin Folder
    BY <2>1, <2>3 DEF Covers
  <2>4. CASE g.node \in Folder /\ <<g.node, x>> \in f.dirs
    <3>1. (dir /\ p = g.path) \/ Under(g.path, p)
      BY <2>1, <2>4 DEF Covers
    <3>2. <<g.node, x>>[2] = x
      OBVIOUS
    <3>3. \E d \in f.dirs : (dir /\ p = Append(f.path, d[2])) \/ Under(Append(f.path, d[2]), p)
      BY <2>2, <2>4, <3>1, <3>2
    <3>4. QED
      BY <2>1, <3>3 DEF Covers
  <2>5. QED
    BY <2>2, <2>3, <2>4
<1>4. QED
  BY <1>2, <1>3

(* Nor do two new things to do give one href, if no two rows share a name.  *)
LEMMA CoveredByOne ==
  ASSUME NEW rows, NamesDiffer(rows), NEW f \in ToDo, f.node \in Folder,
         \A d, e \in f.dirs : d[2] = e[2] => d = e,
         NEW g, IsRead(rows, f, g), NEW h, IsRead(rows, f, h),
         NEW p \in Hrefs, NEW dir \in BOOLEAN, Covers(g, p, dir), Covers(h, p, dir)
  PROVE  g = h
<1>1. f.path \in Hrefs /\ f.dirs \in SUBSET (Folder \X Name) /\ Len(f.path) \in Nat /\ Len(p) \in Nat
  BY FrameParts DEF Hrefs
<1>2. PICK x \in Name : /\ g = Frame(g.node, x, f.path, f.depth) /\ g.path = Append(f.path, x)
                        /\ \/ /\ g.node \in File /\ g.node \notin Folder
                              /\ rows[g.node].parent = f.node /\ rows[g.node].name = x
                           \/ g.node \in Folder /\ g.node \notin File /\ <<g.node, x>> \in f.dirs
  BY ReadName
<1>3. PICK y \in Name : /\ h = Frame(h.node, y, f.path, f.depth) /\ h.path = Append(f.path, y)
                        /\ \/ /\ h.node \in File /\ h.node \notin Folder
                              /\ rows[h.node].parent = f.node /\ rows[h.node].name = y
                           \/ h.node \in Folder /\ h.node \notin File /\ <<h.node, y>> \in f.dirs
  BY ReadName
<1>4. /\ g.do = "visit" /\ Len(g.path) = Len(f.path) + 1
      /\ h.do = "visit" /\ Len(h.path) = Len(f.path) + 1
  BY ReadPath
<1>5. \A z \in Name : p = Append(f.path, z) \/ Under(Append(f.path, z), p) => p[Len(f.path) + 1] = z
  <2>1. SUFFICES ASSUME NEW z \in Name, p = Append(f.path, z) \/ Under(Append(f.path, z), p)
                 PROVE  p[Len(f.path) + 1] = z
    OBVIOUS
  <2>2. CASE p = Append(f.path, z)
    BY <1>1, <2>2, AppendOf
  <2>3. CASE Under(Append(f.path, z), p)
    BY <1>1, <2>3, UnderAppend
  <2>4. QED
    BY <2>1, <2>2, <2>3
<1>6. x = y
  <2>1. p = g.path \/ Under(g.path, p)
    BY <1>4 DEF Covers
  <2>2. p = h.path \/ Under(h.path, p)
    BY <1>4 DEF Covers
  <2>3. QED
    BY <1>2, <1>3, <1>5, <2>1, <2>2
<1>7. g.node \in Folder <=> h.node \in Folder
  <2>1. (g.node \notin Folder => p = g.path /\ ~dir) /\ (h.node \notin Folder => p = h.path /\ ~dir)
    BY <1>4 DEF Covers
  <2>2. ~Under(g.path, g.path)
    BY <1>1, <1>4 DEF Under
  <2>3. g.path = h.path
    BY <1>2, <1>3, <1>6
  <2>4. (g.node \in Folder => Under(g.path, p) \/ dir) /\ (h.node \in Folder => Under(h.path, p) \/ dir)
    BY <1>4 DEF Covers
  <2>5. QED
    BY <2>1, <2>2, <2>3, <2>4
<1>8. g.node = h.node
  <2>1. CASE g.node \in Folder
    <3>1. <<g.node, x>> \in f.dirs /\ <<h.node, y>> \in f.dirs
      BY <1>2, <1>3, <1>7, <2>1
    <3>2. <<g.node, x>> = <<h.node, y>>
      BY <1>6, <3>1
    <3>3. QED
      BY <3>2
  <2>2. CASE g.node \notin Folder
    <3>1. /\ rows[g.node].parent = f.node /\ rows[h.node].parent = f.node
          /\ rows[g.node].name = rows[h.node].name
          /\ g.node \in Node /\ h.node \in Node
      BY <1>2, <1>3, <1>6, <1>7, <2>2, NodeKinds
    <3>2. f.node # Nowhere
      BY NodeKinds
    <3>3. QED
      BY <1>7, <3>1, <3>2 DEF NamesDiffer
  <2>3. QED
    BY <2>1, <2>2
<1>9. QED
  BY <1>2, <1>3, <1>6, <1>8

(* A folder that is to be read gives only hrefs under its own.              *)
LEMMA OpenedDeeper ==
  ASSUME NEW rows, NEW f \in ToDo, NEW g, IsOpened(rows, f, g), NEW dir
  PROVE  ~Covers(g, f.path, dir)
<1>1. f.path \in Hrefs /\ g \in ToDo /\ g.do = "files" /\ g.path = f.path /\ Len(f.path) \in Nat
  BY FrameParts DEF IsOpened, Hrefs
<1>2. Len(f.path) # Len(f.path) + 1 /\ ~(Len(f.path) + 1 < Len(f.path))
  BY <1>1
<1>3. \A d \in g.dirs : d[2] \in Name
  BY <1>1, FrameParts
<1>4. \A d \in g.dirs : Append(f.path, d[2]) # f.path /\ ~Under(Append(f.path, d[2]), f.path)
  <2>1. SUFFICES ASSUME NEW d \in g.dirs
                 PROVE  Append(f.path, d[2]) # f.path /\ ~Under(Append(f.path, d[2]), f.path)
    OBVIOUS
  <2>2. Len(Append(f.path, d[2])) = Len(f.path) + 1
    BY <1>1, <1>3, AppendOf
  <2>3. QED
    BY <1>2, <2>2 DEF Under
<1>5. QED
  BY <1>1, <1>2, <1>4 DEF Covers

(* Where a walk that advances stands.                                       *)
Frames(rows, q, q2, f, N) ==
  /\ 1 \in ToDos(q) /\ f = q.todo[1] /\ f \in ToDo /\ \A k \in ToDos(q) : q.todo[k] \in ToDo
  /\ \A g \in N : g \in ToDo /\ (IsOpened(rows, f, g) \/ IsRead(rows, f, g))
  /\ \A g \in N : f.do = "visit" => IsOpened(rows, f, g) /\ \A h \in N : g = h
  /\ \A g \in N : f.do = "files" => IsRead(rows, f, g)
  /\ \A k \in ToDos(q2) :
       q2.todo[k] \in N \/ \E l \in ToDos(q) : l # 1 /\ q2.todo[k] = q.todo[l]

(* What a step of a walk puts in the place of what it did.                  *)
LEMMA NewFrames ==
  ASSUME NEW rows, NEW q \in ReqState, NEW q2, NEW f, NEW N, Advances(rows, q, q2, f, N)
  PROVE  Frames(rows, q, q2, f, N)
<1>1. q.todo # <<>> /\ Replaces(q2.todo, q.todo, N) /\ f = q.todo[1]
  BY DEF Advances
<1>2. 1 \in ToDos(q) /\ f \in ToDo /\ \A k \in ToDos(q) : q.todo[k] \in ToDo
  BY <1>1, FirstToDo
<1>3. \/ \A g \in N : IsOpened(rows, f, g) /\ \A h \in N : g = h
      \/ \A g \in N : IsRead(rows, f, g)
  BY DEF Advances
<1>4. \A g : IsOpened(rows, f, g) => f.do = "visit" /\ g \in ToDo
  BY DEF IsOpened
<1>5. \A g : IsRead(rows, f, g) => f.do = "files" /\ g \in ToDo
  BY DEF IsRead
<1>6. \A k \in ToDos(q2) :
        q2.todo[k] \in N \/ \E l \in ToDos(q) : l # 1 /\ q2.todo[k] = q.todo[l]
  BY <1>1, NewOrOld DEF ToDos
<1>7. QED
  BY <1>1, <1>2, <1>3, <1>4, <1>5, <1>6 DEF Frames

(* A step of a walk: no href can come twice.                                *)
LEMMA ApartAdvanced ==
  ASSUME NEW rows, NEW q \in ReqState, Opened(q), Apart(q), ~q.clash => NamesDiffer(rows),
         NEW q2, NEW f, NEW N, Advances(rows, q, q2, f, N)
  PROVE  Apart(q2)
<1>a. SUFFICES ASSUME ~q.clash PROVE Apart(q2)
  <2>1. q2.clash = q.clash
    BY DEF Advances
  <2>2. QED
    BY <2>1 DEF Apart
<1>1. /\ 1 \in ToDos(q) /\ f = q.todo[1] /\ f \in ToDo /\ \A k \in ToDos(q) : q.todo[k] \in ToDo
      /\ \A g \in N : g \in ToDo /\ (IsOpened(rows, f, g) \/ IsRead(rows, f, g))
      /\ \A g \in N : f.do = "visit" => IsOpened(rows, f, g) /\ \A h \in N : g = h
      /\ \A g \in N : f.do = "files" => IsRead(rows, f, g)
      /\ \A k \in ToDos(q2) :
           q2.todo[k] \in N \/ \E l \in ToDos(q) : l # 1 /\ q2.todo[k] = q.todo[l]
  <2>1. Frames(rows, q, q2, f, N)
    BY NewFrames
  <2>2. QED
    BY <2>1 DEF Frames
<1>2. f.do \in {"visit", "files"} /\ f.path \in Hrefs
  BY <1>1, FrameParts
<1>3. f.do = "files" => f.node \in Folder /\ \A d, e \in f.dirs : d[2] = e[2] => d = e
  BY <1>a, <1>1 DEF Opened
<1>4. Replaces(q2.todo, q.todo, N) /\ 1 \in 1..Len(q.todo)
  BY <1>1 DEF Advances, ToDos
<1>5. \A k \in ToDos(q2) : q2.todo[k] \in ToDo
  BY <1>1
<1>6. ASSUME NEW p \in Hrefs, NEW dir \in BOOLEAN
      PROVE  \A k, l \in ToDos(q2) : Covers(q2.todo[k], p, dir) /\ Covers(q2.todo[l], p, dir) => k = l
  <2> DEFINE H == {g \in ToDo : Covers(g, p, dir)}
  <2>1. \A k, l \in 1..Len(q.todo) : q.todo[k] \in H /\ q.todo[l] \in H => k = l
    BY <1>a DEF Apart, ToDos
  <2>2. ASSUME NEW g \in N, NEW h \in N, g \in H, h \in H
        PROVE  g = h
    <3>1. CASE f.do = "visit"
      BY <1>1, <3>1
    <3>2. CASE f.do = "files"
      BY <1>a, <1>1, <1>3, <2>2, <3>2, CoveredByOne
    <3>3. QED
      BY <1>2, <3>1, <3>2
  <2>3. ASSUME NEW g \in N, g \in H
        PROVE  q.todo[1] \in H
    <3>1. Covers(f, p, dir)
      BY <1>1, <2>3, CoveredBefore
    <3>2. QED
      BY <1>1, <3>1
  <2> HIDE DEF H
  <2>4. \A k, l \in 1..Len(q2.todo) : q2.todo[k] \in H /\ q2.todo[l] \in H => k = l
    <3>1. InOne(q.todo, H) /\ OneNew(q.todo, N, H)
      BY <2>1, <2>2, <2>3 DEF InOne, OneNew
    <3>2. InOne(q2.todo, H)
      BY <1>4, <3>1, OneOf
    <3>3. QED
      BY <3>2 DEF InOne
  <2>5. QED
    BY <1>5, <2>4 DEF H, ToDos
<1>7. ASSUME NEW k \in ToDos(q2), NEW p \in Hrefs, NEW dir \in BOOLEAN, Covers(q2.todo[k], p, dir),
             NEW i \in Entries(q2), q2.answer[i].path = p, IsDir(q2.answer[i]) <=> dir
      PROVE  FALSE
  <2>1. PICK l \in ToDos(q) : /\ Covers(q.todo[l], p, dir)
                              /\ q2.todo[k] \in N \/ l # 1
    <3>1. CASE q2.todo[k] \in N
      <4>1. Covers(f, p, dir)
        BY <1>1, <1>7, <3>1, CoveredBefore
      <4>2. QED
        BY <1>1, <3>1, <4>1
    <3>2. CASE \E l \in ToDos(q) : l # 1 /\ q2.todo[k] = q.todo[l]
      BY <1>7, <3>2
    <3>3. QED
      BY <1>1, <3>1, <3>2
  <2>2. CASE i \in Entries(q)
    <3>1. q2.answer[i] = q.answer[i]
      BY <2>2 DEF Advances
    <3>2. QED
      BY <1>a, <1>7, <2>1, <2>2, <3>1 DEF Apart
  <2>3. CASE i \notin Entries(q)
    <3>1. f.do = "visit" /\ q2.answer[i].path = f.path /\ q2.answer[i].node = f.node
      BY <2>3 DEF Advances
    <3>2. p = f.path /\ (dir <=> f.node \in Folder)
      BY <1>7, <3>1 DEF IsDir
    <3>3. Covers(f, p, dir)
      BY <3>1, <3>2 DEF Covers
    <3>4. l = 1
      BY <1>a, <1>1, <2>1, <3>3 DEF Apart
    <3>5. IsOpened(rows, f, q2.todo[k])
      BY <1>1, <2>1, <3>1, <3>4
    <3>6. QED
      <4>1. f \in ToDo /\ Covers(q2.todo[k], f.path, dir)
        BY <1>1, <1>7, <3>2
      <4>2. QED
        BY <3>5, <4>1, OpenedDeeper
  <2>4. QED
    BY <2>2, <2>3
<1>8. QED
  BY <1>6, <1>7 DEF Apart

(* A step of a walk: no href has come twice.                                *)
LEMMA HrefsOnceAdvanced ==
  ASSUME NEW rows, NEW q \in ReqState, Begun(q), WithinDepth(q), Apart(q), HrefsOnce(q),
         NEW q2, NEW f, NEW N, Advances(rows, q, q2, f, N)
  PROVE  HrefsOnce(q2)
<1>1. 1 \in ToDos(q) /\ f = q.todo[1] /\ f \in ToDo
  <2>1. Frames(rows, q, q2, f, N)
    BY NewFrames
  <2>2. QED
    BY <2>1 DEF Frames
<1>2. f.path \in Hrefs /\ Len(f.path) \in Nat
  BY <1>1, FrameParts DEF Hrefs
<1>3. /\ \A i \in Entries(q) : q2.answer[i] = q.answer[i]
      /\ \A i \in Entries(q2) : i \notin Entries(q) =>
           f.do = "visit" /\ q2.answer[i].path = f.path /\ q2.answer[i].node = f.node
      /\ \A i, j \in Entries(q2) \ Entries(q) : i = j
      /\ q2.depth = q.depth /\ q2.path = q.path /\ q2.clash = q.clash
  BY DEF Advances
<1>4. f.do = "visit" => Covers(f, f.path, f.node \in Folder)
  BY DEF Covers
<1>5. f.do = "visit" /\ ~q.clash => \A i \in Entries(q) : ~(q.answer[i].path = f.path /\ (IsDir(q.answer[i]) <=> f.node \in Folder))
  <2> DEFINE dir == f.node \in Folder
  <2>1. dir \in BOOLEAN
    OBVIOUS
  <2> HIDE DEF dir
  <2>2. f.do = "visit" /\ ~q.clash => \A i \in Entries(q) : ~(q.answer[i].path = f.path /\ (IsDir(q.answer[i]) <=> dir))
    <3>1. SUFFICES ASSUME f.do = "visit", ~q.clash, NEW i \in Entries(q), q.answer[i].path = f.path,
                          IsDir(q.answer[i]) <=> dir
                   PROVE  FALSE
      OBVIOUS
    <3>2. Covers(q.todo[1], f.path, dir)
      BY <1>1, <1>4, <3>1 DEF dir
    <3>a. Apart(q) /\ 1 \in ToDos(q) /\ f.path \in Hrefs
      BY <1>1, <1>2
    <3>b. \A p \in Hrefs, b \in BOOLEAN : Covers(q.todo[1], p, b) =>
            \A j \in Entries(q) : ~(q.answer[j].path = p /\ (IsDir(q.answer[j]) <=> b))
      BY <3>1, <3>a DEF Apart
    <3>3. \A j \in Entries(q) : ~(q.answer[j].path = f.path /\ (IsDir(q.answer[j]) <=> dir))
      BY <2>1, <3>a, <3>b, <3>2
    <3>4. QED
      BY <3>1, <3>3
  <2>3. QED
    BY <2>2 DEF dir
<1>6. ASSUME NEW i \in Entries(q2), NEW j \in Entries(q2), i # j, ~q2.clash,
             q2.answer[i].path = q2.answer[j].path, IsDir(q2.answer[i]) = IsDir(q2.answer[j])
      PROVE  FALSE
  <2>1. CASE i \in Entries(q) /\ j \in Entries(q)
    BY <1>3, <1>6, <2>1 DEF HrefsOnce
  <2>2. CASE i \notin Entries(q) /\ j \notin Entries(q)
    BY <1>3, <1>6, <2>2
  <2>3. CASE i \in Entries(q) /\ j \notin Entries(q)
    BY <1>3, <1>5, <1>6, <2>3 DEF IsDir
  <2>4. CASE i \notin Entries(q) /\ j \in Entries(q)
    BY <1>3, <1>5, <1>6, <2>4 DEF IsDir
  <2>5. QED
    BY <2>1, <2>2, <2>3, <2>4
<1>7. ASSUME NEW i \in Entries(q2), q2.depth >= 0
      PROVE  Len(q2.answer[i].path) - Len(q2.path) <= q2.depth
  <2>1. CASE i \in Entries(q)
    BY <1>3, <1>7, <2>1 DEF HrefsOnce
  <2>2. CASE i \notin Entries(q)
    <3>1. q.depth \in Depths /\ q.depth # Infinite
      BY <1>3, <1>7, WalkParts DEF Infinite
    <3>2. /\ f.depth \in {0, 1}
          /\ Len(f.path) + f.depth + (IF f.do = "files" THEN 1 ELSE 0) <= Len(q.path) + q.depth
      BY <1>1, <3>1 DEF WithinDepth
    <3>3. f.do = "visit" /\ Len(q.path) \in Nat
      BY <1>3, <2>2 DEF Begun, Hrefs
    <3>4. q.depth \in {0, 1}
      BY <3>1 DEF Depths, Infinite
    <3>5. q2.answer[i].path = f.path /\ q2.path = q.path /\ q2.depth = q.depth
      BY <1>3, <2>2
    <3>6. Len(f.path) + f.depth <= Len(q.path) + q.depth /\ f.depth >= 0
      BY <1>2, <3>2, <3>3, <3>4
    <3> DEFINE a == Len(f.path)  b == Len(q.path)
    <3>7. a - b <= q.depth
      <4>1. a \in Nat /\ b \in Nat /\ q.depth \in Nat /\ f.depth \in Nat
        BY <1>2, <3>2, <3>3, <3>4
      <4> HIDE DEF a, b
      <4>2. a + f.depth <= b + q.depth
        BY <3>6 DEF a, b
      <4>3. QED
        BY <4>1, <4>2
    <3>8. QED
      BY <3>5, <3>7
  <2>3. QED
    BY <2>1, <2>2
<1>8. QED
  BY <1>6, <1>7 DEF HrefsOnce

(* Without an entry the walk is at its beginning.                           *)
LEMMA AnswerBegun ==
  ASSUME NEW rows, NEW q \in ReqState, Begun(q), Opened(q),
         NEW q2, NEW f, NEW N, Advances(rows, q, q2, f, N)
  PROVE  /\ ~q.cut /\ 1 \in Entries(q2) /\ q2.answer # <<>>
         /\ q.answer = <<>> => f = FirstFrame(q) /\ Len(q.todo) = 1
<1>a. Frames(rows, q, q2, f, N)
  BY NewFrames
<1>1. 1 \in ToDos(q) /\ f = q.todo[1] /\ f \in ToDo
  BY <1>a DEF Frames
<1>2. q.todo # <<>> /\ q2 \in ReqState
  BY DEF Advances
<1>3. ~q.cut
  BY <1>2 DEF Begun
<1>4. \E i \in Entries(q2) : TRUE
  <2>1. CASE f.do = "visit"
    BY <2>1 DEF Advances
  <2>2. CASE f.do = "files"
    <3>1. PICK j \in Entries(q) : TRUE
      BY <1>1, <2>2 DEF Opened
    <3>2. QED
      BY <3>1 DEF Advances
  <2>3. QED
    BY <1>1, <2>1, <2>2, FrameParts
<1>5. q2.answer \in Seq(AnEntry)
  BY <1>2, WalkParts
<1>6. 1 \in Entries(q2) /\ q2.answer # <<>>
  BY <1>4, <1>5 DEF Entries
<1>7. ASSUME q.answer = <<>>
      PROVE  f = FirstFrame(q) /\ Len(q.todo) = 1
  <2>1. q.todo = <<FirstFrame(q)>>
    BY <1>3, <1>7 DEF Begun
  <2>2. QED
    BY <1>1, <2>1
<1>8. QED
  BY <1>3, <1>6, <1>7

(* A step of a walk: it began with the resource asked for.                  *)
LEMMA BegunAdvanced ==
  ASSUME NEW rows, NEW q \in ReqState, Begun(q), Opened(q),
         NEW q2, NEW f, NEW N, Advances(rows, q, q2, f, N)
  PROVE  Begun(q2)
<1>1. /\ q.pc = "walk" /\ q2.pc = "walk" /\ q2.method = q.method /\ q2.top = q.top /\ q2.path = q.path
      /\ q2.body = q.body /\ q2.asked = q.asked /\ q2.cut = q.cut
  BY DEF Advances
<1>2. ~q.cut /\ 1 \in Entries(q2) /\ q2.answer # <<>> /\ (q.answer = <<>> => f = FirstFrame(q))
  BY AnswerBegun
<1>3. q2.answer[1].node = q.top
  <2>1. CASE q.answer = <<>>
    <3>1. 1 \notin Entries(q)
      BY <2>1 DEF Entries
    <3>2. q2.answer[1].node = f.node
      BY <1>2, <3>1 DEF Advances
    <3>3. QED
      BY <1>2, <2>1, <3>2 DEF FirstFrame
  <2>2. CASE q.answer # <<>>
    <3>1. q.answer \in Seq(AnEntry)
      BY WalkParts
    <3>2. 1 \in Entries(q)
      BY <2>2, <3>1, EmptySeq DEF Entries
    <3>3. q2.answer[1] = q.answer[1]
      BY <3>2 DEF Advances
    <3>4. QED
      BY <2>2, <3>3 DEF Begun
  <2>3. QED
    BY <2>1, <2>2
<1>4. QED
  BY <1>1, <1>2, <1>3 DEF Begun

(* A step of a walk: no deeper than was asked for.                          *)
LEMMA WithinDepthAdvanced ==
  ASSUME NEW rows, NEW q \in ReqState, Begun(q), WithinDepth(q),
         NEW q2, NEW f, NEW N, Advances(rows, q, q2, f, N)
  PROVE  WithinDepth(q2)
<1>a. Frames(rows, q, q2, f, N)
  BY NewFrames
<1>1. 1 \in ToDos(q) /\ f = q.todo[1] /\ f \in ToDo
  BY <1>a DEF Frames
<1>2. q2.depth = q.depth /\ q2.path = q.path
  BY DEF Advances
<1>3. Len(f.path) \in Nat /\ f.do \in {"visit", "files"}
  BY <1>1, FrameParts DEF Hrefs
<1> DEFINE Fine(g) == /\ q.depth = Infinite => g.depth = Infinite
                      /\ q.depth # Infinite =>
                           /\ g.depth \in {0, 1}
                           /\ Len(g.path) + g.depth + (IF g.do = "files" THEN 1 ELSE 0) <= Len(q.path) + q.depth
<1>4. \A k \in ToDos(q) : Fine(q.todo[k])
  BY DEF WithinDepth
<1>5. Fine(f)
  BY <1>1, <1>4
<1>6. ASSUME NEW g, IsOpened(rows, f, g)
      PROVE  Fine(g)
  <2>1. f.do = "visit" /\ f.depth # 0 /\ g.do = "files" /\ g.path = f.path /\ g.depth = Deeper(f.depth)
    BY <1>6 DEF IsOpened
  <2>2. CASE q.depth = Infinite
    BY <1>5, <2>1, <2>2 DEF Deeper, Infinite
  <2>3. CASE q.depth # Infinite
    <3>1. f.depth = 1 /\ g.depth = 0
      BY <1>5, <2>1, <2>3 DEF Deeper
    <3>2. Len(f.path) + 1 + 0 <= Len(q.path) + q.depth
      BY <1>3, <1>5, <2>1, <2>3, <3>1
    <3>3. Len(g.path) + g.depth + (IF g.do = "files" THEN 1 ELSE 0) = Len(f.path) + 1 + 0
      BY <1>3, <2>1, <3>1
    <3>4. QED
      BY <2>3, <3>1, <3>2, <3>3
  <2>4. QED
    BY <2>2, <2>3
<1>7. ASSUME NEW g, IsRead(rows, f, g)
      PROVE  Fine(g)
  <2>a. f \in ToDo
    BY <1>1
  <2>1. f.do = "files" /\ g.do = "visit" /\ Len(g.path) = Len(f.path) + 1 /\ g.depth = f.depth
    BY <1>7, <2>a, ReadPath
  <2>2. CASE q.depth = Infinite
    BY <1>5, <2>1, <2>2
  <2>3. CASE q.depth # Infinite
    <3>1. f.depth \in {0, 1} /\ Len(f.path) + f.depth + 1 <= Len(q.path) + q.depth
      BY <1>3, <1>5, <2>1, <2>3
    <3>2. Len(g.path) + g.depth + (IF g.do = "files" THEN 1 ELSE 0) = Len(f.path) + f.depth + 1
      BY <1>3, <2>1, <3>1
    <3>3. QED
      BY <2>1, <2>3, <3>1, <3>2
  <2>4. QED
    BY <2>2, <2>3
<1> HIDE DEF Fine
<1>8. \A g \in N : Fine(g)
  BY <1>a, <1>6, <1>7 DEF Frames
<1>9. \A k \in ToDos(q2) : Fine(q2.todo[k])
  <2>1. SUFFICES ASSUME NEW k \in ToDos(q2) PROVE Fine(q2.todo[k])
    OBVIOUS
  <2>2. q2.todo[k] \in N \/ \E l \in ToDos(q) : q2.todo[k] = q.todo[l]
    BY <1>a DEF Frames
  <2>3. QED
    BY <1>4, <1>8, <2>2
<1>10. QED
  BY <1>2, <1>9 DEF WithinDepth, Fine

(* A step of a walk: what is to be read has been listed.                    *)
LEMMA OpenedAdvanced ==
  ASSUME NEW rows, NEW q \in ReqState, Opened(q), ~q.clash => NamesDiffer(rows),
         NEW q2, NEW f, NEW N, Advances(rows, q, q2, f, N)
  PROVE  Opened(q2)
<1>a. Frames(rows, q, q2, f, N)
  BY NewFrames
<1>1. /\ \A i \in Entries(q) : i \in Entries(q2) /\ q2.answer[i] = q.answer[i]
      /\ f.do = "visit" => \E i \in Entries(q2) : q2.answer[i].path = f.path /\ q2.answer[i].node = f.node
      /\ q2.clash = q.clash
  BY DEF Advances
<1>2. SUFFICES ASSUME NEW k \in ToDos(q2), q2.todo[k].do = "files"
               PROVE  /\ q2.todo[k].node \in Folder /\ IsFiniteSet(q2.todo[k].dirs)
                      /\ \E j \in Entries(q2) : /\ Listed(q2, j, q2.todo[k].node)
                                                /\ q2.answer[j].path = q2.todo[k].path
                      /\ ~q2.clash => \A d, e \in q2.todo[k].dirs : d[2] = e[2] => d = e
  BY DEF Opened
<1>3. CASE \E l \in ToDos(q) : q2.todo[k] = q.todo[l]
  <2>1. PICK l \in ToDos(q) : q2.todo[k] = q.todo[l]
    BY <1>3
  <2>2. /\ q.todo[l].node \in Folder /\ IsFiniteSet(q.todo[l].dirs)
        /\ \E j \in Entries(q) : Listed(q, j, q.todo[l].node) /\ q.answer[j].path = q.todo[l].path
        /\ ~q.clash => \A d, e \in q.todo[l].dirs : d[2] = e[2] => d = e
    BY <1>2, <2>1 DEF Opened
  <2>3. QED
    BY <1>1, <2>1, <2>2 DEF Listed
<1>4. CASE q2.todo[k] \in N
  <2> DEFINE g == q2.todo[k]
  <2>1. IsOpened(rows, f, g)
    <3>1. IsOpened(rows, f, g) \/ IsRead(rows, f, g)
      BY <1>a, <1>4 DEF Frames
    <3>2. f \in ToDo
      BY <1>a DEF Frames
    <3>3. IsRead(rows, f, g) => g.do = "visit"
      BY <3>2, ReadPath
    <3>4. QED
      BY <1>2, <3>1, <3>3
  <2>2. /\ f.do = "visit" /\ f.node \in Folder /\ g \in ToDo /\ g.node = f.node /\ g.path = f.path
        /\ IsFiniteSet(g.dirs)
        /\ \A c \in Folder, x \in Name : <<c, x>> \in g.dirs => rows[c].parent = f.node /\ rows[c].name = x
    BY <2>1 DEF IsOpened
  <2> HIDE DEF g
  <2>3. ASSUME ~q.clash, NEW d \in g.dirs, NEW e \in g.dirs, d[2] = e[2]
        PROVE  d = e
    <3>1. g.dirs \in SUBSET (Folder \X Name)
      BY <2>2, FrameParts
    <3>2. PICK a \in Folder, x \in Name : d = <<a, x>>
      BY <2>3, <3>1
    <3>3. PICK b \in Folder, y \in Name : e = <<b, y>>
      BY <2>3, <3>1
    <3>4. x = y
      BY <2>3, <3>2, <3>3
    <3>5. rows[a].parent = f.node /\ rows[b].parent = f.node /\ rows[a].name = rows[b].name
      BY <2>2, <2>3, <3>2, <3>3, <3>4
    <3>6. f.node # Nowhere /\ a \in Node /\ b \in Node
      BY <2>2, NodeKinds
    <3>7. a = b
      BY <2>3, <3>5, <3>6 DEF NamesDiffer
    <3>8. QED
      BY <3>2, <3>3, <3>4, <3>7
  <2>4. QED
    BY <1>1, <2>2, <2>3 DEF Listed, g
<1>5. QED
  BY <1>a, <1>3, <1>4 DEF Frames

(* What is in a folder that the walk reads is not what it began with.       *)
LEMMA ChildAside ==
  ASSUME NEW rows, IsTree(rows), NEW q, q.top \in Node,
         NEW d \in Folder, d = q.top \/ Aside(rows, q, d),
         NEW n \in Node, rows[n].parent = d
  PROVE  Aside(rows, q, n)
<1>1. rows \in [Node -> Row]
  BY DEF IsTree
<1>2. CASE d = q.top
  <2>1. CASE n \in Folder
    BY <1>2, <2>1, NoCycle DEF Aside
  <2>2. CASE n \notin Folder
    BY <1>2, <2>2 DEF Aside
  <2>3. QED
    BY <2>1, <2>2
<1>3. CASE d # q.top
  <2>1. q.top \notin BelowIn(rows, d)
    BY <1>3 DEF Aside
  <2>2. n \in BelowIn(rows, d)
    BY <1>1, BelowSelf, BelowClosed
  <2>3. n \in Folder => BelowIn(rows, n) \subseteq BelowIn(rows, d)
    BY <1>1, <2>2, BelowTrans
  <2>4. QED
    BY <2>1, <2>2, <2>3 DEF Aside
<1>4. QED
  BY <1>2, <1>3

(* Where the first thing to do stands.                                      *)
LEMMA FirstAside ==
  ASSUME NEW rows, NEW q \in ReqState, Begun(q), Opened(q), NoReturn(rows, q), q.top \in q.stayed,
         NEW q2, NEW f, NEW N, Advances(rows, q, q2, f, N)
  PROVE  f.node = q.top \/ Aside(rows, q, f.node)
<1>a. Frames(rows, q, q2, f, N)
  BY NewFrames
<1>1. 1 \in ToDos(q) /\ f = q.todo[1] /\ f.do \in {"visit", "files"}
  BY <1>a, FrameParts DEF Frames
<1>2. q.answer = <<>> => f = FirstFrame(q)
  BY AnswerBegun
<1>3. CASE q.answer = <<>>
  BY <1>2, <1>3 DEF FirstFrame
<1>4. CASE q.answer # <<>>
  BY <1>1, <1>4 DEF NoReturn
<1>5. QED
  BY <1>3, <1>4

(* A step of a walk: it does not come back to where it began.               *)
LEMMA NoReturnAdvanced ==
  ASSUME NEW rows, IsTree(rows), NEW q \in ReqState, Begun(q), Opened(q), NoReturn(rows, q),
         NEW q2, NEW f, NEW N, Advances(rows, q, q2, f, N)
  PROVE  NoReturn(rows, q2)
<1>a. Frames(rows, q, q2, f, N)
  BY NewFrames
<1>1. q2.top = q.top /\ q2.stayed = q.stayed /\ q.top \in Node
  BY DEF Advances, Begun
<1>2. SUFFICES ASSUME q.top \in q.stayed, NEW k \in ToDos(q2)
               PROVE  LET g == q2.todo[k] IN
                      /\ g.do = "visit" /\ q2.answer # <<>> => Aside(rows, q, g.node)
                      /\ g.do = "files" => g.node = q.top \/ Aside(rows, q, g.node)
                      /\ \A n \in Node : Queues(g, n) => Aside(rows, q, n)
  BY <1>1 DEF NoReturn, Aside
<1>3. CASE \E l \in ToDos(q) : l # 1 /\ q2.todo[k] = q.todo[l]
  <2>1. PICK l \in ToDos(q) : l # 1 /\ q2.todo[k] = q.todo[l]
    BY <1>3
  <2>2. q.answer # <<>>
    <3>1. q.answer = <<>> => Len(q.todo) = 1
      BY AnswerBegun
    <3>2. QED
      BY <2>1, <3>1 DEF ToDos
  <2>3. QED
    BY <1>2, <2>1, <2>2 DEF NoReturn
<1>4. CASE q2.todo[k] \in N
  <2> DEFINE g == q2.todo[k]
  <2>1. f \in ToDo /\ (IsOpened(rows, f, g) \/ IsRead(rows, f, g)) /\ 1 \in ToDos(q) /\ f = q.todo[1]
    BY <1>a, <1>4 DEF Frames
  <2>2. f.node = q.top \/ Aside(rows, q, f.node)
    BY <1>2, FirstAside
  <2> HIDE DEF g
  <2>5. \A n \in Node : f.node \in Folder /\ rows[n].parent = f.node => Aside(rows, q, n)
    BY <1>1, <2>2, ChildAside
  <2>6. \A n \in Node : Queues(f, n) => Aside(rows, q, n)
    BY <1>2, <2>1 DEF NoReturn
  <2>3. CASE IsOpened(rows, f, g)
    <3>1. /\ f.node \in Folder /\ g \in ToDo /\ g.do = "files" /\ g.node = f.node
          /\ \A c \in Folder, x \in Name : <<c, x>> \in g.dirs => rows[c].parent = f.node
      BY <2>3 DEF IsOpened
    <3>2. ASSUME NEW n \in Node, Queues(g, n)
          PROVE  Aside(rows, q, n)
      <4>1. PICK x \in Name : <<n, x>> \in g.dirs
        BY <3>2 DEF Queues
      <4>2. n \in Folder
        BY <3>1, <4>1, FrameParts
      <4>3. rows[n].parent = f.node
        BY <3>1, <4>1, <4>2
      <4>4. QED
        BY <1>1, <2>2, <3>1, <4>3, ChildAside
    <3>3. QED
      BY <2>2, <3>1, <3>2 DEF g
  <2>4. CASE IsRead(rows, f, g)
    <3>a. f \in ToDo /\ IsRead(rows, f, g)
      BY <2>1, <2>4
    <3>1. f.do = "files" /\ g.do = "visit"
      BY <3>a, ReadPath
    <3>2. f.node \in Folder
      BY <2>1, <3>1 DEF Opened
    <3>3. Aside(rows, q, g.node)
      <4>1. PICK x \in Name : /\ g = Frame(g.node, x, f.path, f.depth) /\ g.path = Append(f.path, x)
                              /\ \/ /\ g.node \in File /\ g.node \notin Folder
                                    /\ rows[g.node].parent = f.node /\ rows[g.node].name = x
                                 \/ g.node \in Folder /\ g.node \notin File /\ <<g.node, x>> \in f.dirs
        <5>1. f \in ToDo
          BY <2>1
        <5>2. QED
          BY <2>4, <5>1, ReadName
      <4>2. g.node \in Node
        BY <4>1, NodeKinds
      <4>3. CASE rows[g.node].parent = f.node
        BY <2>5, <3>2, <4>2, <4>3
      <4>4. CASE <<g.node, x>> \in f.dirs
        BY <2>6, <3>1, <4>2, <4>4 DEF Queues
      <4>5. QED
        BY <4>1, <4>3, <4>4
    <3>4. QED
      BY <3>1, <3>3 DEF Queues, g
  <2>7. QED
    BY <2>1, <2>3, <2>4
<1>5. QED
  BY <1>a, <1>3, <1>4 DEF Frames

(* What stayed in a folder that has no entry yet has been left alone.       *)
LEMMA Fresh ==
  ASSUME NEW rows, NEW q, Opened(q), BelowFolder(rows, q),
         NEW n \in q.stayed, n # q.top, \A j \in Entries(q) : ~Listed(q, j, rows[n].parent)
  PROVE  /\ \A i \in Entries(q) : ~Listed(q, i, n)
         /\ \A k \in ToDos(q) : ~Holds(rows, q.todo[k], n)
<1>1. EntriesBelow(rows, q, n) /\ QueuedBelow(rows, q, n)
  BY DEF BelowFolder
<1>2. \A path : ~UnderEntry(rows, q, n, path)
  BY DEF UnderEntry
<1>3. \A i \in Entries(q) : ~Listed(q, i, n)
  BY <1>1, <1>2 DEF EntriesBelow
<1>4. ASSUME NEW k \in ToDos(q), Holds(rows, q.todo[k], n)
      PROVE  FALSE
  <2>1. CASE Visits(q.todo[k], n)
    BY <1>1, <1>2, <2>1 DEF EntriesBelow
  <2>2. CASE Queues(q.todo[k], n) \/ Reads(q.todo[k], rows[n].parent)
    <3>1. q.todo[k].do = "files"
      BY <2>2 DEF Queues, Reads
    <3>2. rows[n].parent = q.todo[k].node
      BY <1>1, <2>2 DEF QueuedBelow, Queues, Reads
    <3>3. \E j \in Entries(q) : Listed(q, j, q.todo[k].node)
      BY <3>1 DEF Opened
    <3>4. QED
      BY <3>2, <3>3
  <2>3. QED
    BY <1>4, <2>1, <2>2 DEF Holds
<1>5. QED
  BY <1>3, <1>4

(* What a folder that is opened gives of what stayed.                       *)
LEMMA OpenedChild ==
  ASSUME NEW rows, IsTree(rows),
         NEW q \in ReqState, Begun(q), Opened(q), Connected(rows, q), NoReturn(rows, q),
         NEW q2, NEW f, NEW N, Advances(rows, q, q2, f, N),
         NEW g, IsOpened(rows, f, g), NEW n \in q.stayed, Holds(rows, g, n)
  PROVE  rows[n].parent = f.node /\ n # q.top /\ f.node \in q.stayed /\ n # f.node
<1>1. /\ f.node \in Folder /\ g \in ToDo /\ g.do = "files" /\ g.node = f.node
      /\ \A c \in Folder, x \in Name : <<c, x>> \in g.dirs => rows[c].parent = f.node /\ rows[c].name = x
  BY DEF IsOpened
<1>2. n \in Node /\ q.top \in Node
  BY WalkParts DEF Begun
<1>3. rows[n].parent = f.node
  <2>1. CASE Queues(g, n)
    <3>1. PICK x \in Name : <<n, x>> \in g.dirs
      BY <2>1 DEF Queues
    <3>2. n \in Folder
      BY <1>1, <3>1, FrameParts
    <3>3. QED
      BY <1>1, <3>1, <3>2
  <2>2. CASE Reads(g, rows[n].parent)
    BY <1>1, <2>2 DEF Reads
  <2>3. QED
    BY <1>1, <2>1, <2>2 DEF Holds, Visits
<1>4. q.top \in q.stayed
  BY DEF Connected
<1>5. f.node = q.top \/ Aside(rows, q, f.node)
  BY <1>4, FirstAside
<1>6. Aside(rows, q, n)
  BY <1>1, <1>2, <1>3, <1>5, ChildAside
<1>7. n # q.top
  BY <1>6 DEF Aside
<1>8. f.node \in q.stayed
  BY <1>3, <1>7 DEF Connected
<1>9. n # f.node
  <2>1. SUFFICES ASSUME n = f.node PROVE FALSE
    OBVIOUS
  <2>2. n \in Folder /\ rows[n].parent = n
    BY <1>1, <1>3, <2>1
  <2>3. QED
    BY <2>2, NoCycle
<1>10. QED
  BY <1>3, <1>7, <1>8, <1>9

(* What a new thing to do is for, the first was for, or nothing was.        *)
LEMMA HoldsNew ==
  ASSUME NEW rows, IsTree(rows), NEW q \in ReqState, Walking(rows, q),
         NEW q2, NEW f, NEW N, Advances(rows, q, q2, f, N),
         NEW g \in N, NEW n \in q.stayed, Holds(rows, g, n)
  PROVE  \/ Holds(rows, f, n)
         \/ /\ \A i \in Entries(q) : ~Listed(q, i, n)
            /\ \A k \in ToDos(q) : ~Holds(rows, q.todo[k], n)
<1>a. Frames(rows, q, q2, f, N)
  BY NewFrames
<1>b. /\ Begun(q) /\ Opened(q) /\ Connected(rows, q) /\ NoReturn(rows, q) /\ OnceOnly(rows, q)
      /\ BelowFolder(rows, q)
  BY DEF Walking
<1>1. f \in ToDo /\ 1 \in ToDos(q) /\ f = q.todo[1] /\ (IsOpened(rows, f, g) \/ IsRead(rows, f, g))
  BY <1>a DEF Frames
<1>2. CASE IsOpened(rows, f, g)
  <2>1. rows[n].parent = f.node /\ n # q.top /\ f.node \in q.stayed
    BY <1>b, <1>2, OpenedChild
  <2>2. Holds(rows, f, f.node)
    BY <1>2 DEF IsOpened, Holds, Visits
  <2>3. \A j \in Entries(q) : ~Listed(q, j, f.node)
    BY <1>b, <1>1, <2>1, <2>2 DEF OnceOnly
  <2>4. QED
    BY <1>b, <2>1, <2>3, Fresh
<1>3. CASE IsRead(rows, f, g)
  <2>a. f \in ToDo
    BY <1>1
  <2>1. f.do = "files" /\ g.do = "visit"
    BY <1>3, <2>a, ReadPath
  <2>2. PICK x \in Name : /\ g = Frame(g.node, x, f.path, f.depth) /\ g.path = Append(f.path, x)
                          /\ \/ /\ g.node \in File /\ g.node \notin Folder
                                /\ rows[g.node].parent = f.node /\ rows[g.node].name = x
                             \/ g.node \in Folder /\ g.node \notin File /\ <<g.node, x>> \in f.dirs
    BY <1>3, <2>a, ReadName
  <2>3. g.node = n
    BY <2>1 DEF Holds, Visits, Queues, Reads
  <2>4. QED
    BY <2>1, <2>2, <2>3 DEF Holds, Queues, Reads
<1>4. QED
  BY <1>1, <1>2, <1>3

(* Two new things to do are not for one node.                               *)
LEMMA ReadOnce ==
  ASSUME NEW rows, NEW f \in ToDo, NEW g, IsRead(rows, f, g), NEW h, IsRead(rows, f, h),
         g.node = h.node, \A z \in Name : <<g.node, z>> \in f.dirs => rows[g.node].name = z
  PROVE  g = h
<1>3. PICK x \in Name : /\ g = Frame(g.node, x, f.path, f.depth) /\ g.path = Append(f.path, x)
                        /\ \/ /\ g.node \in File /\ g.node \notin Folder
                              /\ rows[g.node].parent = f.node /\ rows[g.node].name = x
                           \/ g.node \in Folder /\ g.node \notin File /\ <<g.node, x>> \in f.dirs
  BY ReadName
<1>4. PICK y \in Name : /\ h = Frame(h.node, y, f.path, f.depth) /\ h.path = Append(f.path, y)
                        /\ \/ /\ h.node \in File /\ h.node \notin Folder
                              /\ rows[h.node].parent = f.node /\ rows[h.node].name = y
                           \/ h.node \in Folder /\ h.node \notin File /\ <<h.node, y>> \in f.dirs
  BY ReadName
<1>7. x = y
  BY <1>3, <1>4
<1>8. QED
  BY <1>3, <1>4, <1>7

(* Two new ones are not for one row that stayed.                            *)
LEMMA HoldsOneNew ==
  ASSUME NEW rows, NEW q \in ReqState, BelowFolder(rows, q),
         NEW f \in ToDo, 1 \in ToDos(q), f = q.todo[1],
         NEW g, IsRead(rows, f, g), NEW h, IsRead(rows, f, h),
         NEW n \in q.stayed, Holds(rows, g, n), Holds(rows, h, n)
  PROVE  g = h
<1>a. f \in ToDo /\ IsRead(rows, f, g)
  OBVIOUS
<1>b. f \in ToDo /\ IsRead(rows, f, h)
  OBVIOUS
<1>c. f.do = "files" /\ g.do = "visit"
  BY <1>a, ReadPath
<1>d. h.do = "visit"
  BY <1>b, ReadPath
<1>2. g.node = n /\ h.node = n
  BY <1>c, <1>d DEF Holds, Visits, Queues, Reads
<1>5. QueuedBelow(rows, q, n)
  BY DEF BelowFolder
<1>6. \A z \in Name : <<n, z>> \in f.dirs => rows[n].name = z
  BY <1>c, <1>5 DEF QueuedBelow
<1>8. QED
  BY <1>a, <1>b, <1>2, <1>6, ReadOnce

(* A step of a walk: what stayed is listed or to come, once.                *)
LEMMA OnceOnlyAdvanced ==
  ASSUME NEW rows, IsTree(rows), NEW q \in ReqState, Walking(rows, q),
         NEW q2, NEW f, NEW N, Advances(rows, q, q2, f, N)
  PROVE  OnceOnly(rows, q2)
<1>a. Frames(rows, q, q2, f, N)
  BY NewFrames
<1>b. /\ Begun(q) /\ Opened(q) /\ Connected(rows, q) /\ NoReturn(rows, q) /\ OnceOnly(rows, q)
      /\ BelowFolder(rows, q)
  BY DEF Walking
<1>1. /\ 1 \in ToDos(q) /\ f = q.todo[1] /\ f \in ToDo /\ \A k \in ToDos(q) : q.todo[k] \in ToDo
      /\ \A k \in ToDos(q2) :
           q2.todo[k] \in N \/ \E l \in ToDos(q) : l # 1 /\ q2.todo[k] = q.todo[l]
      /\ \A g \in N : g \in ToDo /\ (IsOpened(rows, f, g) \/ IsRead(rows, f, g))
      /\ \A g \in N : f.do = "visit" => IsOpened(rows, f, g) /\ \A h \in N : g = h
      /\ \A g \in N : f.do = "files" => IsRead(rows, f, g)
  BY <1>a DEF Frames
<1>2. /\ q2.stayed = q.stayed /\ Replaces(q2.todo, q.todo, N) /\ 1 \in 1..Len(q.todo)
      /\ \A i \in Entries(q) : i \in Entries(q2) /\ q2.answer[i] = q.answer[i]
      /\ \A i \in Entries(q2) \ Entries(q) :
           f.do = "visit" /\ q2.answer[i].path = f.path /\ q2.answer[i].node = f.node
      /\ \A i, j \in Entries(q2) \ Entries(q) : i = j
  BY <1>1 DEF Advances, ToDos
<1>3. f.do \in {"visit", "files"}
  BY <1>1, FrameParts
<1>4. SUFFICES ASSUME NEW n \in q.stayed
               PROVE  /\ \A i, j \in Entries(q2) : Listed(q2, i, n) /\ Listed(q2, j, n) => i = j
                      /\ \A k, l \in ToDos(q2) :
                           Holds(rows, q2.todo[k], n) /\ Holds(rows, q2.todo[l], n) => k = l
                      /\ \A i \in Entries(q2), k \in ToDos(q2) :
                           ~(Listed(q2, i, n) /\ Holds(rows, q2.todo[k], n))
  BY <1>2 DEF OnceOnly
<1>5. /\ \A i, j \in Entries(q) : Listed(q, i, n) /\ Listed(q, j, n) => i = j
      /\ \A k, l \in ToDos(q) : Holds(rows, q.todo[k], n) /\ Holds(rows, q.todo[l], n) => k = l
      /\ \A i \in Entries(q), k \in ToDos(q) : ~(Listed(q, i, n) /\ Holds(rows, q.todo[k], n))
  BY <1>b DEF OnceOnly
<1>6. ASSUME NEW i \in Entries(q2), Listed(q2, i, n)
      PROVE  \/ i \in Entries(q) /\ Listed(q, i, n)
             \/ i \notin Entries(q) /\ f.do = "visit" /\ f.node = n /\ Holds(rows, f, n)
  BY <1>2, <1>6 DEF Listed, Holds, Visits
<1>7. ASSUME NEW g \in N, Holds(rows, g, n)
      PROVE  \/ Holds(rows, f, n)
             \/ /\ \A i \in Entries(q) : ~Listed(q, i, n)
                /\ \A k \in ToDos(q) : ~Holds(rows, q.todo[k], n)
  BY <1>7, HoldsNew
<1>8. ASSUME NEW i \in Entries(q2), NEW j \in Entries(q2), Listed(q2, i, n), Listed(q2, j, n)
      PROVE  i = j
  <2>1. CASE i \in Entries(q) /\ j \in Entries(q)
    BY <1>5, <1>6, <1>8, <2>1
  <2>2. CASE i \notin Entries(q) /\ j \notin Entries(q)
    BY <1>2, <2>2
  <2>3. CASE i \in Entries(q) /\ j \notin Entries(q)
    BY <1>1, <1>5, <1>6, <1>8, <2>3
  <2>4. CASE i \notin Entries(q) /\ j \in Entries(q)
    BY <1>1, <1>5, <1>6, <1>8, <2>4
  <2>5. QED
    BY <2>1, <2>2, <2>3, <2>4
<1>9. ASSUME NEW k \in ToDos(q2), NEW l \in ToDos(q2), Holds(rows, q2.todo[k], n), Holds(rows, q2.todo[l], n)
      PROVE  k = l
  <2> DEFINE H == {g \in ToDo : Holds(rows, g, n)}
  <2>1. InOne(q.todo, H)
    BY <1>5 DEF InOne, ToDos
  <2>2. ASSUME NEW g \in N, NEW h \in N, g \in H, h \in H
        PROVE  g = h
    <3>1. CASE f.do = "visit"
      BY <1>1, <3>1
    <3>2. CASE f.do = "files"
      <4>1. IsRead(rows, f, g) /\ IsRead(rows, f, h) /\ Holds(rows, g, n) /\ Holds(rows, h, n)
        BY <1>1, <2>2, <3>2
      <4>2. f \in ToDo /\ 1 \in ToDos(q) /\ f = q.todo[1]
        BY <1>1
      <4>3. QED
        BY <1>b, <4>1, <4>2, HoldsOneNew
    <3>3. QED
      BY <1>3, <3>1, <3>2
  <2>3. ASSUME NEW g \in N, g \in H
        PROVE  q.todo[1] \in H \/ \A m \in 1..Len(q.todo) : q.todo[m] \notin H
    BY <1>1, <1>7, <2>3 DEF ToDos
  <2> HIDE DEF H
  <2>4. OneNew(q.todo, N, H)
    BY <2>2, <2>3 DEF OneNew
  <2>5. InOne(q2.todo, H)
    BY <1>2, <2>1, <2>4, OneOf
  <2>6. q2.todo[k] \in H /\ q2.todo[l] \in H
    BY <1>1, <1>9 DEF H
  <2>7. QED
    BY <2>5, <2>6 DEF InOne, ToDos
<1>10. ASSUME NEW i \in Entries(q2), NEW k \in ToDos(q2), Listed(q2, i, n), Holds(rows, q2.todo[k], n)
       PROVE  FALSE
  <2>1. CASE i \in Entries(q)
    <3>1. Listed(q, i, n)
      BY <1>6, <1>10, <2>1
    <3>2. CASE q2.todo[k] \in N
      BY <1>1, <1>5, <1>7, <1>10, <2>1, <3>1, <3>2
    <3>3. CASE \E l \in ToDos(q) : q2.todo[k] = q.todo[l]
      BY <1>5, <1>10, <2>1, <3>1, <3>3
    <3>4. QED
      BY <1>1, <3>2, <3>3
  <2>2. CASE i \notin Entries(q)
    <3>1. f.do = "visit" /\ f.node = n /\ Holds(rows, f, n)
      BY <1>6, <1>10, <2>2
    <3>2. CASE q2.todo[k] \in N
      <4>1. IsOpened(rows, f, q2.todo[k])
        BY <1>1, <3>1, <3>2
      <4>2. QED
        BY <1>b, <1>10, <3>1, <4>1, OpenedChild
    <3>3. CASE \E l \in ToDos(q) : l # 1 /\ q2.todo[k] = q.todo[l]
      BY <1>1, <1>5, <1>10, <3>1, <3>3
    <3>4. QED
      BY <1>1, <3>2, <3>3
  <2>3. QED
    BY <2>1, <2>2
<1>11. QED
  BY <1>8, <1>9, <1>10

(* What is under an entry stays under it.                                   *)
LEMMA UnderEntryAdvanced ==
  ASSUME NEW rows, NEW q, NEW q2, NEW f, NEW N, Advances(rows, q, q2, f, N),
         NEW n, NEW path, UnderEntry(rows, q, n, path)
  PROVE  UnderEntry(rows, q2, n, path)
<1>1. \A i \in Entries(q) : i \in Entries(q2) /\ q2.answer[i] = q.answer[i]
  BY DEF Advances
<1>2. QED
  BY <1>1 DEF UnderEntry, Listed

(* What is read of a folder is below its entry.                             *)
LEMMA ReadBelow ==
  ASSUME NEW rows, NEW q \in ReqState, Opened(q),
         NEW f \in ToDo, 1 \in ToDos(q), f = q.todo[1], NEW g, IsRead(rows, f, g),
         QueuedBelow(rows, q, g.node)
  PROVE  UnderEntry(rows, q, g.node, g.path)
<1>a. f \in ToDo /\ IsRead(rows, f, g)
  OBVIOUS
<1>b. f.do = "files"
  BY <1>a, ReadPath
<1>1. \E x \in Name : /\ g.path = Append(f.path, x)
                      /\ rows[g.node].parent = f.node /\ rows[g.node].name = x
  <2>1. \A x \in Name : <<g.node, x>> \in f.dirs => rows[g.node].parent = f.node /\ rows[g.node].name = x
    BY <1>b DEF QueuedBelow
  <2>2. \E x \in Name : /\ g = Frame(g.node, x, f.path, f.depth)
                        /\ \/ g.node \in File /\ rows[g.node].parent = f.node /\ rows[g.node].name = x
                           \/ g.node \in Folder /\ <<g.node, x>> \in f.dirs
    BY <1>a DEF IsRead
  <2>3. \A x : g = Frame(g.node, x, f.path, f.depth) => g.path = Append(f.path, x)
    BY DEF Frame
  <2>4. QED
    BY <2>1, <2>2, <2>3
<1>2. PICK j \in Entries(q) : Listed(q, j, f.node) /\ q.answer[j].path = f.path
  BY <1>b DEF Opened
<1>3. QED
  BY <1>1, <1>2 DEF UnderEntry

(* A step of a walk: what stayed is below the entry of its folder.          *)
LEMMA BelowFolderAdvanced ==
  ASSUME NEW rows, IsTree(rows), NEW q \in ReqState, Walking(rows, q),
         NEW q2, NEW f, NEW N, Advances(rows, q, q2, f, N)
  PROVE  BelowFolder(rows, q2)
<1>a. Frames(rows, q, q2, f, N)
  BY NewFrames
<1>b. /\ Begun(q) /\ Opened(q) /\ Connected(rows, q) /\ NoReturn(rows, q) /\ BelowFolder(rows, q)
  BY DEF Walking
<1>1. /\ 1 \in ToDos(q) /\ f = q.todo[1] /\ f \in ToDo
      /\ \A k \in ToDos(q2) :
           q2.todo[k] \in N \/ \E l \in ToDos(q) : q2.todo[k] = q.todo[l]
      /\ \A g \in N : g \in ToDo /\ (IsOpened(rows, f, g) \/ IsRead(rows, f, g))
  BY <1>a DEF Frames
<1>2. /\ q2.stayed = q.stayed /\ q2.top = q.top
      /\ \A i \in Entries(q) : i \in Entries(q2) /\ q2.answer[i] = q.answer[i]
      /\ \A i \in Entries(q2) \ Entries(q) :
           f.do = "visit" /\ q2.answer[i].path = f.path /\ q2.answer[i].node = f.node
  BY DEF Advances
<1>3. SUFFICES ASSUME NEW n \in q.stayed
               PROVE  EntriesBelow(rows, q2, n) /\ QueuedBelow(rows, q2, n)
  BY <1>2 DEF BelowFolder
<1>4. EntriesBelow(rows, q, n) /\ QueuedBelow(rows, q, n)
  BY <1>b DEF BelowFolder
<1>5. ASSUME NEW path, UnderEntry(rows, q, n, path)
      PROVE  UnderEntry(rows, q2, n, path)
  BY <1>5, UnderEntryAdvanced
<1>6. ASSUME n # q.top, NEW i \in Entries(q2), Listed(q2, i, n)
      PROVE  UnderEntry(rows, q2, n, q2.answer[i].path)
  <2>1. CASE i \in Entries(q)
    <3>1. Listed(q, i, n) /\ q2.answer[i] = q.answer[i]
      BY <1>2, <1>6, <2>1 DEF Listed
    <3>2. UnderEntry(rows, q, n, q.answer[i].path)
      BY <1>4, <1>6, <2>1, <3>1 DEF EntriesBelow
    <3>3. QED
      BY <1>5, <3>1, <3>2
  <2>2. CASE i \notin Entries(q)
    <3>1. f.do = "visit" /\ q2.answer[i].path = f.path /\ f.node = n
      BY <1>2, <1>6, <2>2 DEF Listed
    <3>2. UnderEntry(rows, q, n, f.path)
      BY <1>1, <1>4, <1>6, <3>1 DEF EntriesBelow, Visits
    <3>3. QED
      BY <1>5, <3>1, <3>2
  <2>3. QED
    BY <2>1, <2>2
<1>7. ASSUME n # q.top, NEW k \in ToDos(q2), Visits(q2.todo[k], n)
      PROVE  UnderEntry(rows, q2, n, q2.todo[k].path)
  <2>1. CASE \E l \in ToDos(q) : q2.todo[k] = q.todo[l]
    BY <1>4, <1>5, <1>7, <2>1 DEF EntriesBelow
  <2>2. CASE q2.todo[k] \in N
    <3>1. q2.todo[k].do = "visit" /\ q2.todo[k].node = n
      BY <1>7 DEF Visits
    <3>2. IsRead(rows, f, q2.todo[k])
      BY <1>1, <2>2, <3>1 DEF IsOpened
    <3>3. UnderEntry(rows, q, n, q2.todo[k].path)
      <4>1. QueuedBelow(rows, q, q2.todo[k].node) /\ Opened(q) /\ f \in ToDo /\ 1 \in ToDos(q) /\ f = q.todo[1]
        BY <1>b, <1>1, <1>4, <3>1
      <4>2. UnderEntry(rows, q, q2.todo[k].node, q2.todo[k].path)
        BY <3>2, <4>1, ReadBelow
      <4>3. QED
        BY <3>1, <4>2
    <3>4. QED
      BY <1>5, <3>3
  <2>3. QED
    BY <1>1, <2>1, <2>2
<1>8. ASSUME NEW k \in ToDos(q2), NEW x \in Name, q2.todo[k].do = "files", <<n, x>> \in q2.todo[k].dirs
      PROVE  n # q.top /\ rows[n].parent = q2.todo[k].node /\ rows[n].name = x
  <2>1. CASE \E l \in ToDos(q) : q2.todo[k] = q.todo[l]
    BY <1>4, <1>8, <2>1 DEF QueuedBelow
  <2>2. CASE q2.todo[k] \in N
    <3> DEFINE g == q2.todo[k]
    <3>a. f \in ToDo
      BY <1>1
    <3>b. IsRead(rows, f, g) => g.do = "visit"
      BY <3>a, ReadPath
    <3>1. IsOpened(rows, f, g)
      BY <1>1, <1>8, <2>2, <3>b
    <3>2. Holds(rows, g, n)
      BY <1>8 DEF Holds, Queues
    <3>3. rows[n].parent = f.node /\ n # q.top
      BY <1>b, <3>1, <3>2, OpenedChild
    <3>4. g \in ToDo /\ g.node = f.node
      BY <3>1 DEF IsOpened
    <3>5. <<n, x>> \in Folder \X Name
      BY <1>8, <3>4, FrameParts
    <3>6. rows[n].name = x
      BY <1>8, <3>1, <3>5 DEF IsOpened
    <3>7. QED
      BY <3>3, <3>4, <3>6
  <2>3. QED
    BY <1>1, <2>1, <2>2
<1>9. EntriesBelow(rows, q2, n)
  BY <1>2, <1>6, <1>7 DEF EntriesBelow
<1>10. QED
  BY <1>2, <1>8, <1>9 DEF QueuedBelow

(* No query of the step failed: all of a folder is taken up.                *)
Complete(rows, q, q2, f, N) ==
  ~q2.short =>
    /\ ~q.short
    /\ f.do = "visit" /\ f.node \in Folder /\ f.depth # 0 =>
         \E g \in N : \A n \in Node : rows[n].parent = f.node => Holds(rows, g, n)
    /\ f.do = "files" => \A n \in Node : Holds(rows, f, n) => \E g \in N : Visits(g, n)

(* A step of a walk: what stayed is not left out.                           *)
LEMMA NothingLeftOutAdvanced ==
  ASSUME NEW rows, IsTree(rows), NEW q \in ReqState, Walking(rows, q),
         NEW q2, NEW f, NEW N, Advances(rows, q, q2, f, N), Complete(rows, q, q2, f, N)
  PROVE  NothingLeftOut(rows, q2)
<1>a. Frames(rows, q, q2, f, N)
  BY NewFrames
<1>b. Begun(q) /\ Opened(q) /\ WithinDepth(q) /\ NothingLeftOut(rows, q)
  BY DEF Walking
<1>1. 1 \in ToDos(q) /\ f = q.todo[1] /\ f \in ToDo /\ f.do \in {"visit", "files"} /\ f.node \in Node
  BY <1>a, FrameParts DEF Frames
<1>2. /\ q2.stayed = q.stayed /\ q2.top = q.top /\ q2.depth = q.depth /\ q2.cut = q.cut
      /\ \A i \in Entries(q) : i \in Entries(q2) /\ q2.answer[i] = q.answer[i]
      /\ \A i \in Entries(q2) \ Entries(q) : f.do = "visit" /\ q2.answer[i].node = f.node
      /\ f.do = "visit" => \E i \in Entries(q2) : q2.answer[i].node = f.node
  BY DEF Advances
<1>3. /\ \A l \in ToDos(q) : l # 1 => \E k \in ToDos(q2) : q2.todo[k] = q.todo[l]
      /\ \A g \in N : \E k \in ToDos(q2) : q2.todo[k] = g
  <2>1. Replaces(q2.todo, q.todo, N)
    BY DEF Advances
  <2>2. QED
    BY <2>1, NewOrOld DEF ToDos
<1>4. SUFFICES ASSUME ~q2.short, ~q2.cut, NEW n \in q.stayed, InScope(rows, q2, n),
                      NEW j \in Entries(q2), Listed(q2, j, rows[n].parent)
               PROVE  \/ \E i \in Entries(q2) : Listed(q2, i, n)
                      \/ \E k \in ToDos(q2) : Holds(rows, q2.todo[k], n)
  BY <1>2 DEF NothingLeftOut
<1>5. /\ ~q.short
      /\ f.do = "visit" /\ f.node \in Folder /\ f.depth # 0 =>
           \E g \in N : \A m \in Node : rows[m].parent = f.node => Holds(rows, g, m)
      /\ f.do = "files" => \A m \in Node : Holds(rows, f, m) => \E g \in N : Visits(g, m)
  BY <1>4 DEF Complete
<1>6. n \in Node
  BY WalkParts
<1>7. InScope(rows, q, n) /\ ~q.cut
  BY <1>2, <1>4 DEF InScope
<1>8. CASE \E i \in Entries(q) : Listed(q, i, rows[n].parent)
  <2>1. \/ \E i \in Entries(q) : Listed(q, i, n)
        \/ \E k \in ToDos(q) : Holds(rows, q.todo[k], n)
    BY <1>b, <1>5, <1>7, <1>8 DEF NothingLeftOut
  <2>2. CASE \E i \in Entries(q) : Listed(q, i, n)
    BY <1>2, <2>2 DEF Listed
  <2>3. ASSUME NEW k \in ToDos(q), Holds(rows, q.todo[k], n), k # 1
        PROVE  \E l \in ToDos(q2) : Holds(rows, q2.todo[l], n)
    BY <1>3, <2>3
  <2>4. ASSUME Holds(rows, f, n), f.do = "visit"
        PROVE  \E i \in Entries(q2) : Listed(q2, i, n)
    <3>1. f.node = n
      BY <2>4 DEF Holds, Visits, Queues, Reads
    <3>2. QED
      BY <1>2, <2>4, <3>1 DEF Listed
  <2>5. ASSUME Holds(rows, f, n), f.do = "files"
        PROVE  \E l \in ToDos(q2) : Holds(rows, q2.todo[l], n)
    <3>1. PICK g \in N : Visits(g, n)
      BY <1>5, <1>6, <2>5
    <3>2. QED
      BY <1>3, <3>1 DEF Holds
  <2>6. QED
    BY <1>1, <2>1, <2>2, <2>3, <2>4, <2>5
<1>9. CASE \A i \in Entries(q) : ~Listed(q, i, rows[n].parent)
  <2>1. j \notin Entries(q)
    BY <1>2, <1>4, <1>9 DEF Listed
  <2>2. f.do = "visit" /\ rows[n].parent = f.node
    BY <1>2, <1>4, <2>1 DEF Listed
  <2>3. f.node \in Folder
    <3>1. rows \in [Node -> Row]
      BY DEF IsTree
    <3>2. QED
      BY <1>1, <1>6, <2>2, <3>1, RowParts
  <2>4. f.depth # 0
    <3>1. CASE q.depth = Infinite
      BY <1>b, <1>1, <3>1 DEF WithinDepth, Infinite
    <3>2. CASE q.depth # Infinite
      <4>1. q.depth = 1 /\ rows[n].parent = q.top
        BY <1>7, <3>2 DEF InScope
      <4>2. q.answer = <<>>
        <5>1. SUFFICES ASSUME q.answer # <<>> PROVE FALSE
          OBVIOUS
        <5>2. q.answer \in Seq(AnEntry)
          BY WalkParts
        <5>3. 1 \in Entries(q)
          BY <5>1, <5>2, EmptySeq DEF Entries
        <5>4. Listed(q, 1, q.top)
          BY <1>b, <5>1 DEF Begun, Listed
        <5>5. QED
          BY <1>9, <4>1, <5>3, <5>4
      <4>3. f = FirstFrame(q)
        BY <1>b, <4>2, AnswerBegun
      <4>4. QED
        BY <4>1, <4>3 DEF FirstFrame
    <3>3. QED
      BY <3>1, <3>2
  <2>5. PICK g \in N : Holds(rows, g, n)
    BY <1>5, <1>6, <2>2, <2>3, <2>4
  <2>6. QED
    BY <1>3, <2>5
<1>10. QED
  BY <1>8, <1>9

(* A step of a walk keeps the invariant of its request.                     *)
LEMMA ReqInvAdvanced ==
  ASSUME NEW rows, IsTree(rows), NEW q \in ReqState, ReqInv(rows, q),
         NEW q2, NEW f, NEW N, Advances(rows, q, q2, f, N), Complete(rows, q, q2, f, N),
         \A i \in Entries(q2) \ Entries(q) : EntryOK(q, q2.answer[i])
  PROVE  ReqInv(rows, q2)
<1>1. q.pc = "walk" /\ HrefsOnce(q) /\ \A i \in Entries(q) : EntryOK(q, q.answer[i])
  BY DEF ReqInv, Advances
<1>2. Walking(rows, q)
  BY <1>1 DEF ReqInv
<1>3. /\ Begun(q) /\ WithinDepth(q) /\ Opened(q) /\ Apart(q)
      /\ Connected(rows, q) /\ NoReturn(rows, q) /\ OnceOnly(rows, q) /\ BelowFolder(rows, q)
      /\ NothingLeftOut(rows, q) /\ (~q.clash => NamesDiffer(rows))
  BY <1>2 DEF Walking
<1>4. /\ q2.method = q.method /\ q2.top = q.top /\ q2.asked = q.asked /\ q2.stayed = q.stayed /\ q2.clash = q.clash
      /\ \A i \in Entries(q) : i \in Entries(q2) /\ q2.answer[i] = q.answer[i]
  BY DEF Advances
<1>5. HrefsOnce(q2)
  BY <1>1, <1>3, HrefsOnceAdvanced
<1>6. \A i \in Entries(q2) : EntryOK(q2, q2.answer[i])
  <2>1. SUFFICES ASSUME NEW i \in Entries(q2) PROVE EntryOK(q, q2.answer[i])
    BY <1>4, SameEntryOK
  <2>2. CASE i \in Entries(q)
    BY <1>1, <1>4, <2>2
  <2>3. CASE i \notin Entries(q)
    BY <2>3
  <2>4. QED
    BY <2>2, <2>3
<1>7. Connected(rows, q2)
  BY <1>3, <1>4 DEF Connected
<1>8. Begun(q2)
  BY <1>3, BegunAdvanced
<1>9. WithinDepth(q2)
  BY <1>3, WithinDepthAdvanced
<1>10. Opened(q2)
  BY <1>3, OpenedAdvanced
<1>11. Apart(q2)
  BY <1>3, ApartAdvanced
<1>12. NoReturn(rows, q2)
  BY <1>3, NoReturnAdvanced
<1>13. OnceOnly(rows, q2)
  BY <1>2, OnceOnlyAdvanced
<1>14. BelowFolder(rows, q2)
  BY <1>2, BelowFolderAdvanced
<1>15. NothingLeftOut(rows, q2)
  BY <1>2, NothingLeftOutAdvanced
<1>16. Walking(rows, q2)
  BY <1>3, <1>4, <1>7, <1>8, <1>9, <1>10, <1>11, <1>12, <1>13, <1>14, <1>15 DEF Walking
<1>17. QED
  BY <1>5, <1>6, <1>16 DEF ReqInv

-----------------------------------------------------------------------------
(* What an entry says of the properties.                                    *)

(* The properties of a resource are finitely many, all of them names.       *)
LEMMA KnownFinite ==
  ASSUME NEW n
  PROVE  Known(n) \in SUBSET Property /\ IsFiniteSet(Known(n))
<1>1. IsFiniteSet({"displayname"} \cup {"resourcetype"} \cup {"getetag"})
  BY FS_Singleton, FS_Union
<1>2. {"displayname"} \cup {"resourcetype"} \cup {"getetag"} = FindFn
  BY DEF FindFn
<1>3. Known(n) \subseteq FindFn
  BY DEF Known
<1>4. FindFn \subseteq Property
  BY WebdavBodies DEF LiveProps
<1>5. IsFiniteSet(FindFn)
  BY <1>1, <1>2
<1>6. QED
  BY <1>3, <1>4, <1>5, FS_Subset

(* A list without members of a set has none of them any number of times.    *)
LEMMA NoneOfThem ==
  /\ <<>> \in Seq(Property) /\ ToSet(<<>>) = {} /\ \A x : Times(x, <<>>) = 0
<1>1. <<>> \in Seq(Property) /\ DOMAIN <<>> = {}
  OBVIOUS
<1>2. ToSet(<<>>) = {}
  BY <1>1 DEF ToSet
<1>3. \A x : {i \in DOMAIN <<>> : <<>>[i] = x} = {}
  BY <1>1
<1>4. \A x : Times(x, <<>>) = 0
  BY <1>3, FS_EmptySet DEF Times
<1>5. QED
  BY <1>1, <1>2, <1>4

(* props finds what is known and reports the rest as not found.             *)
LEMMA PropsOf ==
  ASSUME NEW n, NEW s \in Seq(Property)
  PROVE  LET e == Props(n, s) IN
         /\ e.ok \in Seq(Property) /\ e.rest \in Seq(Property)
         /\ ToSet(e.ok) \subseteq Known(n) /\ ToSet(e.rest) \cap Known(n) = {}
         /\ ToSet(e.ok) \cup ToSet(e.rest) = ToSet(s)
         /\ \A x : Times(x, e.ok) + Times(x, e.rest) = Times(x, s)
<1>1. Props(n, s).ok = Kept(s, Known(n)) /\ Props(n, s).rest = Left(s, Known(n))
  BY DEF Props
<1>2. /\ Kept(s, Known(n)) \in Seq(Property) /\ ToSet(Kept(s, Known(n))) = ToSet(s) \cap Known(n)
  BY KeptOf
<1>3. /\ Left(s, Known(n)) \in Seq(Property) /\ ToSet(Left(s, Known(n))) = ToSet(s) \ Known(n)
      /\ \A x : Times(x, Kept(s, Known(n))) + Times(x, Left(s, Known(n))) = Times(x, s)
  BY KeptAndLeft
<1>4. QED
  BY <1>1, <1>2, <1>3

(* So the entry of a walk reports each property once.                       *)
LEMMA EntryIsOK ==
  ASSUME NEW q, q.method = "PROPFIND", q.body \in Bodies, Acceptable(q.body), q.asked = q.body.prop,
         NEW n \in Node, NEW path \in Hrefs
  PROVE  /\ Entry(q.body, n, path) \in AnEntry /\ EntryOK(q, Entry(q.body, n, path))
         /\ Entry(q.body, n, path).path = path /\ Entry(q.body, n, path).node = n
<1> DEFINE b == q.body  e == Entry(b, n, path)  all == PropToSet(n)
<1>1. /\ b.kind \in {"empty", "doc", "broken"} /\ b.allprop \in BOOLEAN /\ b.propname \in BOOLEAN
      /\ b.prop \in Seq(Property) /\ (b.kind = "empty" => b.prop = <<>>)
  BY WebdavBodies
<1>2. /\ b.kind # "broken"
      /\ b.kind = "doc" => /\ b.allprop => b.prop = <<>> /\ ~b.propname
                           /\ ~(b.prop # <<>> /\ b.propname)
                           /\ b.propname \/ b.allprop \/ b.prop # <<>>
  BY DEF Acceptable
<1>3. /\ all \in Seq(Property) /\ ToSet(all) = Known(n)
      /\ \A x \in Known(n) : Times(x, all) = 1
  BY KnownFinite, SetAsSeq, TimesOfSet DEF PropToSet
<1>4. /\ <<>> \in Seq(Property) /\ ToSet(<<>>) = {} /\ \A x : Times(x, <<>>) = 0
  BY NoneOfThem
<1>5. e.path = path /\ e.node = n
  BY DEF Entry
<1>6. /\ e.ok \in Seq(Property) /\ e.rest \in Seq(Property)
      /\ ToSet(e.ok) \subseteq Known(n) /\ ToSet(e.rest) \cap Known(n) = {}
      /\ \A x \in Reported(e) \cup ToSet(q.asked) :
           Times(x, e.ok) + Times(x, e.rest) = IF q.asked = <<>> THEN 1 ELSE Times(x, q.asked)
  <2>1. CASE b.kind = "doc" /\ b.propname
    <3>1. e.ok = all /\ e.rest = <<>>
      BY <2>1 DEF Entry
    <3>2. q.asked = <<>>
      BY <1>2, <2>1
    <3> HIDE DEF all, e
    <3>3. \A x \in Known(n) : Times(x, all) + Times(x, <<>>) = 1
      BY <1>3, <1>4
    <3>4. QED
      BY <1>3, <1>4, <3>1, <3>2, <3>3 DEF Reported
  <2>2. CASE ~(b.kind = "doc" /\ b.propname) /\ AllProp(b)
    <3> DEFINE st == Props(n, all)
    <3>1. e.ok = st.ok /\ e.rest = st.rest
      BY <2>2 DEF Entry
    <3>2. q.asked = <<>>
      BY <1>1, <1>2, <2>2 DEF AllProp
    <3>3. /\ st.ok \in Seq(Property) /\ st.rest \in Seq(Property)
          /\ ToSet(st.ok) \subseteq Known(n) /\ ToSet(st.rest) \cap Known(n) = {}
          /\ ToSet(st.ok) \cup ToSet(st.rest) = ToSet(all)
          /\ \A x : Times(x, st.ok) + Times(x, st.rest) = Times(x, all)
      BY <1>3, PropsOf
    <3> HIDE DEF all, e, st
    <3>4. Reported(e) \cup ToSet(q.asked) = Known(n)
      BY <1>3, <1>4, <3>1, <3>2, <3>3 DEF Reported
    <3>5. QED
      BY <1>3, <3>1, <3>2, <3>3, <3>4
  <2>3. CASE ~(b.kind = "doc" /\ b.propname) /\ ~AllProp(b)
    <3> DEFINE st == Props(n, b.prop)
    <3>1. e.ok = st.ok /\ e.rest = st.rest
      BY <2>3 DEF Entry
    <3>2. q.asked # <<>>
      BY <1>1, <1>2, <2>3 DEF AllProp
    <3>3. /\ st.ok \in Seq(Property) /\ st.rest \in Seq(Property)
          /\ ToSet(st.ok) \subseteq Known(n) /\ ToSet(st.rest) \cap Known(n) = {}
          /\ \A x : Times(x, st.ok) + Times(x, st.rest) = Times(x, b.prop)
      BY <1>1, PropsOf
    <3> HIDE DEF e, st
    <3>4. QED
      BY <3>1, <3>2, <3>3
  <2>4. QED
    BY <2>1, <2>2, <2>3
<1>7. e \in AnEntry
  <2>1. e = [path |-> path, node |-> n, ok |-> e.ok, rest |-> e.rest]
    BY DEF Entry
  <2> HIDE DEF e
  <2>2. QED
    BY <1>6, <2>1 DEF AnEntry, Hrefs
<1>8. EntryOK(q, e)
  <2> HIDE DEF e
  <2>1. ToSet(e.ok) \cap ToSet(e.rest) = {}
    BY <1>6
  <2>2. QED
    BY <1>5, <1>6, <2>1 DEF EntryOK
<1>9. QED
  BY <1>5, <1>7, <1>8

(* And so does the entry of a PROPPATCH.                                    *)
LEMMA PatchIsOK ==
  ASSUME NEW p \in Patches, NEW n \in Node, NEW path \in Hrefs,
         NEW e, e = [path |-> path, node |-> n, ok |-> Patch(p).ok, rest |-> Patch(p).rest],
         NEW q, q.method = "PROPPATCH", q.asked = FlattenSeq(p)
  PROVE  e \in AnEntry /\ EntryOK(q, e)
<1> DEFINE all == FlattenSeq(p)
           live == ToSet(all) \cap LiveProps
<1>1. all \in Seq(Property) /\ ToSet(all) = UNION {ToSet(p[i]) : i \in DOMAIN p} /\ p \in Seq(Seq(Property))
  BY WebdavBodies
<1>2. /\ Kept(all, LiveProps) \in Seq(Property) /\ Left(all, LiveProps) \in Seq(Property)
      /\ ToSet(Kept(all, LiveProps)) \cup ToSet(Left(all, LiveProps)) = ToSet(all)
      /\ \A x : Times(x, Kept(all, LiveProps)) + Times(x, Left(all, LiveProps)) = Times(x, all)
  BY <1>1, KeptOf, KeptAndLeft
<1>3. /\ <<>> \in Seq(Property) /\ ToSet(<<>>) = {} /\ \A x : Times(x, <<>>) = 0
  BY NoneOfThem
<1>4. e.path = path /\ e.node = n /\ e.ok = Patch(p).ok /\ e.rest = Patch(p).rest
  OBVIOUS
<1>5. \/ live # {} /\ e.ok = <<>> /\ e.rest = Kept(all, LiveProps) \o Left(all, LiveProps)
      \/ live = {} /\ e.ok = all /\ e.rest = <<>>
  <2> DEFINE conflict == \E i \in 1..Len(p) : \E j \in 1..Len(p[i]) : p[i][j] \in LiveProps
  <2>1. \A x : x \in ToSet(all) <=> \E i \in 1..Len(p) : x \in ToSet(p[i])
    <3> DEFINE U == UNION {ToSet(p[i]) : i \in DOMAIN p}
    <3>1. DOMAIN p = 1..Len(p) /\ ToSet(all) = U
      BY <1>1
    <3>2. \A x : x \in U <=> \E i \in DOMAIN p : x \in ToSet(p[i])
      BY Zenon
    <3> HIDE DEF U, all
    <3>3. QED
      BY <3>1, <3>2, Zenon
  <2>2. \A i \in 1..Len(p) : ToSet(p[i]) = {p[i][j] : j \in 1..Len(p[i])}
    BY <1>1 DEF ToSet
  <2>3. conflict <=> live # {}
    <3> HIDE DEF all
    <3>1. ASSUME NEW i \in 1..Len(p), NEW j \in 1..Len(p[i]), p[i][j] \in LiveProps
          PROVE  p[i][j] \in live
      BY <2>1, <2>2, <3>1
    <3>2. ASSUME NEW x \in live
          PROVE  conflict
      <4>1. PICK i \in 1..Len(p) : x \in ToSet(p[i])
        BY <2>1, <3>2
      <4>2. PICK j \in 1..Len(p[i]) : p[i][j] = x
        BY <2>2, <4>1
      <4>3. QED
        BY <3>2, <4>2
    <3>3. QED
      BY <3>1, <3>2
  <2>4. Patch(p) = IF conflict THEN [ok |-> <<>>, rest |-> Kept(all, LiveProps) \o Left(all, LiveProps)]
                   ELSE [ok |-> all, rest |-> <<>>]
    BY DEF Patch
  <2> HIDE DEF conflict, live, all
  <2>5. QED
    BY <1>4, <2>3, <2>4
<1>6. q.asked = all
  OBVIOUS
<1>a. \A x : Times(x, all) \in Nat
  BY <1>1, TimesNat
<1> HIDE DEF all, live
<1>7. /\ e.ok \in Seq(Property) /\ e.rest \in Seq(Property)
      /\ ToSet(e.ok) \cap ToSet(e.rest) = {} /\ Reported(e) = ToSet(all)
      /\ IF live = {} THEN e.rest = <<>> ELSE e.ok = <<>>
      /\ \A x : Times(x, e.ok) + Times(x, e.rest) = Times(x, all)
  <2>1. CASE live = {} /\ e.ok = all /\ e.rest = <<>>
    <3>1. \A x : Times(x, e.ok) \in Nat /\ Times(x, e.ok) = Times(x, all) /\ Times(x, e.rest) = 0
      BY <1>3, <1>a, <2>1
    <3>2. \A x : Times(x, e.ok) + Times(x, e.rest) = Times(x, all)
      BY <3>1
    <3>3. /\ e.ok \in Seq(Property) /\ e.rest \in Seq(Property) /\ ToSet(e.rest) = {} /\ ToSet(e.ok) = ToSet(all)
      BY <1>1, <1>3, <2>1
    <3>4. QED
      BY <2>1, <3>2, <3>3 DEF Reported
  <2>2. CASE live # {} /\ e.ok = <<>> /\ e.rest = Kept(all, LiveProps) \o Left(all, LiveProps)
    <3> DEFINE r == Kept(all, LiveProps) \o Left(all, LiveProps)
    <3>1. /\ r \in Seq(Property)
          /\ ToSet(r) = ToSet(Kept(all, LiveProps)) \cup ToSet(Left(all, LiveProps))
          /\ \A x : Times(x, r) = Times(x, Kept(all, LiveProps)) + Times(x, Left(all, LiveProps))
      BY <1>2, TimesConcat
    <3>2. e.ok = <<>> /\ e.rest = r
      BY <2>2
    <3> HIDE DEF r
    <3>3. ToSet(r) = ToSet(all) /\ \A x : Times(x, r) = Times(x, all)
      BY <1>2, <3>1
    <3>4. QED
      <4>1. \A x : Times(x, e.rest) \in Nat /\ Times(x, e.rest) = Times(x, all) /\ Times(x, e.ok) = 0
        BY <1>3, <1>a, <3>2, <3>3
      <4>2. \A x : Times(x, e.ok) + Times(x, e.rest) = Times(x, all)
        BY <4>1
      <4>3. /\ e.ok \in Seq(Property) /\ e.rest \in Seq(Property) /\ ToSet(e.ok) = {} /\ ToSet(e.rest) = ToSet(all)
        BY <1>3, <3>1, <3>2, <3>3
      <4>4. QED
        BY <2>2, <4>2, <4>3 DEF Reported
  <2>3. QED
    BY <1>5, <2>1, <2>2
<1>8. e \in AnEntry
  <2>1. e = [path |-> path, node |-> n, ok |-> e.ok, rest |-> e.rest]
    BY <1>4
  <2>2. QED
    BY <1>7, <2>1 DEF AnEntry, Hrefs
<1>9. EntryOK(q, e)
  <2>1. \A x \in Reported(e) \cup ToSet(q.asked) :
          Times(x, e.ok) + Times(x, e.rest) = IF q.asked = <<>> THEN 1 ELSE Times(x, q.asked)
    BY <1>3, <1>6, <1>7
  <2>2. QED
    BY <1>6, <1>7, <2>1 DEF EntryOK, live
<1>10. QED
  BY <1>8, <1>9

-----------------------------------------------------------------------------
(* The steps.                                                               *)

(* A request that has not begun, or is done in one step.                    *)
LEMMA IdleIs ==
  ASSUME NEW s \in Nat
  PROVE  /\ Idle \in ReqState /\ [Idle EXCEPT !.pc = "done", !.status = s] \in ReqState
         /\ \A rows : ReqInv(rows, Idle)
         /\ \A rows : ReqInv(rows, [Idle EXCEPT !.pc = "done", !.status = s])
<1> DEFINE D == [Idle EXCEPT !.pc = "done", !.status = s]
<1>1. (CHOOSE b \in Bodies : TRUE) \in Bodies
  BY WebdavBodies
<1>2. Idle \in ReqState
  BY <1>1 DEF Idle, ReqState, Depths
<1>3. D \in ReqState
  BY <1>2 DEF ReqState
<1>4. Idle.pc = "idle" /\ Idle.answer = <<>> /\ D.pc = "done" /\ D.answer = <<>>
  BY DEF Idle
<1>5. \A q, rows : q.answer = <<>> /\ q.pc \in {"idle", "done"} => ReqInv(rows, q)
  <2>1. SUFFICES ASSUME NEW q, NEW rows, q.answer = <<>>, q.pc \in {"idle", "done"}
                 PROVE  ReqInv(rows, q)
    OBVIOUS
  <2>2. Entries(q) = {}
    BY <2>1 DEF Entries
  <2>3. HrefsOnce(q) /\ \A i \in Entries(q) : EntryOK(q, q.answer[i])
    BY <2>2 DEF HrefsOnce
  <2>4. q.pc \notin {"walk", "close"}
    BY <2>1
  <2>5. QED
    BY <2>3, <2>4 DEF ReqInv
<1> HIDE DEF D
<1>6. \A rows : ReqInv(rows, Idle) /\ ReqInv(rows, D)
  BY <1>4, <1>5
<1>7. QED
  BY <1>2, <1>3, <1>6 DEF D

(* The latter has the type of requests.                                     *)
LEMMA DoneIs ==
  ASSUME NEW s \in Nat
  PROVE  [Idle EXCEPT !.pc = "done", !.status = s] \in ReqState
BY IdleIs, Zenon

(* A request alone does something.                                          *)
LEMMA Alone ==
  ASSUME IInv, NEW r \in Request, row' = row,
         NEW q2 \in ReqState, ReqInv(row, q2), req' = [req EXCEPT ![r] = q2],
         account' = account, faults' \in 0..MaxFault
  PROVE  IInv'
<1>1. TypeOK /\ IsTree(row) /\ \A s \in Request : ReqInv(row, req[s])
  BY DEF IInv
<1>2. req \in [Request -> ReqState] /\ row \in [Node -> Row] /\ account \in BOOLEAN
  BY <1>1 DEF TypeOK
<1>3. req' \in [Request -> ReqState] /\ req'[r] = q2 /\ \A s \in Request : s # r => req'[s] = req[s]
  BY <1>2
<1>4. TypeOK'
  BY <1>2, <1>3 DEF TypeOK
<1>5. \A s \in Request : ReqInv(row', req'[s])
  BY <1>1, <1>3
<1>6. IsTree(row')
  BY <1>1
<1>7. QED
  BY <1>4, <1>5, <1>6 DEF IInv

(* An answer without a change.                                              *)
LEMMA Answers ==
  ASSUME IInv, NEW r \in Request, NEW s \in Nat, Answer(r, s), Unchanged
  PROVE  IInv'
<1>1. req' = [req EXCEPT ![r] = [Idle EXCEPT !.pc = "done", !.status = s]]
  BY DEF Answer
<1>2. row' = row /\ account' = account /\ faults' = faults
  BY DEF Unchanged
<1>3. faults \in 0..MaxFault
  BY DEF IInv, TypeOK
<1>4. [Idle EXCEPT !.pc = "done", !.status = s] \in ReqState
      /\ ReqInv(row, [Idle EXCEPT !.pc = "done", !.status = s])
  BY IdleIs
<1>5. QED
  BY <1>1, <1>2, <1>3, <1>4, Alone

(* What Change takes from those that stayed is what it puts out of place.   *)
LEMMA OffIs ==
  ASSUME row \in [Node -> Row], NEW rows
  PROVE  LET moved == {n \in Node : row[n] # rows[n]}
         IN  moved \cup UNION {Below(n) : n \in moved \cap Folder} = Off(row, rows)
<1> DEFINE moved == {n \in Node : row[n] # rows[n]}
           U == UNION {Below(n) : n \in moved \cap Folder}
<1>1. moved = Moved(row, rows)
  BY DEF Moved
<1>2. \A n \in moved \cap Folder : Below(n) = BelowIn(row, n) /\ BelowIn(row, n) \subseteq Node
  BY BelowIs, BelowSelf
<1>3. moved \subseteq Node
  OBVIOUS
<1> HIDE DEF moved
<1>4. \A x : x \in U <=> \E n \in moved \cap Folder : x \in BelowIn(row, n)
  BY <1>2
<1> HIDE DEF U
<1>5. moved \cup U = Off(row, rows)
  BY <1>1, <1>2, <1>3, <1>4 DEF Off
<1>6. QED
  BY <1>5 DEF moved, U

(* A change of the tree to another tree, with its answer.                   *)
LEMMA Changes ==
  ASSUME IInv, NEW r \in Request, NEW s \in Nat, NEW rows, IsTree(rows), Change(r, s, rows)
  PROVE  IInv'
<1>1. TypeOK /\ IsTree(row) /\ \A q \in Request : ReqInv(row, req[q])
  BY DEF IInv
<1>2. /\ req \in [Request -> ReqState] /\ row \in [Node -> Row] /\ account \in BOOLEAN
      /\ faults \in 0..MaxFault /\ rows \in [Node -> Row]
  BY <1>1 DEF TypeOK, IsTree
<1> DEFINE D == [Idle EXCEPT !.pc = "done", !.status = s]
           New(q) == [req[q] EXCEPT !.stayed = @ \ Off(row, rows), !.clash = @ \/ ~NamesDiffer(rows)]
<1>3. /\ row' = rows /\ account' = account /\ faults' = faults
      /\ req' = [q \in Request |-> IF q = r THEN D ELSE New(q)]
  BY <1>2, OffIs DEF Change
<1>4. D \in ReqState /\ ReqInv(rows, D)
  BY IdleIs
<1>5. ASSUME NEW q \in Request
      PROVE  New(q) \in ReqState /\ ReqInv(rows, New(q))
  <2> DEFINE a == req[q]  b == New(q)
  <2>1. a \in ReqState /\ ReqInv(row, a)
    BY <1>1, <1>2
  <2>2. b = [a EXCEPT !.stayed = @ \ Off(row, rows), !.clash = @ \/ ~NamesDiffer(rows)]
    OBVIOUS
  <2> HIDE DEF a, b
  <2>3. b \in ReqState
    <3>1. (a.clash \/ ~NamesDiffer(rows)) \in BOOLEAN /\ a.stayed \ Off(row, rows) \in SUBSET Node
      BY <2>1 DEF ReqState
    <3>2. QED
      BY <2>1, <2>2, <3>1, Zenon DEF ReqState
  <2>4. /\ b.pc = a.pc /\ b.answer = a.answer /\ b.depth = a.depth /\ b.path = a.path
        /\ b.asked = a.asked /\ b.method = a.method
        /\ (~b.clash => ~a.clash)
    BY <2>1, <2>2 DEF ReqState
  <2>5. HrefsOnce(b)
    <3>1. HrefsOnce(a)
      BY <2>1 DEF ReqInv
    <3>2. QED
      BY <2>4, <3>1, SameHrefsOnce
  <2>6. \A i \in Entries(b) : EntryOK(b, b.answer[i])
    <3>1. \A i \in Entries(a) : EntryOK(a, a.answer[i])
      BY <2>1 DEF ReqInv
    <3>2. QED
      BY <2>4, <3>1, SameEntryOK DEF Entries
  <2>7. b.pc \in {"walk", "close"} => Walking(rows, b)
    <3>1. SUFFICES ASSUME a.pc \in {"walk", "close"} PROVE Walking(rows, b)
      BY <2>4
    <3>2. Walking(row, a)
      BY <2>1, <3>1 DEF ReqInv
    <3>3. QED
      BY <1>2, <2>1, <2>2, <3>2, WalkingChanged
  <2>8. ReqInv(rows, b)
    BY <2>5, <2>6, <2>7 DEF ReqInv
  <2>9. QED
    BY <2>3, <2>8 DEF b
<1> HIDE DEF D, New
<1>6. /\ req' \in [Request -> ReqState]
      /\ \A q \in Request : req'[q] = IF q = r THEN D ELSE New(q)
  BY <1>3, <1>4, <1>5
<1>7. TypeOK'
  BY <1>2, <1>3, <1>6 DEF TypeOK
<1>8. \A q \in Request : ReqInv(row', req'[q])
  BY <1>3, <1>4, <1>5, <1>6
<1>9. QED
  BY <1>3, <1>7, <1>8 DEF IInv

(* The methods other than PROPFIND.                                         *)
LEMMA Methods ==
  ASSUME IInv, NEW r \in Request, NEW p \in Seq(Name)
  PROVE  /\ HandleGetHeadPost(r, p) => IInv'
         /\ HandleDelete(r, p) => IInv'
         /\ \A hasBody \in BOOLEAN : HandleMkcol(r, p, hasBody) => IInv'
         /\ HandlePut(r, p) => IInv'
         /\ \A timeoutOk \in BOOLEAN : HandleLock(r, p, timeoutOk) => IInv'
         /\ HandleUnlock(r, p) => IInv'
         /\ HandleOptions(r, p) => IInv'
<1>1. IsTree(row) /\ row \in [Node -> Row]
  BY DEF IInv, IsTree
<1>2. \A s \in Nat : Answer(r, s) /\ Unchanged => IInv'
  BY Answers
<1>3. \A s \in Nat : \A rows : IsTree(rows) /\ Change(r, s, rows) => IInv'
  BY Changes
<1>4. /\ FileAt(p) \in File \cup {Nowhere} /\ FolderAt(p) \in Folder \cup {Nowhere}
      /\ File \subseteq Node /\ Folder \subseteq Node /\ File \cap Folder = {}
  BY <1>1, FileAtOk, FolderAtOk, NodeKinds
<1>5. ASSUME p # <<>>
      PROVE  /\ Front(p) \in Seq(Name) /\ Last(p) \in Name
             /\ FolderAt(Front(p)) \in Folder \cup {Nowhere}
             /\ FolderAt(Front(p)) # Nowhere => Alive(row, FolderAt(Front(p)))
  <2>1. Front(p) \in Seq(Name) /\ Last(p) \in Name
    BY <1>5, FrontLast
  <2>2. QED
    BY <1>1, <2>1, FolderAtOk
<1>6. HandleGetHeadPost(r, p) => IInv'
  BY <1>2 DEF HandleGetHeadPost
<1>7. ASSUME HandleDelete(r, p)
      PROVE  IInv'
  <2> DEFINE n == IF FileAt(p) # Nowhere THEN FileAt(p) ELSE FolderAt(p)
  <2>1. CASE n = Nowhere
    BY <1>2, <1>7, <2>1 DEF HandleDelete
  <2>2. CASE n # Nowhere
    <3>1. n \in Node
      BY <1>4, <2>2
    <3>2. Change(r, 204, Removed(n))
      BY <1>7, <2>2 DEF HandleDelete
    <3> HIDE DEF n
    <3>3. IsTree(Removed(n))
      BY <1>1, <3>1, TreeRemoved
    <3>4. QED
      BY <1>3, <3>2, <3>3
  <2>3. QED
    BY <2>1, <2>2
<1>8. ASSUME NEW hasBody \in BOOLEAN, HandleMkcol(r, p, hasBody)
      PROVE  IInv'
  <2>1. CASE hasBody \/ FileAt(p) # Nowhere \/ FolderAt(p) # Nowhere
    BY <1>2, <1>8, <2>1 DEF HandleMkcol
  <2>2. CASE ~(hasBody \/ FileAt(p) # Nowhere \/ FolderAt(p) # Nowhere)
    <3>1. FolderAt(Front(p)) # Nowhere /\ Spare(Folder) /\ Change(r, 201, Made(Folder, p))
      BY <1>8, <2>2 DEF HandleMkcol
    <3>2. p # <<>>
      <4>1. FolderAt(<<>>) = Base
        BY DEF FolderAt, FolderFrom
      <4>2. Base \in Folder /\ Nowhere \notin Node
        BY <1>1, BaseOk, NodeKinds
      <4>3. QED
        BY <1>4, <2>2, <4>1, <4>2
    <3> DEFINE n == CHOOSE m \in Folder : Missing(m)
               d == FolderAt(Front(p))
    <3>3. n \in Folder /\ Missing(n)
      BY <3>1 DEF Spare
    <3>4. d \in Folder /\ Alive(row, d) /\ Last(p) \in Name
      BY <1>5, <3>1, <3>2
    <3>6. Made(Folder, p) = Put(row, n, d, Last(p))
      BY DEF Made
    <3> HIDE DEF n, d
    <3>7. IsTree(Put(row, n, d, Last(p)))
      BY <1>1, <1>4, <3>3, <3>4, TreeMade
    <3>8. QED
      BY <1>3, <3>1, <3>6, <3>7
  <2>3. QED
    BY <2>1, <2>2
<1>9. ASSUME HandlePut(r, p)
      PROVE  IInv'
  <2>1. CASE (Answer(r, 405) \/ Answer(r, 201)) /\ Unchanged
    BY <1>2, <2>1
  <2>2. CASE /\ p # <<>> /\ FileAt(p) = Nowhere
             /\ FolderAt(Front(p)) # Nowhere /\ Spare(File)
             /\ Change(r, 201, Made(File, p))
    <3> DEFINE n == CHOOSE m \in File : Missing(m)
               d == FolderAt(Front(p))
    <3>1. n \in File /\ Missing(n)
      BY <2>2 DEF Spare
    <3>2. d \in Folder /\ Alive(row, d) /\ Last(p) \in Name
      BY <1>5, <2>2
    <3>4. Made(File, p) = Put(row, n, d, Last(p))
      BY DEF Made
    <3>a. Change(r, 201, Made(File, p))
      BY <2>2
    <3> HIDE DEF n, d
    <3>6. IsTree(Put(row, n, d, Last(p)))
      BY <1>1, <1>4, <3>1, <3>2, TreeMade
    <3>7. QED
      BY <1>3, <3>4, <3>6, <3>a
  <2>3. QED
    BY <1>9, <2>1, <2>2 DEF HandlePut
<1>10. ASSUME NEW timeoutOk \in BOOLEAN, HandleLock(r, p, timeoutOk)
       PROVE  IInv'
  BY <1>2, <1>10 DEF HandleLock
<1>11. (HandleUnlock(r, p) => IInv') /\ (HandleOptions(r, p) => IInv')
  BY <1>2 DEF HandleUnlock, HandleOptions
<1>12. QED
  BY <1>6, <1>7, <1>8, <1>9, <1>10, <1>11

(* COPY.                                                                    *)
LEMMA CopyKeeps ==
  ASSUME IInv, NEW r \in Request, NEW t \in Node, NEW dst \in Seq(Name), dst # <<>>,
         CopyFiles(r, t, dst)
  PROVE  IInv'
<1>1. IsTree(row) /\ row \in [Node -> Row]
  BY DEF IInv, IsTree
<1>a. \A s \in Nat : Answer(r, s) /\ Unchanged => IInv'
  BY Answers
<1>b. \A s \in Nat : \A new : IsTree(new) /\ Change(r, s, new) => IInv'
  BY Changes
<1> DEFINE d == FolderAt(Front(dst))
           S == IF t \in Folder THEN Below(t) ELSE {t}
           copies == {f \in [S -> {n \in Node : Missing(n)}] :
                        /\ \A m, n \in S : f[m] = f[n] => m = n
                        /\ \A m \in S : m \in Folder <=> f[m] \in Folder}
           f == CHOOSE g \in copies : TRUE
           of(n) == CHOOSE m \in S : f[m] = n
           rows == [n \in Node |->
                      IF n \notin {f[m] : m \in S} THEN row[n]
                      ELSE [parent |-> IF of(n) = t THEN d ELSE f[row[of(n)].parent],
                            name |-> row[of(n)].name]]
<1>2. CASE d = Nowhere
  <2>1. Answer(r, 500) /\ Unchanged
    BY <1>2, Zenon DEF CopyFiles
  <2> DEFINE s == 500
  <2>2. s \in Nat /\ Answer(r, s) /\ Unchanged
    BY <2>1
  <2> HIDE DEF s
  <2>3. QED
    BY <1>a, <2>2, Zenon
<1>3. CASE d # Nowhere
  <2>1. copies # {} /\ Change(r, 204, rows)
    BY <1>3, Zenon DEF CopyFiles
  <2>2. f \in copies
    BY <2>1, Zenon
  <2> HIDE DEF rows
  <2>3. /\ f \in [S -> {n \in Node : Missing(n)}]
        /\ \A m, n \in S : f[m] = f[n] => m = n
        /\ \A m \in S : m \in Folder <=> f[m] \in Folder
    BY <2>2
  <2>4. d \in Folder /\ Alive(row, d)
    <3>1. Front(dst) \in Seq(Name)
      BY FrontLast
    <3>2. QED
      BY <1>1, <1>3, <3>1, FolderAtOk
  <2>6. S \subseteq Node /\ t \in S /\ \A m \in S : m # t => row[m].parent \in S /\ row[m].parent \in Folder
    BY <1>1, Copied
  <2>7. S = IF t \in Folder THEN Below(t) ELSE {t}
    OBVIOUS
  <2> HIDE DEF f, d, S, copies, of
  <2>8. \A m \in S : of(f[m]) = m
    BY <2>3 DEF of
  <2>9. ASSUME NEW n \in Node, n \notin {f[m] : m \in S}
        PROVE  rows[n] = row[n]
    BY <2>9 DEF rows
  <2>10. ASSUME NEW m \in S
         PROVE  /\ f[m] \in Node
                /\ rows[f[m]] = [parent |-> IF m = t THEN d ELSE f[row[m].parent], name |-> row[m].name]
    <3>1. f[m] \in Node /\ f[m] \in {f[k] : k \in S} /\ of(f[m]) = m
      BY <2>3, <2>8
    <3>2. QED
      BY <3>1 DEF rows
  <2>11. ASSUME NEW m \in S
         PROVE  [parent |-> IF m = t THEN d ELSE f[row[m].parent], name |-> row[m].name] \in Row
    <3>1. row[m].name \in Name
      BY <1>1, <2>6, RowParts
    <3>2. m # t => f[row[m].parent] \in Folder
      BY <2>3, <2>6
    <3>3. QED
      BY <2>4, <3>1, <3>2 DEF Row
  <2>12. rows \in [Node -> Row]
    <3>1. ASSUME NEW n \in Node
          PROVE  rows[n] \in Row
      <4>1. CASE n \in {f[m] : m \in S}
        BY <2>10, <2>11, <4>1
      <4>2. CASE n \notin {f[m] : m \in S}
        BY <1>1, <2>9, <4>2
      <4>3. QED
        BY <4>1, <4>2
    <3>2. \E h : rows = [n \in Node |-> h[n]]
      <4>1. rows = [n \in Node |-> rows[n]]
        BY DEF rows
      <4>2. QED
        BY <4>1
    <3>3. QED
      BY <3>1, <3>2
  <2>13. \A m \in S : /\ rows[f[m]].parent = IF m = t THEN d ELSE f[row[m].parent]
                      /\ rows[f[m]].name = row[m].name
    <3>1. SUFFICES ASSUME NEW m \in S
                   PROVE  /\ rows[f[m]].parent = IF m = t THEN d ELSE f[row[m].parent]
                          /\ rows[f[m]].name = row[m].name
      OBVIOUS
    <3>2. rows[f[m]] = [parent |-> IF m = t THEN d ELSE f[row[m].parent], name |-> row[m].name]
      BY <2>10
    <3>3. QED
      BY <3>2
  <2>14. IsTree(rows)
    <3>1. \A n \in Node : n \notin {f[m] : m \in S} => rows[n] = row[n]
      BY <2>9
    <3>2. /\ IsTree(row) /\ t \in Node /\ \A m \in S : f[m] \in Node /\ Missing(f[m])
          /\ \A m, n \in S : f[m] = f[n] => m = n
          /\ \A m \in S : m \in Folder <=> f[m] \in Folder
      BY <1>1, <2>3
    <3>3. CopyOf(rows, f, S, t, d)
      <4>1. /\ S = IF t \in Folder THEN Below(t) ELSE {t}
            /\ d \in Folder /\ Alive(row, d)
        BY <2>4, <2>7
      <4>2. /\ rows \in [Node -> Row]
            /\ \A n \in Node : n \notin {f[m] : m \in S} => rows[n] = row[n]
        BY <2>12, <3>1
      <4>3. \A m \in S : /\ rows[f[m]].parent = IF m = t THEN d ELSE f[row[m].parent]
                         /\ rows[f[m]].name = row[m].name
        BY <2>13
      <4>4. /\ \A m \in S : f[m] \in Node /\ Missing(f[m])
            /\ \A m, n \in S : f[m] = f[n] => m = n
            /\ \A m \in S : m \in Folder <=> f[m] \in Folder
        BY <3>2
      <4>5. QED
        BY <4>1, <4>2, <4>3, <4>4 DEF CopyOf
    <3>4. QED
      BY <1>1, <3>3, TreeCopied
  <2> DEFINE s == 204
  <2>15. s \in Nat /\ Change(r, s, rows)
    BY <2>1
  <2> HIDE DEF s
  <2>16. QED
    BY <1>b, <2>14, <2>15, Zenon
<1>4. QED
  BY <1>2, <1>3

(* MOVE.                                                                    *)
LEMMA MoveKeeps ==
  ASSUME IInv, NEW r \in Request, NEW t \in Node, Alive(row, t), t # Root,
         NEW dst \in Seq(Name), dst # <<>>, MoveFiles(r, t, dst)
  PROVE  IInv'
<1>1. IsTree(row) /\ row \in [Node -> Row]
  BY DEF IInv, IsTree
<1> DEFINE d == FolderAt(Front(dst))
           away == IF row[t].parent # d /\ t \in Folder THEN Along(t) ELSE {}
           rows == [n \in Node |-> [parent |-> IF n \in away THEN d ELSE row[n].parent,
                                    name |-> IF n = t THEN Last(dst) ELSE row[n].name]]
<1>2. CASE d \in {Nowhere, t}
  <2>1. Answer(r, 500) /\ Unchanged
    BY <1>2 DEF MoveFiles
  <2>2. QED
    BY <2>1, Answers
<1>3. CASE d \notin {Nowhere, t}
  <2>1. (t \in Folder => d \notin Below(t)) /\ Change(r, 204, rows)
    BY <1>3 DEF MoveFiles
  <2>2. Front(dst) \in Seq(Name) /\ Last(dst) \in Name
    BY FrontLast
  <2>3. d \in Folder /\ Alive(row, d)
    BY <1>1, <1>3, <2>2, FolderAtOk
  <2>4. away \in SUBSET Node /\ away \cap Folder \subseteq {t}
    BY NodeKinds DEF Along
  <2> HIDE DEF d, away
  <2>5. ASSUME NEW n \in Node
        PROVE  [parent |-> IF n \in away THEN d ELSE row[n].parent,
                name |-> IF n = t THEN Last(dst) ELSE row[n].name] \in Row
    <3>1. row[n].parent \in Folder \cup {Nowhere} /\ row[n].name \in Name
      BY <1>1, RowParts
    <3>2. QED
      BY <2>2, <2>3, <3>1 DEF Row
  <2>6. /\ rows \in [Node -> Row]
        /\ AreIn(rows, away, d)
    BY <2>5 DEF AreIn
  <2> HIDE DEF rows
  <2>7. IsTree(rows)
    <3>1. IsTree(row) /\ t \in Node /\ t # Root /\ (t \in Folder => d \notin Below(t))
      BY <1>1, <2>1
    <3>2. QED
      BY <2>3, <2>4, <2>6, <3>1, TreeMoved, Zenon
  <2>8. QED
    BY <2>1, <2>7, Changes
<1>4. QED
  BY <1>2, <1>3

(* COPY and MOVE, and what they refuse.                                     *)
LEMMA CopiesAndMoves ==
  ASSUME IInv, NEW r \in Request, NEW p \in Seq(Name), NEW method \in {"COPY", "MOVE"},
         NEW dst \in Paths \cup {Outside}, NEW depth \in Depths \cup {InvalidDepth},
         HandleCopyMove(r, method, p, dst, depth)
  PROVE  IInv'
<1>1. IsTree(row)
  BY DEF IInv
<1>2. NodeAt(p) \in Node \cup {Nowhere} /\ (NodeAt(p) # Nowhere => Alive(row, NodeAt(p)))
  BY <1>1, NodeAtOk
<1>3. CASE \E s \in Nat : Answer(r, s) /\ Unchanged
  BY <1>3, Answers
<1>4. CASE /\ dst \notin {Outside, p} /\ NodeAt(p) # Nowhere /\ p # <<>> /\ dst # <<>> /\ NodeAt(p) # Root
           /\ CopyFiles(r, NodeAt(p), dst) \/ MoveFiles(r, NodeAt(p), dst)
  <2>1. dst \in Seq(Name)
    BY <1>4, WebdavNodes
  <2>2. NodeAt(p) \in Node /\ Alive(row, NodeAt(p))
    BY <1>2, <1>4
  <2>3. QED
    BY <1>4, <2>1, <2>2, CopyKeeps, MoveKeeps
<1>5. QED
  <2>1. CASE dst = Outside
    BY <1>3, <2>1 DEF HandleCopyMove
  <2>2. CASE dst # Outside /\ dst = p
    BY <1>3, <2>2 DEF HandleCopyMove
  <2>3. CASE dst # Outside /\ dst # p /\ NodeAt(p) = Nowhere
    BY <1>3, <2>3 DEF HandleCopyMove
  <2>4. CASE dst # Outside /\ dst # p /\ NodeAt(p) # Nowhere
    <3>1. \/ Answer(r, 400) /\ Unchanged
          \/ /\ p # <<>> /\ dst # <<>> /\ NodeAt(p) # Root
             /\ CopyFiles(r, NodeAt(p), dst) \/ MoveFiles(r, NodeAt(p), dst)
      BY <2>4 DEF HandleCopyMove
    <3>2. QED
      BY <1>3, <1>4, <2>4, <3>1
  <2>5. QED
    BY <2>1, <2>2, <2>3, <2>4

(* PROPPATCH.                                                               *)
LEMMA PatchKeeps ==
  ASSUME IInv, NEW r \in Request, NEW p \in Seq(Name), NEW patches \in Patches,
         NEW readable \in BOOLEAN, HandleProppatch(r, p, patches, readable)
  PROVE  IInv'
<1>1. IsTree(row) /\ NodeAt(p) \in Node \cup {Nowhere} /\ Unchanged /\ faults \in 0..MaxFault
  BY NodeAtOk DEF IInv, TypeOK, HandleProppatch
<1>2. CASE NodeAt(p) = Nowhere \/ ~readable
  BY <1>1, <1>2, Answers DEF HandleProppatch
<1>a. [Idle EXCEPT !.pc = "done", !.status = 207] \in ReqState
  <2> DEFINE s == 207
  <2>1. s \in Nat
    OBVIOUS
  <2> HIDE DEF s
  <2>2. [Idle EXCEPT !.pc = "done", !.status = s] \in ReqState
    BY <2>1, DoneIs, Zenon
  <2>3. QED
    BY <2>2 DEF s
<1>3. CASE NodeAt(p) # Nowhere /\ readable
  <2> DEFINE n == NodeAt(p)  stats == Patch(patches)
             e == [path |-> p, node |-> n, ok |-> stats.ok, rest |-> stats.rest]
             all == FlattenSeq(patches)  one == <<e>>
             q2 == [Idle EXCEPT !.pc = "done", !.status = 207, !.method = "PROPPATCH", !.top = n,
                                !.path = p, !.asked = all, !.answer = one,
                                !.closed = TRUE]
  <2>1. req' = [req EXCEPT ![r] = q2]
    BY <1>3 DEF HandleProppatch
  <2>2. n \in Node /\ p \in Hrefs
    BY <1>1, <1>3 DEF Hrefs
  <2>3. Idle \in ReqState
    BY IdleIs
  <2>4. /\ q2.pc = "done" /\ q2.method = "PROPPATCH" /\ q2.path = p /\ q2.depth = 0
        /\ q2.asked = FlattenSeq(patches) /\ q2.answer = <<e>>
    BY DEF Idle
  <2>5. e \in AnEntry /\ EntryOK(q2, e) /\ e.path = p
    <3>1. q2.method = "PROPPATCH" /\ q2.asked = FlattenSeq(patches)
      BY <2>4
    <3>2. e = [path |-> p, node |-> n, ok |-> Patch(patches).ok, rest |-> Patch(patches).rest]
      OBVIOUS
    <3>3. e.path = p
      OBVIOUS
    <3> HIDE DEF e, q2, n
    <3>4. e \in AnEntry /\ EntryOK(q2, e)
      BY <2>2, <3>1, <3>2, PatchIsOK
    <3>5. QED
      BY <3>3, <3>4
  <2>6. q2 \in ReqState
    <3>1. all \in Seq(Property) /\ one \in Seq(AnEntry)
      BY <2>5, WebdavBodies
    <3>2. n \in Node \cup {Nowhere} /\ p \in {Outside} \cup Seq(Name)
      BY <2>2
    <3> HIDE DEF e, n, all, one
    <3> DEFINE q0 == [Idle EXCEPT !.pc = "done", !.status = 207]
               q1 == [q0 EXCEPT !.method = "PROPPATCH", !.top = n]
               q3 == [q1 EXCEPT !.path = p, !.asked = all]
               q4 == [q3 EXCEPT !.answer = one]
    <3>a. q0 \in ReqState
      BY <1>a
    <3>3. q1 \in ReqState
      <4> HIDE DEF q0
      <4>1. QED
        BY <3>2, <3>a DEF ReqState
    <3>4. q3 \in ReqState
      <4> HIDE DEF q1
      <4>1. QED
        BY <3>1, <3>2, <3>3 DEF ReqState
    <3>5. q4 \in ReqState
      <4> HIDE DEF q3
      <4>1. QED
        BY <3>1, <3>4 DEF ReqState
    <3>6. q2 = [q4 EXCEPT !.closed = TRUE]
      OBVIOUS
    <3> HIDE DEF q4, q2
    <3>7. QED
      BY <3>5, <3>6 DEF ReqState
  <2>7. ReqInv(row, q2)
    <3> HIDE DEF q2, e
    <3>1. Entries(q2) = {1} /\ q2.answer[1] = e
      BY <2>4 DEF Entries
    <3>2. Len(p) - Len(p) = 0
      BY <2>2 DEF Hrefs
    <3>3. HrefsOnce(q2)
      BY <2>4, <2>5, <3>1, <3>2 DEF HrefsOnce
    <3>4. QED
      BY <2>4, <2>5, <3>1, <3>3 DEF ReqInv
  <2> HIDE DEF q2
  <2>8. row' = row /\ account' = account /\ faults' \in 0..MaxFault
    BY <1>1 DEF Unchanged
  <2>9. QED
    BY <2>1, <2>6, <2>7, <2>8, Alone
<1>4. QED
  BY <1>2, <1>3

(* A walk begins.                                                           *)
LEMMA WalkingBegins ==
  ASSUME NEW rows, IsTree(rows), NEW q, q.pc = "walk", q.method = "PROPFIND",
         q.top \in Node, q.path \in Hrefs, q.depth \in Depths, Acceptable(q.body), q.asked = q.body.prop,
         q.todo = <<FirstFrame(q)>>, q.answer = <<>>, q.cut = FALSE,
         q.clash = ~NamesDiffer(rows),
         q.stayed = IF q.top \in Folder THEN BelowIn(rows, q.top) ELSE {q.top}
  PROVE  ReqInv(rows, q)
<1> DEFINE f == FirstFrame(q)
<1>1. Entries(q) = {} /\ ToDos(q) = {1} /\ q.todo[1] = f
  BY DEF Entries, ToDos
<1>2. /\ f.do = "visit" /\ f.node = q.top /\ f.path = q.path /\ f.depth = q.depth
  BY DEF FirstFrame
<1>3. rows \in [Node -> Row]
  BY DEF IsTree
<1> HIDE DEF f
<1>4. Begun(q)
  BY <1>1 DEF Begun, f
<1>5. WithinDepth(q)
  <2>1. Len(q.path) \in Nat
    BY DEF Hrefs
  <2>2. q.depth # Infinite => q.depth \in {0, 1}
    BY DEF Depths
  <2>3. Len(f.path) + f.depth + (IF f.do = "files" THEN 1 ELSE 0) <= Len(q.path) + q.depth
    <3>1. q.depth \in Int
      BY DEF Depths, Infinite
    <3>2. QED
      BY <1>2, <2>1, <3>1
  <2>4. QED
    BY <1>1, <1>2, <2>2, <2>3 DEF WithinDepth
<1>6. Opened(q)
  BY <1>1, <1>2 DEF Opened
<1>7. Apart(q)
  BY <1>1 DEF Apart
<1>8. Connected(rows, q)
  <2>1. CASE q.top \in Folder
    <3>1. q.stayed = BelowIn(rows, q.top)
      BY <2>1
    <3>2. q.top \in BelowIn(rows, q.top)
      BY <1>3, <2>1, BelowSelf
    <3>3. \A n \in q.stayed : n = q.top \/ rows[n].parent \in q.stayed
      BY <1>3, <2>1, <3>1, BelowParent
    <3>4. QED
      BY <2>1, <3>1, <3>2, <3>3 DEF Connected
  <2>2. CASE q.top \notin Folder
    BY <2>2 DEF Connected
  <2>3. QED
    BY <2>1, <2>2
<1>9. NoReturn(rows, q)
  BY <1>1, <1>2 DEF NoReturn, Queues
<1>10. OnceOnly(rows, q)
  BY <1>1 DEF OnceOnly
<1>11. BelowFolder(rows, q)
  <2>1. \A n : EntriesBelow(rows, q, n)
    BY <1>1, <1>2 DEF EntriesBelow, Visits
  <2>2. \A n : QueuedBelow(rows, q, n)
    BY <1>1, <1>2 DEF QueuedBelow
  <2>3. QED
    BY <2>1, <2>2 DEF BelowFolder
<1>12. NothingLeftOut(rows, q)
  BY <1>1 DEF NothingLeftOut
<1>13. Walking(rows, q)
    <2>1. ~q.clash => NamesDiffer(rows)
    OBVIOUS
  <2>2. QED
    BY <1>4, <1>5, <1>6, <1>7, <1>8, <1>9, <1>10, <1>11, <1>12, <2>1 DEF Walking
<1>14. HrefsOnce(q)
  BY <1>1 DEF HrefsOnce
<1>15. QED
  BY <1>1, <1>13, <1>14 DEF ReqInv

(* PROPFIND, up to the start of its walk.                                   *)
LEMMA PropfindKeeps ==
  ASSUME IInv, NEW r \in Request, NEW p \in Seq(Name), NEW depth \in Depths \cup {InvalidDepth},
         NEW b \in Bodies, HandlePropfind(r, p, depth, b)
  PROVE  IInv'
<1>1. IsTree(row) /\ NodeAt(p) \in Node \cup {Nowhere} /\ Unchanged /\ faults \in 0..MaxFault
  BY NodeAtOk DEF IInv, TypeOK, HandlePropfind
<1>2. CASE NodeAt(p) = Nowhere \/ depth = InvalidDepth \/ ~Acceptable(b)
  BY <1>1, <1>2, Answers DEF HandlePropfind
<1>3. CASE NodeAt(p) # Nowhere /\ depth # InvalidDepth /\ Acceptable(b)
  <2> DEFINE top == NodeAt(p)
             f == [do |-> "visit", node |-> top, path |-> p, depth |-> depth, dirs |-> {}]
             S == IF top \in Folder THEN Below(top) ELSE {top}
             q2 == [Idle EXCEPT !.pc = "walk", !.method = "PROPFIND", !.top = top, !.path = p,
                                !.depth = depth, !.body = b, !.asked = b.prop, !.todo = <<f>>,
                                !.stayed = S, !.clash = ~NamesDiffer(row)]
  <2>1. req' = [req EXCEPT ![r] = q2]
    BY <1>3 DEF HandlePropfind
  <2>2. /\ top \in Node /\ p \in Hrefs /\ depth \in Depths /\ b.prop \in Seq(Property)
    BY <1>1, <1>3, WebdavBodies DEF Hrefs
  <2>3. Idle \in ReqState
    BY IdleIs
  <2>4. /\ q2.pc = "walk" /\ q2.method = "PROPFIND" /\ q2.top = top /\ q2.path = p /\ q2.depth = depth
        /\ q2.body = b /\ q2.asked = b.prop /\ q2.todo = <<f>> /\ q2.answer = <<>> /\ q2.cut = FALSE
        /\ q2.stayed = S /\ q2.clash = ~NamesDiffer(row)
    BY DEF Idle
  <2>5. S = IF top \in Folder THEN BelowIn(row, top) ELSE {top}
    BY BelowIs
  <2>6. S \in SUBSET Node
    <3>1. row \in [Node -> Row]
      BY <1>1 DEF IsTree
    <3> HIDE DEF S, top
    <3>2. QED
      BY <2>2, <2>5, <3>1, BelowSelf
  <2>7. q2 \in ReqState
    <3>1. <<f>> \in Seq(ToDo)
      <4>1. f \in ToDo
        BY <2>2 DEF ToDo, Hrefs
      <4> HIDE DEF f
      <4>2. QED
        BY <4>1
    <3>a. (~NamesDiffer(row)) \in BOOLEAN
      OBVIOUS
    <3> HIDE DEF f, S, top
    <3>2. QED
      BY <2>2, <2>3, <2>6, <3>1, <3>a DEF ReqState, Hrefs
  <2>8. FirstFrame(q2) = f
    <3>1. q2.top = top /\ q2.path = p /\ q2.depth = depth
      BY <2>4
    <3> HIDE DEF q2, top
    <3>2. QED
      BY <3>1 DEF FirstFrame
  <2> HIDE DEF q2, f, S, top
  <2>9. ReqInv(row, q2)
    BY <1>1, <1>3, <2>2, <2>4, <2>5, <2>8, WalkingBegins
  <2>10. row' = row /\ account' = account /\ faults' \in 0..MaxFault
    BY <1>1 DEF Unchanged
  <2>11. QED
    BY <2>1, <2>7, <2>9, <2>10, Alone
<1>4. QED
  BY <1>2, <1>3

(* A walk that ends, or cannot be written on.                               *)
LEMMA Stops ==
  ASSUME NEW rows, NEW q \in ReqState, ReqInv(rows, q), q.pc \in {"walk", "close"},
         NEW q2, q2.method = q.method, q2.top = q.top, q2.path = q.path, q2.depth = q.depth,
         q2.body = q.body, q2.asked = q.asked, q2.answer = q.answer, q2.stayed = q.stayed,
         q2.clash = q.clash,
         q2.todo = <<>>, q2.cut = TRUE \/ (q.todo = <<>> /\ q2.cut = q.cut /\ q2.short = q.short)
  PROVE  ReqInv(rows, q2)
<1>1. /\ HrefsOnce(q) /\ (\A i \in Entries(q) : EntryOK(q, q.answer[i])) /\ Walking(rows, q)
  BY DEF ReqInv
<1>2. /\ Begun(q) /\ Connected(rows, q) /\ OnceOnly(rows, q) /\ BelowFolder(rows, q)
      /\ NothingLeftOut(rows, q) /\ (~q.clash => NamesDiffer(rows))
  BY <1>1 DEF Walking
<1>3. Entries(q2) = Entries(q) /\ ToDos(q2) = {}
  BY DEF Entries, ToDos
<1>4. HrefsOnce(q2)
  BY <1>1, SameHrefsOnce
<1>5. \A i \in Entries(q2) : EntryOK(q2, q2.answer[i])
  BY <1>1, <1>3, SameEntryOK
<1>6. Begun(q2)
  <2>1. q.todo = <<>> /\ q.answer = <<>> => q.cut
    <3>1. <<FirstFrame(q)>> # <<>>
      OBVIOUS
    <3>2. QED
      BY <1>2, <3>1 DEF Begun
  <2>2. q2.answer = <<>> => q2.cut
    BY <2>1
  <2>3. QED
    BY <1>2, <2>2 DEF Begun
<1>7. WithinDepth(q2) /\ Opened(q2) /\ Apart(q2) /\ NoReturn(rows, q2)
  BY <1>3 DEF WithinDepth, Opened, Apart, NoReturn
<1>8. Connected(rows, q2)
  BY <1>2 DEF Connected
<1>9. OnceOnly(rows, q2)
  BY <1>2, <1>3 DEF OnceOnly, Listed
<1>10. BelowFolder(rows, q2)
  <2>1. \A n, path : UnderEntry(rows, q, n, path) => UnderEntry(rows, q2, n, path)
    BY <1>3 DEF UnderEntry, Listed
  <2>2. \A n : EntriesBelow(rows, q, n) => EntriesBelow(rows, q2, n)
    BY <1>3, <2>1 DEF EntriesBelow, Listed
  <2>3. \A n : QueuedBelow(rows, q2, n)
    BY <1>3 DEF QueuedBelow
  <2>4. QED
    BY <1>2, <2>2, <2>3 DEF BelowFolder
<1>11. NothingLeftOut(rows, q2)
  <2>1. CASE q2.cut = TRUE
    BY <2>1 DEF NothingLeftOut
  <2>2. CASE q.todo = <<>> /\ q2.cut = q.cut /\ q2.short = q.short
    <3>1. ToDos(q) = {}
      BY <2>2 DEF ToDos
    <3>2. \A n : InScope(rows, q2, n) <=> InScope(rows, q, n)
      BY DEF InScope
    <3>3. QED
      BY <1>2, <1>3, <2>2, <3>1, <3>2 DEF NothingLeftOut, Listed
  <2>3. QED
    BY <2>1, <2>2
<1>12. Walking(rows, q2)
  BY <1>2, <1>6, <1>7, <1>8, <1>9, <1>10, <1>11 DEF Walking
<1>13. QED
  BY <1>4, <1>5, <1>12 DEF ReqInv

(* The end of a walk, and of its answer.                                    *)
LEMMA CloseKeeps ==
  ASSUME IInv, NEW r \in Request,
         \/ Close(r)
         \/ req[r].pc = "walk" /\ req[r].todo = <<>> /\ req' = [req EXCEPT ![r].pc = "close"] /\ Unchanged
         \/ req[r].pc = "walk" /\ req[r].todo # <<>> /\ WriteFails(r)
  PROVE  IInv'
<1> DEFINE q == req[r]
<1>1. q \in ReqState /\ ReqInv(row, q) /\ req \in [Request -> ReqState] /\ faults \in 0..MaxFault
  BY DEF IInv, TypeOK
<1>2. CASE req[r].pc = "walk" /\ req[r].todo = <<>> /\ req' = [req EXCEPT ![r].pc = "close"] /\ Unchanged
  <2> DEFINE q2 == [q EXCEPT !.pc = "close"]
  <2>1. req' = [req EXCEPT ![r] = q2]
    BY <1>1, <1>2
  <2>2. row' = row /\ account' = account /\ faults' \in 0..MaxFault
    BY <1>1, <1>2 DEF Unchanged
  <2>a. q.pc = "walk" /\ q.todo = <<>>
    BY <1>2
  <2> HIDE DEF q
  <2>b. q \in ReqState
    BY <1>1
  <2>3. q2 \in ReqState
    BY <2>b, Zenon DEF ReqState
  <2>4. /\ q2.method = q.method /\ q2.top = q.top /\ q2.path = q.path /\ q2.depth = q.depth
        /\ q2.body = q.body /\ q2.asked = q.asked /\ q2.answer = q.answer /\ q2.stayed = q.stayed
        /\ q2.todo = <<>> /\ q2.cut = q.cut /\ q2.short = q.short /\ q2.clash = q.clash
    BY <1>1, <2>a DEF ReqState
  <2> HIDE DEF q2
  <2>5. ReqInv(row, q2)
    BY <1>1, <2>a, <2>4, Stops
  <2>6. QED
    BY <2>1, <2>2, <2>3, <2>5, Alone
<1>3. CASE Close(r)
  <2> DEFINE q2 == [q EXCEPT !.pc = "done", !.closed = ~q.cut]
  <2>1. req' = [req EXCEPT ![r] = q2]
    BY <1>1, <1>3 DEF Close
  <2>2. row' = row /\ account' = account /\ faults' \in 0..MaxFault /\ q.pc = "close"
    BY <1>1, <1>3 DEF Close, Unchanged
  <2> HIDE DEF q
  <2>b. q \in ReqState
    BY <1>1
  <2>3. q2 \in ReqState
    BY <2>b, Zenon DEF ReqState
  <2>4. /\ q2.pc = "done" /\ q2.method = q.method /\ q2.path = q.path /\ q2.depth = q.depth
        /\ q2.asked = q.asked /\ q2.answer = q.answer /\ q2.clash = q.clash
    BY <1>1 DEF ReqState
  <2> HIDE DEF q2
  <2>5. ReqInv(row, q2)
    <3>1. HrefsOnce(q) /\ \A i \in Entries(q) : EntryOK(q, q.answer[i])
      BY <1>1 DEF ReqInv
    <3>2. HrefsOnce(q2)
      BY <2>4, <3>1, SameHrefsOnce
    <3>3. \A i \in Entries(q2) : EntryOK(q2, q2.answer[i])
      BY <2>4, <3>1, SameEntryOK DEF Entries
    <3>4. QED
      BY <2>4, <3>2, <3>3 DEF ReqInv
  <2>6. QED
    BY <2>1, <2>2, <2>3, <2>5, Alone
<1>4. CASE req[r].pc = "walk" /\ WriteFails(r)
  <2> DEFINE q2 == [q EXCEPT !.cut = TRUE, !.status = 207, !.todo = <<>>, !.pc = "close"]
  <2>1. req' = [req EXCEPT ![r] = q2]
    BY <1>1, <1>4 DEF WriteFails
  <2>2. row' = row /\ account' = account /\ faults' \in 0..MaxFault /\ q.pc = "walk"
    <3>1. MaxFault \in Nat
      BY WebdavNodes
    <3>2. QED
      BY <1>1, <1>4, <3>1 DEF WriteFails
  <2> HIDE DEF q
  <2>3. q2 \in ReqState
    <3> DEFINE q1 == [q EXCEPT !.cut = TRUE, !.status = 207]
    <3>2. q2 = [q1 EXCEPT !.todo = <<>>, !.pc = "close"]
      OBVIOUS
    <3> HIDE DEF q2
    <3>a. q \in ReqState /\ TRUE \in BOOLEAN /\ 207 \in Nat /\ <<>> \in Seq(AnEntry)
      BY <1>1
    <3>1. q1 \in ReqState
      BY <3>a, Updated, Zenon
    <3> HIDE DEF q1
    <3>3. <<>> \in Seq(ToDo)
      OBVIOUS
    <3>4. QED
      BY <3>1, <3>2, <3>3 DEF ReqState
  <2>4. /\ q2.method = q.method /\ q2.top = q.top /\ q2.path = q.path /\ q2.depth = q.depth
        /\ q2.body = q.body /\ q2.asked = q.asked /\ q2.answer = q.answer /\ q2.stayed = q.stayed
        /\ q2.todo = <<>> /\ q2.cut = TRUE /\ q2.clash = q.clash
    BY <1>1 DEF ReqState
  <2> HIDE DEF q2
  <2>5. ReqInv(row, q2)
    BY <1>1, <2>2, <2>4, Stops
  <2>6. QED
    BY <2>1, <2>2, <2>3, <2>5, Alone
<1>5. QED
  BY <1>2, <1>3, <1>4

(* What a function makes of a finite set.                                   *)
LEMMA ImageFinite ==
  ASSUME NEW S, IsFiniteSet(S), NEW T, NEW h \in [S -> T]
  PROVE  IsFiniteSet({h[d] : d \in S})
<1> DEFINE U == {h[d] : d \in S}
<1>1. h \in [S -> U]
  OBVIOUS
<1>2. \A t \in U : \E s \in S : h[s] = t
  OBVIOUS
<1> HIDE DEF U
<1>3. h \in Surjection(S, U)
  BY <1>1, <1>2 DEF Surjection
<1>4. IsFiniteSet(U)
  BY <1>3, FS_Surjection
<1>5. QED
  BY <1>4 DEF U

(* The rows of the folders that the query of a folder gives.                *)
Rows(rows, d, dirs) == \A p \in dirs : \E c \in Folder : p = <<c, rows[c].name>> /\ rows[c].parent = d
Listing(f, dirs) == [f EXCEPT !.do = "files", !.depth = Deeper(f.depth), !.dirs = dirs]

(* A folder that was visited is to be read.                                 *)
LEMMA FolderOpened ==
  ASSUME NEW rows \in [Node -> Row], NEW f \in ToDo, f.do = "visit", f.node \in Folder, f.depth # 0,
         NEW dirs, Rows(rows, f.node, dirs)
  PROVE  LET g == Listing(f, dirs)
         IN  IsOpened(rows, f, g) /\ g.node = f.node /\ g.dirs = dirs /\ g.do = "files"
<1> DEFINE D == {<<d, rows[d].name>> : d \in Folder}
           g == Listing(f, dirs)
<1>a. \A d \in dirs : \E c \in Folder : d = <<c, rows[c].name>> /\ rows[c].parent = f.node
  BY DEF Rows
<1>b. g = [f EXCEPT !.do = "files", !.depth = Deeper(f.depth), !.dirs = dirs]
  BY DEF Listing
<1> HIDE DEF g
<1>1. IsFiniteSet(D)
  <2> DEFINE h == [d \in Folder |-> <<d, rows[d].name>>]
  <2>1. IsFiniteSet(Folder)
    BY NodeKinds
  <2>2. h \in [Folder -> D]
    OBVIOUS
  <2>3. {h[d] : d \in Folder} = D
    OBVIOUS
  <2> HIDE DEF h
  <2>4. IsFiniteSet({h[d] : d \in Folder})
    BY <2>1, <2>2, ImageFinite
  <2>5. QED
    BY <2>3, <2>4
<1>2. dirs \subseteq D
  BY <1>a
<1>3. IsFiniteSet(dirs)
  BY <1>1, <1>2, FS_Subset
<1>4. dirs \in SUBSET (Folder \X Name)
  <2>1. \A d \in Folder : rows[d].name \in Name
    BY NodeKinds, RowParts
  <2>2. QED
    BY <1>2, <2>1
<1>5. Deeper(f.depth) \in Depths
  <2>1. f.depth \in Depths
    BY FrameParts
  <2>2. QED
    BY <2>1 DEF Deeper, Depths
<1>6. \A c \in Folder, x \in Name : <<c, x>> \in dirs => rows[c].parent = f.node /\ rows[c].name = x
  BY <1>a
<1> DEFINE e == Deeper(f.depth)
<1>7. /\ g.do = "files" /\ g.node = f.node /\ g.path = f.path /\ g.depth = e /\ g.dirs = dirs
      /\ g \in ToDo
  <2> HIDE DEF e
  <2>1. g = [f EXCEPT !.do = "files", !.depth = e, !.dirs = dirs]
    BY <1>b DEF e
  <2>2. e \in Depths
    BY <1>5 DEF e
  <2>3. QED
    BY <1>4, <2>1, <2>2 DEF ToDo
<1>8. QED
  BY <1>3, <1>6, <1>7 DEF IsOpened, g

(* The step that writes an entry and reads the folders.                     *)
LEMMA VisitKeeps ==
  ASSUME IInv, NEW r \in Request, req[r].pc = "walk", req[r].todo # <<>>, Visit(r)
  PROVE  IInv'
<1> DEFINE q == req[r]  f == Head(q.todo)
           reads == f.node \in Folder /\ f.depth # 0
           e == Entry(q.body, f.node, f.path)
<1>1. /\ q \in ReqState /\ ReqInv(row, q) /\ req \in [Request -> ReqState] /\ faults \in 0..MaxFault
      /\ IsTree(row) /\ row \in [Node -> Row]
  BY DEF IInv, TypeOK, IsTree
<1>2. PICK failed \in BOOLEAN :
        /\ failed => reads /\ faults < MaxFault
        /\ faults' = IF failed THEN faults + 1 ELSE faults
        /\ req' = [req EXCEPT ![r] = [q EXCEPT
             !.answer = Append(q.answer, Entry(q.body, f.node, f.path)),
             !.status = 207,
             !.short = q.short \/ failed,
             !.todo = IF ~reads THEN Tail(q.todo)
                      ELSE << [f EXCEPT !.do = "files", !.depth = Deeper(f.depth),
                                 !.dirs = IF failed THEN {}
                                          ELSE {<<d, row[d].name>> : d \in Children(f.node) \cap Folder}] >>
                             \o Tail(q.todo)]]
  BY Zenon DEF Visit
<1> DEFINE dirs == IF failed THEN {} ELSE {<<d, row[d].name>> : d \in Children(f.node) \cap Folder}
           g == [f EXCEPT !.do = "files", !.depth = Deeper(f.depth), !.dirs = dirs]
           todo == IF ~reads THEN Tail(q.todo) ELSE <<g>> \o Tail(q.todo)
           answer == Append(q.answer, e)
           short == q.short \/ failed
           N == IF reads THEN {g} ELSE {}
           q2 == [q EXCEPT !.answer = answer, !.status = 207, !.short = short, !.todo = todo]
<1>3. req' = [req EXCEPT ![r] = q2]
  BY <1>1, <1>2
<1>4. /\ row' = row /\ account' = account /\ f.do = "visit" /\ q.pc = "walk" /\ q.todo # <<>>
  BY DEF Visit
<1>5. faults' \in 0..MaxFault
  <2>1. MaxFault \in Nat
    BY WebdavNodes
  <2>2. (failed => faults < MaxFault) /\ faults' = IF failed THEN faults + 1 ELSE faults
    BY <1>2
  <2>3. QED
    BY <1>1, <2>1, <2>2
<1>6. f = q.todo[1] /\ f \in ToDo /\ q.todo \in Seq(ToDo) /\ q.answer \in Seq(AnEntry) /\ q.short \in BOOLEAN
  <2> HIDE DEF q
  <2>1. q.todo[1] \in ToDo /\ q.todo \in Seq(ToDo) /\ q.answer \in Seq(AnEntry) /\ q.short \in BOOLEAN
    BY <1>1, <1>4, FirstToDo, WalkParts
  <2>2. QED
    BY <1>4, <2>1
<1>7. f.node \in Node /\ f.path \in Hrefs
  <2> HIDE DEF f
  <2>1. QED
    BY <1>6, FrameParts
<1>8. Begun(q)
  <2> HIDE DEF q
  <2>1. QED
    BY <1>1, <1>4 DEF ReqInv, Walking
<1>9. e \in AnEntry /\ EntryOK(q, e) /\ e.path = f.path /\ e.node = f.node
  <2>1. q.method = "PROPFIND" /\ q.body \in Bodies /\ Acceptable(q.body) /\ q.asked = q.body.prop
    BY <1>1, <1>8, WalkParts DEF Begun
  <2> HIDE DEF q, f
  <2>2. QED
    BY <1>7, <2>1, EntryIsOK
<1>10. reads => IsOpened(row, f, g) /\ g.node = f.node /\ g.dirs = dirs /\ g.do = "files"
  <2>1. SUFFICES ASSUME reads
                 PROVE  IsOpened(row, f, g) /\ g.node = f.node /\ g.dirs = dirs /\ g.do = "files"
    OBVIOUS
  <2>2. Rows(row, f.node, dirs)
    BY DEF Children, Rows
  <2>3. f.node \in Folder /\ f.depth # 0 /\ f.do = "visit" /\ f \in ToDo /\ row \in [Node -> Row]
    BY <1>1, <1>4, <1>6, <2>1
  <2>4. g = Listing(f, dirs)
    BY DEF Listing
  <2> HIDE DEF dirs, f, g
  <2>5. LET h == Listing(f, dirs)
        IN  IsOpened(row, f, h) /\ h.node = f.node /\ h.dirs = dirs /\ h.do = "files"
    BY <2>2, <2>3, FolderOpened
  <2>6. QED
    BY <2>4, <2>5
<1>11. todo \in Seq(ToDo) /\ Replaces(todo, q.todo, N)
  <2>1. CASE reads
    <3>1. g \in ToDo
      BY <1>10, <2>1 DEF IsOpened
    <3>2. N = {g} /\ todo = <<g>> \o Tail(q.todo)
      BY <2>1
    <3> HIDE DEF g, N, todo, q
    <3>3. QED
      BY <1>4, <1>6, <3>1, <3>2, ReplacedByOne
  <2>2. CASE ~reads
    <3>1. N = {} /\ todo = Tail(q.todo)
      BY <2>2
    <3>2. q.todo \in Seq(ToDo) /\ q.todo # <<>>
      BY <1>4, <1>6
    <3> HIDE DEF N, todo, q
    <3>3. QED
      BY <3>1, <3>2, ReplacedByNone, Zenon
  <2>3. QED
    BY <2>1, <2>2
<1>12. /\ answer \in Seq(AnEntry) /\ Len(answer) = Len(q.answer) + 1 /\ Len(q.answer) \in Nat
       /\ \A i \in 1..Len(q.answer) : answer[i] = q.answer[i]
       /\ answer[Len(q.answer) + 1] = e
  <2> DEFINE a == q.answer
  <2>1. a \in Seq(AnEntry) /\ e \in AnEntry
    BY <1>6, <1>9
  <2> HIDE DEF a, e
  <2>2. /\ Append(a, e) \in Seq(AnEntry) /\ Len(Append(a, e)) = Len(a) + 1 /\ Len(a) \in Nat
        /\ \A i \in 1..Len(a) : Append(a, e)[i] = a[i]
        /\ Append(a, e)[Len(a) + 1] = e
    BY <2>1, AppendProperties
  <2>3. QED
    BY <2>2 DEF a
<1>13. /\ q2 \in ReqState /\ q2.answer = answer /\ q2.short = short /\ q2.todo = todo
       /\ q2.pc = q.pc /\ q2.method = q.method /\ q2.top = q.top /\ q2.path = q.path
       /\ q2.depth = q.depth /\ q2.body = q.body /\ q2.asked = q.asked /\ q2.cut = q.cut
       /\ q2.stayed = q.stayed /\ q2.clash = q.clash
  <2>1. short \in BOOLEAN
    BY <1>6
  <2> DEFINE q1 == [q EXCEPT !.answer = answer, !.status = 207]
  <2> HIDE DEF q, answer, short, todo
  <2>3. q2 = [q1 EXCEPT !.short = short, !.todo = todo]
    OBVIOUS
  <2> HIDE DEF q2
  <2>b. q \in ReqState /\ answer \in Seq(AnEntry) /\ 207 \in Nat /\ TRUE \in BOOLEAN
    BY <1>1, <1>12
  <2>a. q1 \in ReqState
    BY <2>b, Updated, Zenon
  <2>2. /\ q1.answer = answer /\ q1.pc = q.pc /\ q1.method = q.method /\ q1.top = q.top
        /\ q1.path = q.path /\ q1.depth = q.depth /\ q1.body = q.body /\ q1.asked = q.asked
        /\ q1.cut = q.cut /\ q1.stayed = q.stayed /\ q1.clash = q.clash
    BY <1>1 DEF ReqState
  <2> HIDE DEF q1
  <2>4. /\ q2 \in ReqState /\ q2.answer = q1.answer /\ q2.short = short /\ q2.todo = todo
        /\ q2.pc = q1.pc /\ q2.method = q1.method /\ q2.top = q1.top /\ q2.path = q1.path
        /\ q2.depth = q1.depth /\ q2.body = q1.body /\ q2.asked = q1.asked /\ q2.cut = q1.cut
        /\ q2.stayed = q1.stayed /\ q2.clash = q1.clash
    BY <1>11, <2>a, <2>1, <2>3 DEF ReqState
  <2>5. QED
    BY <2>2, <2>4
<1>14. Entries(q) = 1..Len(q.answer) /\ Entries(q2) = 1..(Len(q.answer) + 1)
  BY <1>12, <1>13 DEF Entries
<1> HIDE DEF q2, answer, e
<1>15. /\ \A i \in Entries(q) : i \in Entries(q2) /\ q2.answer[i] = q.answer[i]
       /\ \A i \in Entries(q2) \ Entries(q) : i = Len(q.answer) + 1 /\ q2.answer[i] = e
       /\ Len(q.answer) + 1 \in Entries(q2) /\ q2.answer[Len(q.answer) + 1] = e
  <2> DEFINE m == Len(q.answer)
  <2>1. q2.answer = answer /\ m \in Nat
    BY <1>12, <1>13
  <2>2. /\ \A i \in 1..m : answer[i] = q.answer[i]
        /\ answer[m + 1] = e
        /\ Entries(q) = 1..m /\ Entries(q2) = 1..(m + 1)
    BY <1>12, <1>14
  <2> HIDE DEF m
  <2>3. 1..m \subseteq 1..(m + 1) /\ m + 1 \in 1..(m + 1) /\ \A i \in 1..(m + 1) : i \notin 1..m => i = m + 1
    BY <2>1
  <2>4. QED
    BY <2>1, <2>2, <2>3 DEF m
<1>16. \A h \in N : IsOpened(row, f, h) /\ \A k \in N : h = k
  BY <1>10
<1> HIDE DEF q, f, N, todo, g, dirs
<1>17. Advances(row, q, q2, f, N)
  <2>1. /\ q.todo # <<>> /\ f = q.todo[1] /\ Replaces(q2.todo, q.todo, N)
        /\ \A h \in N : IsOpened(row, f, h) /\ \A k \in N : h = k
    BY <1>4, <1>6, <1>11, <1>13, <1>16
  <2>2. /\ q.pc = "walk" /\ q2.pc = "walk" /\ q2.method = q.method /\ q2.top = q.top /\ q2.path = q.path
        /\ q2.depth = q.depth /\ q2.body = q.body /\ q2.asked = q.asked /\ q2.cut = q.cut
        /\ q2.stayed = q.stayed /\ q2.clash = q.clash /\ q2 \in ReqState
    BY <1>4, <1>13
  <2>3. /\ \A i \in Entries(q) : i \in Entries(q2) /\ q2.answer[i] = q.answer[i]
        /\ \A i \in Entries(q2) \ Entries(q) :
             f.do = "visit" /\ q2.answer[i].path = f.path /\ q2.answer[i].node = f.node
        /\ \A i, j \in Entries(q2) \ Entries(q) : i = j
        /\ f.do = "visit" => \E i \in Entries(q2) : q2.answer[i].path = f.path /\ q2.answer[i].node = f.node
    BY <1>4, <1>9, <1>15
  <2>4. QED
    BY <2>1, <2>2, <2>3 DEF Advances
<1>18. Complete(row, q, q2, f, N)
  <2>1. SUFFICES ASSUME ~q2.short, f.node \in Folder /\ f.depth # 0
                 PROVE  \E h \in N : \A n \in Node : row[n].parent = f.node => Holds(row, h, n)
    <3>1. ~q2.short => ~q.short
      BY <1>13
    <3>2. QED
      BY <1>4, <3>1 DEF Complete
  <2>2. ~failed /\ reads
    BY <1>13, <2>1
  <2>3. g \in N /\ g.node = f.node /\ g.do = "files" /\ g.dirs = dirs
    BY <1>10, <2>2 DEF N
  <2>4. dirs = {<<d, row[d].name>> : d \in Children(f.node) \cap Folder}
    BY <2>2 DEF dirs
  <2>5. ASSUME NEW n \in Node, row[n].parent = f.node
        PROVE  Holds(row, g, n)
    <3>1. CASE n \in Folder
      <4>1. <<n, row[n].name>> \in dirs
        BY <2>4, <2>5, <3>1 DEF Children
      <4>2. row[n].name \in Name
        BY <1>1, RowParts
      <4>3. QED
        BY <2>3, <4>1, <4>2 DEF Holds, Queues
    <3>2. CASE n \in File
      BY <2>3, <2>5, <3>2 DEF Holds, Reads
    <3>3. QED
      BY <3>1, <3>2 DEF Node
  <2>6. QED
    BY <2>3, <2>5
<1>19. \A i \in Entries(q2) \ Entries(q) : EntryOK(q, q2.answer[i])
  BY <1>9, <1>15
<1>20. ReqInv(row, q2)
  BY <1>1, <1>17, <1>18, <1>19, ReqInvAdvanced
<1>21. q2 \in ReqState
  BY <1>13
<1>22. QED
  BY <1>3, <1>4, <1>5, <1>20, <1>21, Alone

(* What is read of a folder.                                                *)
Visiting(f, S) == {Frame(p[1], p[2], f.path, f.depth) : p \in S}

Gives(rows, f, n, x) ==
  \/ n \in File /\ rows[n].parent = f.node /\ rows[n].name = x
  \/ n \in Folder /\ <<n, x>> \in f.dirs

(* A file, or a folder of the list, is visited under its name.              *)
LEMMA FrameRead ==
  ASSUME NEW rows, NEW f \in ToDo, f.do = "files", NEW n \in Node, NEW x \in Name, Gives(rows, f, n, x)
  PROVE  LET g == Frame(n, x, f.path, f.depth)
         IN  IsRead(rows, f, g) /\ g.node = n /\ g.do = "visit"
<1> DEFINE g == Frame(n, x, f.path, f.depth)
<1>1. f.path \in Seq(Name) /\ f.depth \in Depths
  BY FrameParts DEF Hrefs
<1>2. Append(f.path, x) \in Seq(Name)
  BY <1>1, AppendProperties
<1>3. g.node = n /\ g.do = "visit"
  BY DEF Frame
<1>4. g \in ToDo
  BY <1>1, <1>2 DEF Frame, ToDo
<1>5. g = Frame(g.node, x, f.path, f.depth)
  BY <1>3
<1> HIDE DEF g
<1>6. IsRead(rows, f, g)
  BY <1>3, <1>4, <1>5 DEF IsRead, Gives
<1>7. QED
  BY <1>3, <1>6 DEF g

(* There are finitely many visits.                                          *)
LEMMA VisitingFinite ==
  ASSUME NEW f, NEW S, IsFiniteSet(S)
  PROVE  IsFiniteSet(Visiting(f, S))
<1> DEFINE h == [p \in S |-> Frame(p[1], p[2], f.path, f.depth)]
<1>1. h \in [S -> Visiting(f, S)]
  BY DEF Visiting
<1>2. {h[p] : p \in S} = Visiting(f, S)
  BY DEF Visiting
<1> HIDE DEF h
<1>3. IsFiniteSet({h[p] : p \in S})
  BY <1>1, ImageFinite
<1>4. QED
  BY <1>2, <1>3

(* The files that a query gives: all of them, or none if it fails.          *)
FilesIn(rows, d) == {<<n, rows[n].name>> : n \in {m \in Node : rows[m].parent = d} \cap File}

(* The files of a folder are to be visited.                                 *)
LEMMA FilesRead ==
  ASSUME NEW rows \in [Node -> Row], NEW f \in ToDo, f.do = "files",
         NEW S, S \subseteq FilesIn(rows, f.node)
  PROVE  /\ IsFiniteSet(Visiting(f, S))
         /\ \A g \in Visiting(f, S) : IsRead(rows, f, g) /\ g.node \in File /\ g.node \notin Folder
<1> DEFINE D == {<<n, rows[n].name>> : n \in File}
<1>1. IsFiniteSet(D)
  <2> DEFINE h == [n \in File |-> <<n, rows[n].name>>]
  <2>1. IsFiniteSet(File)
    BY NodeKinds
  <2>2. h \in [File -> D]
    OBVIOUS
  <2>3. {h[n] : n \in File} = D
    OBVIOUS
  <2> HIDE DEF h, D
  <2>4. IsFiniteSet({h[n] : n \in File})
    BY <2>1, <2>2, ImageFinite
  <2>5. QED
    BY <2>3, <2>4
<1>2. S \subseteq D
  BY DEF FilesIn
<1>3. IsFiniteSet(S)
  BY <1>1, <1>2, FS_Subset
<1>4. ASSUME NEW g \in Visiting(f, S)
      PROVE  IsRead(rows, f, g) /\ g.node \in File /\ g.node \notin Folder
  <2>1. PICK p \in S : g = Frame(p[1], p[2], f.path, f.depth)
    BY DEF Visiting
  <2>2. PICK n \in File : p = <<n, rows[n].name>> /\ rows[n].parent = f.node
    BY DEF FilesIn
  <2>3. n \in Node /\ rows[n].name \in Name /\ n \notin Folder
    BY NodeKinds, RowParts
  <2>4. g = Frame(n, rows[n].name, f.path, f.depth)
    BY <2>1, <2>2
  <2> DEFINE x == rows[n].name
  <2>5. /\ f \in ToDo /\ f.do = "files" /\ n \in Node /\ x \in Name
        /\ Gives(rows, f, n, x)
    BY <2>2, <2>3 DEF Gives
  <2> HIDE DEF x
  <2>6. IsRead(rows, f, Frame(n, x, f.path, f.depth)) /\ Frame(n, x, f.path, f.depth).node = n
    BY <2>5, FrameRead
  <2>7. QED
    BY <2>3, <2>4, <2>6 DEF x
<1>5. QED
  BY <1>3, <1>4, VisitingFinite

(* And so are its folders.                                                  *)
LEMMA FoldersRead ==
  ASSUME NEW rows, NEW f \in ToDo, f.do = "files", IsFiniteSet(f.dirs)
  PROVE  /\ IsFiniteSet(Visiting(f, f.dirs))
         /\ \A g \in Visiting(f, f.dirs) : IsRead(rows, f, g) /\ g.node \in Folder
<1>4. ASSUME NEW g \in Visiting(f, f.dirs)
      PROVE  IsRead(rows, f, g) /\ g.node \in Folder
  <2>1. PICK p \in f.dirs : g = Frame(p[1], p[2], f.path, f.depth)
    BY DEF Visiting
  <2>2. p \in Folder \X Name
    BY FrameParts
  <2>3. PICK n \in Folder, x \in Name : p = <<n, x>>
    BY <2>2
  <2>4. g = Frame(n, x, f.path, f.depth) /\ Gives(rows, f, n, x) /\ n \in Node
    BY <2>1, <2>3, NodeKinds DEF Gives
  <2>5. QED
    BY <2>4, FrameRead
<1>5. QED
  BY <1>4, VisitingFinite

(* The step that reads the files.                                           *)
LEMMA ReadKeeps ==
  ASSUME IInv, NEW r \in Request, req[r].pc = "walk", req[r].todo # <<>>, ReadFiles(r)
  PROVE  IInv'
<1> DEFINE q == req[r]  f == Head(q.todo)
<1>1. /\ q \in ReqState /\ ReqInv(row, q) /\ req \in [Request -> ReqState] /\ faults \in 0..MaxFault
      /\ IsTree(row) /\ row \in [Node -> Row]
  BY DEF IInv, TypeOK, IsTree
<1>2. PICK failed \in BOOLEAN :
        /\ failed => faults < MaxFault
        /\ faults' = IF failed THEN faults + 1 ELSE faults
        /\ LET files == IF failed THEN {} ELSE {<<n, row[n].name>> : n \in Children(f.node) \cap File}
               visits(S) == {Frame(p[1], p[2], f.path, f.depth) : p \in S}
           IN  req' = [req EXCEPT ![r] = [q EXCEPT
                 !.short = q.short \/ failed,
                 !.todo = SetToSeq(visits(files)) \o SetToSeq(visits(f.dirs)) \o Tail(q.todo)]]
  BY Zenon DEF ReadFiles
<1> DEFINE files == IF failed THEN {} ELSE FilesIn(row, f.node)
           A == Visiting(f, files)
           B == Visiting(f, f.dirs)
           N == A \cup B
           todo == SetToSeq(A) \o SetToSeq(B) \o Tail(q.todo)
           short == q.short \/ failed
           q2 == [q EXCEPT !.short = short, !.todo = todo]
<1>3. req' = [req EXCEPT ![r] = q2]
  BY <1>2 DEF Visiting, FilesIn, Children
<1>4. /\ row' = row /\ account' = account /\ f.do = "files" /\ q.pc = "walk" /\ q.todo # <<>>
  BY DEF ReadFiles
<1>5. faults' \in 0..MaxFault
  <2>1. MaxFault \in Nat
    BY WebdavNodes
  <2>2. (failed => faults < MaxFault) /\ faults' = IF failed THEN faults + 1 ELSE faults
    BY <1>2
  <2>3. QED
    BY <1>1, <2>1, <2>2
<1>6. /\ f = q.todo[1] /\ f \in ToDo /\ q.todo \in Seq(ToDo) /\ q.answer \in Seq(AnEntry) /\ q.short \in BOOLEAN
      /\ 1 \in ToDos(q)
  <2> HIDE DEF q
  <2>1. /\ q.todo[1] \in ToDo /\ q.todo \in Seq(ToDo) /\ q.answer \in Seq(AnEntry) /\ q.short \in BOOLEAN
        /\ 1 \in ToDos(q)
    BY <1>1, <1>4, FirstToDo, WalkParts
  <2>2. QED
    BY <1>4, <2>1
<1>7. IsFiniteSet(f.dirs)
  <2> HIDE DEF q
  <2>1. Opened(q)
    BY <1>1, <1>4 DEF ReqInv, Walking
  <2> HIDE DEF f
  <2>2. QED
    BY <1>4, <1>6, <2>1 DEF Opened
<1>8. /\ IsFiniteSet(A) /\ \A g \in A : IsRead(row, f, g) /\ g.node \in File /\ g.node \notin Folder
      /\ IsFiniteSet(B) /\ \A g \in B : IsRead(row, f, g) /\ g.node \in Folder
  <2>1. files \subseteq FilesIn(row, f.node)
    OBVIOUS
  <2> HIDE DEF f, files
  <2>2. IsFiniteSet(A) /\ \A g \in A : IsRead(row, f, g) /\ g.node \in File /\ g.node \notin Folder
    BY <1>1, <1>4, <1>6, <2>1, FilesRead
  <2>3. IsFiniteSet(B) /\ \A g \in B : IsRead(row, f, g) /\ g.node \in Folder
    BY <1>4, <1>6, <1>7, FoldersRead
  <2>4. QED
    BY <2>2, <2>3
<1>9. A \in SUBSET ToDo /\ B \in SUBSET ToDo /\ A \cap B = {}
  <2> HIDE DEF A, B, f
  <2>1. QED
    BY <1>8 DEF IsRead
<1>10. \A g \in N : IsRead(row, f, g)
  <2> HIDE DEF A, B, f
  <2>1. QED
    BY <1>8
<1>11. todo \in Seq(ToDo) /\ Replaces(todo, q.todo, N)
  <2> HIDE DEF A, B, q
  <2>1. QED
    BY <1>4, <1>6, <1>8, <1>9, ReplacedByTwo
<1>12. /\ q2 \in ReqState /\ q2.answer = q.answer /\ q2.short = short /\ q2.todo = todo
       /\ q2.pc = q.pc /\ q2.method = q.method /\ q2.top = q.top /\ q2.path = q.path
       /\ q2.depth = q.depth /\ q2.body = q.body /\ q2.asked = q.asked /\ q2.cut = q.cut
       /\ q2.stayed = q.stayed /\ q2.clash = q.clash
  <2>1. short \in BOOLEAN
    BY <1>6
  <2>2. q \in ReqState /\ todo \in Seq(ToDo)
    BY <1>1, <1>11
  <2>a. q \in ReqState
    BY <1>1
  <2> HIDE DEF q, short, todo
  <2>3. q2 \in ReqState
    BY <2>1, <2>2, Zenon DEF ReqState
  <2>4. /\ q2.answer = q.answer /\ q2.short = short /\ q2.todo = todo
        /\ q2.pc = q.pc /\ q2.method = q.method /\ q2.top = q.top /\ q2.path = q.path
        /\ q2.depth = q.depth /\ q2.body = q.body /\ q2.asked = q.asked /\ q2.cut = q.cut
        /\ q2.stayed = q.stayed /\ q2.clash = q.clash
    BY <2>a, SMT DEF ReqState
  <2>5. QED
    BY <2>3, <2>4
<1>13. Entries(q2) = Entries(q)
  BY <1>12, Zenon DEF Entries
<1> HIDE DEF q2
<1>14. ASSUME NEW n \in Node, Holds(row, f, n), ~q2.short
       PROVE  \E g \in N : Visits(g, n)
  <2>1. ~failed
    BY <1>12, <1>14
  <2>2. CASE Queues(f, n)
    <3>1. PICK x \in Name : <<n, x>> \in f.dirs
      BY <2>2 DEF Queues
    <3>2. f.dirs \in SUBSET (Folder \X Name)
      <4> HIDE DEF f
      <4>1. QED
        BY <1>6, FrameParts
    <3>3. n \in Folder
      BY <3>1, <3>2
    <3>4. Frame(n, x, f.path, f.depth) \in N
      BY <3>1 DEF Visiting
    <3> HIDE DEF f, N
    <3>5. Visits(Frame(n, x, f.path, f.depth), n)
      BY DEF Visits, Frame
    <3>6. QED
      BY <3>4, <3>5
  <2>3. CASE n \in File /\ Reads(f, row[n].parent)
    <3>1. row[n].parent = f.node
      BY <2>3 DEF Reads
    <3>2. <<n, row[n].name>> \in files
      BY <2>1, <2>3, <3>1 DEF FilesIn
    <3>3. Frame(n, row[n].name, f.path, f.depth) \in N
      BY <3>2 DEF Visiting
    <3> HIDE DEF f, N
    <3>4. Visits(Frame(n, row[n].name, f.path, f.depth), n)
      BY DEF Visits, Frame
    <3>5. QED
      BY <3>3, <3>4
  <2>4. ~Visits(f, n)
    BY <1>4 DEF Visits
  <2>5. Visits(f, n) \/ Queues(f, n) \/ (n \in File /\ Reads(f, row[n].parent))
    BY <1>14, Zenon DEF Holds
  <2>6. QED
    BY <2>2, <2>3, <2>4, <2>5
<1> HIDE DEF q, f, N, A, B, todo
<1>15. Advances(row, q, q2, f, N)
  <2>1. /\ q.todo # <<>> /\ f = q.todo[1] /\ Replaces(q2.todo, q.todo, N)
        /\ \A g \in N : IsRead(row, f, g)
    BY <1>4, <1>6, <1>10, <1>11, <1>12
  <2>2. /\ q.pc = "walk" /\ q2.pc = "walk" /\ q2.method = q.method /\ q2.top = q.top /\ q2.path = q.path
        /\ q2.depth = q.depth /\ q2.body = q.body /\ q2.asked = q.asked /\ q2.cut = q.cut
        /\ q2.stayed = q.stayed /\ q2.clash = q.clash /\ q2 \in ReqState
    BY <1>4, <1>12
  <2>3. /\ \A i \in Entries(q) : i \in Entries(q2) /\ q2.answer[i] = q.answer[i]
        /\ \A i \in Entries(q2) \ Entries(q) :
             f.do = "visit" /\ q2.answer[i].path = f.path /\ q2.answer[i].node = f.node
        /\ \A i, j \in Entries(q2) \ Entries(q) : i = j
        /\ f.do # "visit"
    BY <1>4, <1>12, <1>13
  <2>4. QED
    BY <2>1, <2>2, <2>3 DEF Advances
<1>16. Complete(row, q, q2, f, N)
  <2>1. ~q2.short => ~q.short
    BY <1>12
  <2>2. QED
    BY <1>4, <1>14, <2>1 DEF Complete
<1>17. \A i \in Entries(q2) \ Entries(q) : EntryOK(q, q2.answer[i])
  BY <1>13
<1>18. ReqInv(row, q2)
  BY <1>1, <1>15, <1>16, <1>17, ReqInvAdvanced
<1>19. q2 \in ReqState
  BY <1>12
<1>20. QED
  BY <1>3, <1>4, <1>5, <1>18, <1>19, Alone, Zenon

-----------------------------------------------------------------------------
(* The invariant holds.                                                     *)

(* Any step of a walk.                                                      *)
LEMMA WalkKeeps ==
  ASSUME IInv, NEW r \in Request, Walk(r) \/ Close(r)
  PROVE  IInv'
<1>1. CASE Close(r)
  BY <1>1, CloseKeeps
<1>2. CASE Walk(r) /\ req[r].todo = <<>>
  <2>1. req[r].pc = "walk" /\ req' = [req EXCEPT ![r].pc = "close"] /\ Unchanged
    BY <1>2 DEF Walk
  <2>2. QED
    BY <1>2, <2>1, CloseKeeps
<1>3. CASE Walk(r) /\ req[r].todo # <<>>
  <2>1. req[r].pc = "walk" /\ (Visit(r) \/ WriteFails(r) \/ ReadFiles(r))
    BY <1>3 DEF Walk
  <2>2. CASE Visit(r)
    BY <1>3, <2>1, <2>2, VisitKeeps
  <2>3. CASE WriteFails(r)
    BY <1>3, <2>1, <2>3, CloseKeeps
  <2>4. CASE ReadFiles(r)
    BY <1>3, <2>1, <2>4, ReadKeeps
  <2>5. QED
    BY <2>1, <2>2, <2>3, <2>4
<1>4. QED
  BY <1>1, <1>2, <1>3

(* Any method.                                                              *)
LEMMA ServeKeeps ==
  ASSUME IInv, NEW r \in Request, NEW p \in Paths \cup {Outside}, ServeHTTP(r, p)
  PROVE  IInv'
<1>1. p \in Seq(Name)
  BY WebdavNodes DEF ServeHTTP
<1>2. \/ HandleGetHeadPost(r, p)
      \/ HandleDelete(r, p)
      \/ HandlePut(r, p)
      \/ \E hasBody \in BOOLEAN : HandleMkcol(r, p, hasBody)
      \/ \E method \in {"COPY", "MOVE"}, dst \in Paths \cup {Outside}, depth \in Depths \cup {InvalidDepth} :
           HandleCopyMove(r, method, p, dst, depth)
      \/ \E timeoutOk \in BOOLEAN : HandleLock(r, p, timeoutOk)
      \/ HandleUnlock(r, p)
      \/ \E depth \in Depths \cup {InvalidDepth}, b \in Bodies : HandlePropfind(r, p, depth, b)
      \/ \E patches \in Patches, readable \in BOOLEAN : HandleProppatch(r, p, patches, readable)
  BY DEF ServeHTTP
<1>3. CASE HandleGetHeadPost(r, p) \/ HandleDelete(r, p) \/ HandlePut(r, p) \/ HandleUnlock(r, p)
  BY <1>1, <1>3, Methods
<1>4. CASE \E hasBody \in BOOLEAN : HandleMkcol(r, p, hasBody)
  BY <1>1, <1>4, Methods
<1>5. CASE \E timeoutOk \in BOOLEAN : HandleLock(r, p, timeoutOk)
  BY <1>1, <1>5, Methods
<1>6. ASSUME NEW method \in {"COPY", "MOVE"}, NEW dst \in Paths \cup {Outside},
             NEW depth \in Depths \cup {InvalidDepth}, HandleCopyMove(r, method, p, dst, depth)
      PROVE  IInv'
  BY <1>1, <1>6, CopiesAndMoves
<1>7. ASSUME NEW depth \in Depths \cup {InvalidDepth}, NEW b \in Bodies, HandlePropfind(r, p, depth, b)
      PROVE  IInv'
  BY <1>1, <1>7, PropfindKeeps
<1>8. ASSUME NEW patches \in Patches, NEW readable \in BOOLEAN, HandleProppatch(r, p, patches, readable)
      PROVE  IInv'
  BY <1>1, <1>8, PatchKeeps
<1>9. QED
  BY <1>2, <1>3, <1>4, <1>5, <1>6, <1>7, <1>8

(* What is answered without the handlers, and deletions elsewhere.          *)
LEMMA AccessKeeps ==
  ASSUME IInv, NEW r \in Request,
         \/ Unauthorized(r) \/ Unsupported(r) \/ \E d \in Folder : DeleteElsewhere(r, d)
         \/ \E p \in Paths \cup {Outside} : Mismatch(r, p)
         \/ \E p \in Paths : HandleOptions(r, p)
  PROVE  IInv'
<1>1. CASE Unauthorized(r) \/ Unsupported(r) \/ \E p \in Paths \cup {Outside} : Mismatch(r, p)
  <2>1. \E s \in Nat : Answer(r, s) /\ Unchanged
    BY <1>1 DEF Unauthorized, Unsupported, Mismatch
  <2>2. QED
    BY <2>1, Answers
<1>2. CASE \E d \in Folder : DeleteElsewhere(r, d)
  <2>1. PICK d \in Folder : Change(r, 200, Removed(d))
    BY <1>2 DEF DeleteElsewhere
  <2>2. d \in Node /\ IsTree(row)
    BY NodeKinds DEF IInv
  <2>3. IsTree(Removed(d))
    BY <2>2, TreeRemoved
  <2>4. QED
    BY <2>1, <2>3, Changes
<1>3. CASE \E p \in Paths : HandleOptions(r, p)
  BY <1>3, Methods, WebdavNodes
<1>4. QED
  BY <1>1, <1>2, <1>3

(* What may be left over when nothing that a request has changes.           *)
LEMMA InvKept ==
  ASSUME IInv, row' = row, req' = req, faults' = faults, account' \in BOOLEAN
  PROVE  IInv'
<1>1. TypeOK /\ IsTree(row) /\ \A r \in Request : ReqInv(row, req[r])
  BY DEF IInv
<1>2. TypeOK'
  BY <1>1 DEF TypeOK
<1>3. \A r \in Request : ReqInv(row', req'[r])
  BY <1>1
<1>4. IsTree(row')
  BY <1>1
<1>5. QED
  BY <1>2, <1>3, <1>4 DEF IInv

(* It holds at the start.                                                   *)
LEMMA InvInit == Init => IInv
<1>1. SUFFICES ASSUME Init PROVE IInv
  OBVIOUS
<1>a. row = OldRow /\ account = TRUE /\ req = [r \in Request |-> Idle] /\ faults = 0
  BY <1>1, Zenon DEF Init
<1>2. IsTree(row) /\ account \in BOOLEAN /\ faults = 0
  BY <1>a, OldTree
<1>3. faults \in 0..MaxFault
  BY <1>2, WebdavNodes
<1>4. Idle \in ReqState /\ ReqInv(row, Idle)
  BY IdleIs
<1>5. req \in [Request -> ReqState] /\ \A r \in Request : req[r] = Idle
  BY <1>4, <1>a
<1>6. TypeOK
  BY <1>2, <1>3, <1>5 DEF TypeOK, IsTree
<1>7. QED
  BY <1>2, <1>4, <1>5, <1>6 DEF IInv

(* And every step keeps it.                                                 *)
LEMMA InvNext == IInv /\ [Next]_vars => IInv'
<1>1. SUFFICES ASSUME IInv, [Next]_vars PROVE IInv'
  OBVIOUS
<1>2. account \in BOOLEAN
  BY <1>1 DEF IInv, TypeOK
<1>3. CASE UNCHANGED vars
  BY <1>1, <1>2, <1>3, InvKept DEF vars
<1>4. CASE DeleteAccount
  BY <1>1, <1>4, InvKept DEF DeleteAccount
<1>5. ASSUME NEW r \in Request, Walk(r) \/ Close(r)
      PROVE  IInv'
  BY <1>1, <1>5, WalkKeeps
<1>6. ASSUME NEW r \in Request,
             \/ Unauthorized(r) \/ Unsupported(r) \/ \E d \in Folder : DeleteElsewhere(r, d)
             \/ \E p \in Paths \cup {Outside} : Mismatch(r, p) \/ ServeHTTP(r, p)
             \/ \E p \in Paths : HandleOptions(r, p)
      PROVE  IInv'
  <2>1. CASE \E p \in Paths \cup {Outside} : ServeHTTP(r, p)
    BY <1>1, <2>1, ServeKeeps
  <2>2. CASE \/ Unauthorized(r) \/ Unsupported(r) \/ \E d \in Folder : DeleteElsewhere(r, d)
             \/ \E p \in Paths \cup {Outside} : Mismatch(r, p)
             \/ \E p \in Paths : HandleOptions(r, p)
    BY <1>1, <2>2, AccessKeeps
  <2>3. QED
    BY <1>6, <2>1, <2>2
<1>7. Next =>
        \/ DeleteAccount
        \/ \E r \in Request : Walk(r) \/ Close(r)
        \/ \E r \in Request :
             \/ Unauthorized(r) \/ Unsupported(r) \/ \E d \in Folder : DeleteElsewhere(r, d)
             \/ \E p \in Paths \cup {Outside} : Mismatch(r, p) \/ ServeHTTP(r, p)
             \/ \E p \in Paths : HandleOptions(r, p)
  BY DEF Next
<1>8. QED
  BY <1>1, <1>3, <1>4, <1>5, <1>6, <1>7

(* Whatever requests do, rows have parents and names, requests the shape of *)
(* ReqState, and walks go by the three depths of walkFS.                    *)
THEOREM TypeCorrect == Spec => []TypeOK
<1>1. IInv => TypeOK
  BY DEF IInv
<1>2. QED
  BY <1>1, InvInit, InvNext, PTL DEF Spec

-----------------------------------------------------------------------------
(* What the invariant says of answers.                                      *)

(* At the end of a walk all that was wanted has been listed.                *)
LEMMA AllListed ==
  ASSUME NEW rows, IsTree(rows), NEW q \in ReqState, Walking(rows, q), q.todo = <<>>, ~q.cut, ~q.short,
         NEW n \in Wanted(q), rows = row
  PROVE  n \in q.stayed /\ \E i \in Entries(q) : Listed(q, i, n)
<1>1. /\ Begun(q) /\ Connected(rows, q) /\ NothingLeftOut(rows, q) /\ rows \in [Node -> Row]
  BY DEF Walking, IsTree
<1>2. q.answer # <<>> /\ q.answer[1].node = q.top
  <2>1. <<FirstFrame(q)>> # <<>>
    OBVIOUS
  <2>2. QED
    BY <1>1, <2>1 DEF Begun
<1>3. 1 \in Entries(q) /\ Listed(q, 1, q.top)
  <2>1. q.answer \in Seq(AnEntry)
    BY WalkParts
  <2>2. QED
    BY <1>2, <2>1, EmptySeq DEF Entries, Listed
<1>4. /\ n \in q.stayed /\ n \in Node
      /\ n = q.top \/ q.depth = Infinite \/ (q.depth = 1 /\ rows[n].parent = q.top)
  BY WalkParts DEF Wanted
<1>5. ToDos(q) = {}
  BY DEF ToDos
<1>6. ASSUME NEW m \in q.stayed, InScope(rows, q, m), \E j \in Entries(q) : Listed(q, j, rows[m].parent)
      PROVE  \E i \in Entries(q) : Listed(q, i, m)
  BY <1>1, <1>5, <1>6 DEF NothingLeftOut
<1>7. CASE n = q.top
  BY <1>2, <1>3, <1>4, <1>7
<1>8. CASE n # q.top /\ q.depth = 1 /\ rows[n].parent = q.top
  <2>1. InScope(rows, q, n)
    BY <1>8 DEF InScope
  <2>2. QED
    BY <1>2, <1>3, <1>4, <1>6, <1>8, <2>1
<1>9. CASE n # q.top /\ q.depth = Infinite
  <2> DEFINE T == {m \in Node : m \in q.stayed => \E i \in Entries(q) : Listed(q, i, m)}
  <2>1. q.stayed \subseteq (IF q.top \in Folder THEN BelowIn(rows, q.top) ELSE {q.top})
    BY <1>1 DEF Connected
  <2>2. q.top \in Folder /\ n \in BelowIn(rows, q.top)
    BY <1>4, <1>9, <2>1
  <2>3. q.top \in T
    BY <1>3, <2>2, NodeKinds
  <2>4. ASSUME NEW m \in Node, rows[m].parent \in T
        PROVE  m \in T
    <3>1. SUFFICES ASSUME m \in q.stayed PROVE \E i \in Entries(q) : Listed(q, i, m)
      OBVIOUS
    <3>2. CASE m = q.top
      BY <1>3, <3>2
    <3>3. CASE m # q.top
      <4>1. rows[m].parent \in q.stayed
        BY <1>1, <3>1, <3>3 DEF Connected
      <4>2. \E j \in Entries(q) : Listed(q, j, rows[m].parent)
        BY <2>4, <4>1
      <4>3. InScope(rows, q, m)
        BY <1>9, <3>3 DEF InScope
      <4>4. QED
        BY <1>6, <3>1, <4>2, <4>3
    <3>4. QED
      BY <3>2, <3>3
  <2> HIDE DEF T
  <2>5. BelowIn(rows, q.top) \subseteq T
    BY <1>1, <2>2, <2>3, <2>4, BelowLeast
  <2>6. QED
    BY <1>2, <1>4, <2>2, <2>5 DEF T
<1>10. QED
  BY <1>4, <1>7, <1>8, <1>9

(* The answer begins with the resource itself.                              *)
LEMMA AnswerBegins ==
  ASSUME NEW rows, NEW q \in ReqState, Walking(rows, q), q.todo = <<>>, ~q.cut
  PROVE  q.answer[1].node = q.top
<1>1. Begun(q)
  BY DEF Walking
<1>2. <<FirstFrame(q)>> # <<>>
  OBVIOUS
<1>3. QED
  BY <1>1, <1>2 DEF Begun

(* What was wanted is in it once, below the entry of its folder.            *)
LEMMA OnceIn ==
  ASSUME NEW rows, IsTree(rows), NEW q \in ReqState, Walking(rows, q), q.todo = <<>>, ~q.cut, ~q.short,
         NEW n \in Wanted(q), rows = row
  PROVE  /\ Cardinality(Of(q, n)) = 1
         /\ n # q.top => \E i \in Of(q, n), j \in Of(q, rows[n].parent) :
                           q.answer[i].path = Append(q.answer[j].path, rows[n].name)
<1>1. n \in q.stayed /\ \E i \in Entries(q) : Listed(q, i, n)
  BY AllListed
<1>2. OnceOnly(rows, q) /\ BelowFolder(rows, q)
  BY DEF Walking
<1>3. PICK i \in Entries(q) : Listed(q, i, n)
  BY <1>1
<1>4. \A j \in Entries(q) : Listed(q, j, n) => i = j
  BY <1>1, <1>2, <1>3 DEF OnceOnly
<1>5. \A m : Of(q, m) = {j \in Entries(q) : Listed(q, j, m)}
  BY DEF Of, Entries, Listed
<1>6. Of(q, n) = {i}
  BY <1>3, <1>4, <1>5
<1>7. Cardinality(Of(q, n)) = 1
  BY <1>6, FS_Singleton
<1>8. ASSUME n # q.top
      PROVE  \E k \in Of(q, n), j \in Of(q, rows[n].parent) :
               q.answer[k].path = Append(q.answer[j].path, rows[n].name)
  <2>1. UnderEntry(rows, q, n, q.answer[i].path)
    BY <1>1, <1>2, <1>3, <1>8 DEF BelowFolder, EntriesBelow
  <2>2. PICK j \in Entries(q) : /\ Listed(q, j, rows[n].parent)
                                /\ q.answer[i].path = Append(q.answer[j].path, rows[n].name)
    BY <2>1 DEF UnderEntry
  <2>3. j \in Of(q, rows[n].parent)
    BY <1>5, <2>2
  <2>4. QED
    BY <1>6, <2>2, <2>3
<1>9. QED
  BY <1>7, <1>8

(* The invariant gives the property of walkFS,                              *)
LEMMA InvEntries == IInv => EntriesOnce
<1>1. SUFFICES ASSUME IInv, NEW r \in Request
               PROVE  LET q == req[r] IN
                 /\ \A i, j \in 1..Len(q.answer) :
                      /\ i # j /\ ~q.clash =>
                           <<q.answer[i].path, IsDir(q.answer[i])>> # <<q.answer[j].path, IsDir(q.answer[j])>>
                      /\ q.depth >= 0 => Len(q.answer[i].path) - Len(q.path) <= q.depth
                 /\ q.pc = "close" /\ ~q.cut /\ ~q.short =>
                      /\ q.answer[1].node = q.top
                      /\ \A n \in Wanted(q) :
                           /\ Cardinality(Of(q, n)) = 1
                           /\ n # q.top => \E i \in Of(q, n), j \in Of(q, row[n].parent) :
                                             q.answer[i].path = Append(q.answer[j].path, row[n].name)
  BY DEF EntriesOnce
<1> DEFINE q == req[r]
<1>2. q \in ReqState /\ ReqInv(row, q) /\ IsTree(row)
  BY <1>1 DEF IInv, TypeOK
<1> HIDE DEF q
<1>3. \A i, j \in 1..Len(q.answer) :
        /\ i # j /\ ~q.clash =>
             <<q.answer[i].path, IsDir(q.answer[i])>> # <<q.answer[j].path, IsDir(q.answer[j])>>
        /\ q.depth >= 0 => Len(q.answer[i].path) - Len(q.path) <= q.depth
  BY <1>2 DEF ReqInv, HrefsOnce, Entries
<1>4. ASSUME q.pc = "close", ~q.cut, ~q.short
      PROVE  /\ q.answer[1].node = q.top
             /\ \A n \in Wanted(q) :
                  /\ Cardinality(Of(q, n)) = 1
                  /\ n # q.top => \E i \in Of(q, n), j \in Of(q, row[n].parent) :
                                    q.answer[i].path = Append(q.answer[j].path, row[n].name)
  <2>1. Walking(row, q)
    BY <1>2, <1>4 DEF ReqInv
  <2>2. q.todo = <<>>
    BY <1>4, <2>1 DEF Walking, Begun
  <2>3. QED
    BY <1>2, <1>4, <2>1, <2>2, AnswerBegins, OnceIn
<1>5. QED
  BY <1>3, <1>4 DEF q

(* and that of props and patch.                                             *)
LEMMA InvProps == IInv => PropsOnce
<1>1. SUFFICES ASSUME IInv, NEW r \in Request, NEW s \in Request,
                      NEW e \in ToSet(req[r].answer), NEW f \in ToSet(req[s].answer)
               PROVE  /\ ToSet(e.ok) \cap ToSet(e.rest) = {}
                      /\ \A x \in Reported(e) \cup ToSet(req[r].asked) :
                           Times(x, e.ok) + Times(x, e.rest)
                             = IF req[r].asked = <<>> THEN 1 ELSE Times(x, req[r].asked)
                      /\ req[r].method = "PROPPATCH" =>
                           IF ToSet(req[r].asked) \cap LiveProps = {} THEN e.rest = <<>> ELSE e.ok = <<>>
                      /\ (req[r].method = "PROPFIND" /\ req[s].method = "PROPFIND" /\ (IsDir(e) <=> IsDir(f)))
                         => ToSet(e.ok) \cap ToSet(f.rest) = {}
  BY DEF PropsOnce
<1>2. ASSUME NEW t \in Request, NEW g \in ToSet(req[t].answer)
      PROVE  EntryOK(req[t], g)
  <2>1. req[t] \in ReqState /\ ReqInv(row, req[t])
    BY <1>1 DEF IInv, TypeOK
  <2>2. req[t].answer \in Seq(AnEntry)
    BY <2>1, WalkParts
  <2>3. DOMAIN req[t].answer = Entries(req[t])
    BY <2>2 DEF Entries
  <2>4. PICK i \in Entries(req[t]) : g = req[t].answer[i]
    BY <1>2, <2>3 DEF ToSet
  <2>5. QED
    BY <2>1, <2>4 DEF ReqInv
<1>3. EntryOK(req[r], e) /\ EntryOK(req[s], f)
  BY <1>2
<1>4. (IsDir(e) <=> IsDir(f)) => Known(e.node) = Known(f.node)
  BY DEF IsDir, Known
<1>5. (req[r].method = "PROPFIND" /\ req[s].method = "PROPFIND" /\ (IsDir(e) <=> IsDir(f)))
         => ToSet(e.ok) \cap ToSet(f.rest) = {}
  BY <1>3, <1>4 DEF EntryOK
<1>6. QED
  BY <1>3, <1>5 DEF EntryOK

(* A multistatus answer has every resource once, under an href of its own   *)
(* unless rows share names, and of every resource each property once,       *)
(* however the tree changes while it is written (walkFS, props, patch).     *)
THEOREM AnswersAreOnce == Spec => []AnsweredOnce
<1>1. IInv => AnsweredOnce
  BY InvEntries, InvProps DEF AnsweredOnce
<1>2. QED
  BY <1>1, InvInit, InvNext, PTL DEF Spec
=============================================================================

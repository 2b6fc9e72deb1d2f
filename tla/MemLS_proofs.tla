---------------------------- MODULE MemLS_proofs ----------------------------
(***************************************************************************)
(* For every tree of resources, lifetime and number of tokens: the indexes *)
(* of memLS agree, and every method does what the table of locks of        *)
(* LockTable prescribes; no resource is covered by two locks of that       *)
(* table, and none by two claims.                                          *)
(***************************************************************************)
EXTENDS MemLS, FiniteSetTheorems, TLAPS

Node == [token : Nat, zeroDepth : BOOLEAN, timed : BOOLEAN,
         expiry : Nat, refs : Nat, held : BOOLEAN]

TokenMap == UNION {[T -> Names] : T \in SUBSET Nat}
State == [node : [Names -> Node], byName : SUBSET Names, byToken : TokenMap,
          byExpiry : SUBSET Names, gen : Nat]

LockedIn(s) == {n \in Names : s.node[n].token # NoToken}

(* Two nodes that differ in their counters only.                            *)
SameLock(n1, n2) ==
  /\ n1.token = n2.token /\ n1.zeroDepth = n2.zeroDepth /\ n1.timed = n2.timed
  /\ n1.expiry = n2.expiry /\ n1.held = n2.held

(* TypeOK of a state s that a method has in its hands.                      *)
IndexOK(s) ==
  /\ s \in State
  /\ \A n \in Names : s.node[n].refs = Walks(LockedIn(s), n)
  /\ s.byName = {n \in Names : s.node[n].refs # 0}
  /\ DOMAIN s.byToken = {s.node[n].token : n \in LockedIn(s)}
  /\ \A n \in LockedIn(s) : s.byToken[s.node[n].token] = n /\ s.node[n].token <= s.gen
  /\ s.byExpiry = {n \in LockedIn(s) : s.node[n].timed /\ ~s.node[n].held}
  /\ \A n \in Names \ LockedIn(s) : ~s.node[n].held

(* What is claimed is held, and no lock is held by two claims.              *)
ClaimsOK(s, C) ==
  /\ \A c \in C : c.roots \subseteq {n \in LockedIn(s) : s.node[n].held}
  /\ \A c1, c2 \in C : c1 # c2 => c1.roots \cap c2.roots = {}

Inv == IndexOK(ls) /\ ClaimsOK(ls, claims)

-----------------------------------------------------------------------------
(* walkToRoot comes to a name once for every lock at it or below it.        *)
LEMMA WalksNat ==
  ASSUME NEW R \in SUBSET Names, NEW n \in Names
  PROVE  Walks(R, n) \in Nat /\ (Walks(R, n) = 0 <=> \A r \in R : n \notin Up[r])
<1>1. IsFiniteSet({r \in R : n \in Up[r]})
  BY FS_Subset, FiniteAssumption
<1>2. QED
  BY <1>1, FS_CardinalityType, FS_EmptySet DEF Walks

LEMMA WalksWithout ==
  ASSUME NEW L \in SUBSET Names, NEW R \in SUBSET L, NEW n \in Names
  PROVE  Walks(L \ R, n) = Walks(L, n) - Walks(R, n)
<1> DEFINE A == {r \in L : n \in Up[r]}
           B == {r \in R : n \in Up[r]}
<1>1. IsFiniteSet(A)
  BY FS_Subset, FiniteAssumption
<1>2. Cardinality(A \ B) = Cardinality(A) - Cardinality(A \cap B)
  BY <1>1, FS_Difference
<1>3. A \cap B = B /\ A \ B = {r \in L \ R : n \in Up[r]}
  OBVIOUS
<1>4. QED
  BY <1>2, <1>3 DEF Walks

LEMMA WalksWith ==
  ASSUME NEW L \in SUBSET Names, NEW root \in Names, root \notin L, NEW n \in Names
  PROVE  Walks(L \cup {root}, n) = IF n \in Up[root] THEN Walks(L, n) + 1 ELSE Walks(L, n)
<1> DEFINE A == {r \in L : n \in Up[r]}
<1>1. IsFiniteSet(A) /\ root \notin A
  BY FS_Subset, FiniteAssumption
<1>2. Cardinality(A \cup {root}) = Cardinality(A) + 1
  BY <1>1, FS_AddElement
<1>3. {r \in L \cup {root} : n \in Up[r]} = IF n \in Up[root] THEN A \cup {root} ELSE A
  OBVIOUS
<1>4. QED
  BY <1>2, <1>3 DEF Walks

-----------------------------------------------------------------------------
(* t is s without the locks at the roots.                                   *)
Without(s, t, roots) ==
  /\ IndexOK(t) /\ LockedIn(t) = LockedIn(s) \ roots /\ t.gen = s.gen
  /\ \A n \in LockedIn(t) : SameLock(t.node[n], s.node[n])

(* remove takes locks away and changes nothing that the others need.        *)
LEMMA RemoveIndex ==
  ASSUME NEW s, IndexOK(s), NEW roots \in SUBSET LockedIn(s),
         \A n \in roots : ~s.node[n].held
  PROVE  Without(s, Remove(s, roots), roots)
<1> DEFINE t == Remove(s, roots)
           refs(n) == s.node[n].refs - Walks(roots, n)
           left == {n \in s.byName : refs(n) # 0}
           node == [n \in Names |->
                      IF n \notin left THEN NoNode
                      ELSE IF n \in roots
                           THEN [s.node[n] EXCEPT !.token = NoToken, !.refs = refs(n)]
                           ELSE [s.node[n] EXCEPT !.refs = refs(n)]]
           byToken == [u \in {u \in DOMAIN s.byToken : s.byToken[u] \notin roots} |-> s.byToken[u]]
<1>0. /\ s \in State /\ s.node \in [Names -> Node] /\ s.byToken \in TokenMap
      /\ s.gen \in Nat /\ s.byExpiry \subseteq Names
  BY DEF IndexOK, State
<1>1. t = [s EXCEPT !.node = node, !.byName = left, !.byToken = byToken,
                    !.byExpiry = s.byExpiry \ roots]
  BY Zenon DEF Remove
<1> HIDE DEF refs, left, node, byToken, t
<1>2. t = [node |-> node, byName |-> left, byToken |-> byToken,
           byExpiry |-> s.byExpiry \ roots, gen |-> s.gen]
  BY <1>0, <1>1 DEF State
<1> USE DEF refs, left
<1>3. ASSUME NEW n \in Names
      PROVE  /\ refs(n) = Walks(LockedIn(s) \ roots, n) /\ refs(n) \in Nat
             /\ n \in left <=> refs(n) # 0
  <2>0. LockedIn(s) \subseteq Names /\ s.node[n].refs = Walks(LockedIn(s), n)
    BY DEF IndexOK, LockedIn
  <2>1. Walks(LockedIn(s) \ roots, n) = s.node[n].refs - Walks(roots, n)
    BY <2>0, WalksWithout
  <2>2. Walks(LockedIn(s) \ roots, n) \in Nat /\ Walks(roots, n) \in Nat /\ s.node[n].refs \in Nat
    <3>1. LockedIn(s) \ roots \in SUBSET Names /\ roots \in SUBSET Names
      BY <2>0
    <3>2. QED
      BY <1>0, <3>1, WalksNat DEF Node
  <2>3. n \in left <=> s.node[n].refs # 0 /\ refs(n) # 0
    BY DEF IndexOK
  <2>4. QED
    BY <2>1, <2>2, <2>3
<1>4. \A n \in LockedIn(s) \ roots : n \in left
  <2> SUFFICES ASSUME NEW n \in LockedIn(s), n \notin roots PROVE n \in left
    OBVIOUS
  <2>1. n \in Names /\ n \in Up[n] /\ LockedIn(s) \ roots \in SUBSET Names
    BY NamesAssumption DEF LockedIn
  <2>2. Walks(LockedIn(s) \ roots, n) # 0
    BY <2>1, WalksNat
  <2>3. QED
    BY <1>3, <2>1, <2>2
<1> HIDE DEF refs, left
<1> USE DEF node
<1>5. /\ node \in [Names -> Node]
      /\ \A n \in Names : node[n].refs = refs(n)
      /\ \A n \in Names : node[n].token # NoToken <=> n \in LockedIn(s) \ roots
      /\ \A n \in LockedIn(s) \ roots : SameLock(node[n], s.node[n])
      /\ \A n \in Names \ (LockedIn(s) \ roots) : ~node[n].held
  <2> SUFFICES ASSUME NEW n \in Names
               PROVE  /\ node[n] \in Node /\ node[n].refs = refs(n)
                      /\ node[n].token # NoToken <=> n \in LockedIn(s) \ roots
                      /\ n \in LockedIn(s) \ roots => SameLock(node[n], s.node[n])
                      /\ n \notin LockedIn(s) \ roots => ~node[n].held
    BY DEF LockedIn
  <2>1. s.node[n] \in Node /\ refs(n) \in Nat
    BY <1>0, <1>3
  <2>2. CASE n \notin left
    BY <1>3, <1>4, <2>2 DEF NoNode, Node, NoToken
  <2>3. CASE n \in left /\ n \in roots
    BY <2>1, <2>3 DEF Node, NoToken, SameLock
  <2>4. CASE n \in left /\ n \notin roots
    BY <2>1, <2>4 DEF Node, LockedIn, SameLock, IndexOK
  <2>5. QED
    BY <2>2, <2>3, <2>4, SMTT(60)
<1> HIDE DEF node
<1>6. LockedIn(t) = LockedIn(s) \ roots
  BY <1>2, <1>5 DEF LockedIn
<1>7. \A n \in LockedIn(t) : SameLock(t.node[n], s.node[n])
  BY <1>2, <1>5, <1>6 DEF SameLock
<1>8. IndexOK(t)
  <2>1. t \in State
    <3>1. byToken \in TokenMap
      <4>1. PICK T \in SUBSET Nat : s.byToken \in [T -> Names]
        BY <1>0 DEF TokenMap
      <4> DEFINE U == {u \in T : s.byToken[u] \notin roots}
      <4>2. byToken \in [U -> Names] /\ U \in SUBSET Nat
        BY <4>1 DEF byToken
      <4>3. QED
        BY <4>2 DEF TokenMap
    <3>2. left \subseteq Names
      BY DEF left, IndexOK
    <3>3. QED
      BY <1>0, <1>2, <1>5, <3>1, <3>2 DEF State
  <2>2. \A n \in Names : t.node[n].refs = Walks(LockedIn(t), n)
    BY <1>2, <1>3, <1>5, <1>6
  <2>3. t.byName = {n \in Names : t.node[n].refs # 0}
    <3>1. left \subseteq Names
      BY DEF left, IndexOK
    <3>2. QED
      BY <1>2, <1>3, <1>5, <3>1
  <2>4. DOMAIN t.byToken = {t.node[n].token : n \in LockedIn(t)}
    <3>1. DOMAIN t.byToken = {u \in DOMAIN s.byToken : s.byToken[u] \notin roots}
      BY <1>2 DEF byToken
    <3>2. \A u \in DOMAIN s.byToken : \E n \in LockedIn(s) : u = s.node[n].token /\ s.byToken[u] = n
      BY DEF IndexOK
    <3>3. \A n \in LockedIn(s) : s.node[n].token \in DOMAIN s.byToken /\ s.byToken[s.node[n].token] = n
      BY DEF IndexOK
    <3>4. QED
      BY <1>6, <1>7, <3>1, <3>2, <3>3 DEF SameLock
  <2>5. \A n \in LockedIn(t) : t.byToken[t.node[n].token] = n /\ t.node[n].token <= t.gen
    <3> SUFFICES ASSUME NEW n \in LockedIn(t)
                 PROVE  t.byToken[t.node[n].token] = n /\ t.node[n].token <= t.gen
      OBVIOUS
    <3>1. t.node[n].token = s.node[n].token /\ n \in LockedIn(s) /\ n \notin roots
      BY <1>6, <1>7 DEF SameLock
    <3>2. /\ s.node[n].token \in DOMAIN s.byToken /\ s.byToken[s.node[n].token] = n
          /\ s.node[n].token <= s.gen
      BY <3>1 DEF IndexOK
    <3>3. QED
      BY <1>2, <3>1, <3>2 DEF byToken
  <2>6. t.byExpiry = {n \in LockedIn(t) : t.node[n].timed /\ ~t.node[n].held}
    BY <1>2, <1>6, <1>7 DEF IndexOK, SameLock
  <2>7. \A n \in Names \ LockedIn(t) : ~t.node[n].held
    BY <1>2, <1>5, <1>6
  <2>8. QED
    BY <1>2, <1>5, <2>1, <2>2, <2>3, <2>4, <2>5, <2>6, <2>7 DEF IndexOK
<1>9. Without(s, t, roots)
  BY <1>2, <1>6, <1>7, <1>8 DEF Without
<1>10. QED
  BY <1>9 DEF t
(* A method that leaves tokens, counters and names alone.                   *)
LEMMA SameIndex ==
  ASSUME NEW s, IndexOK(s), NEW t \in State,
         t.byName = s.byName, t.byToken = s.byToken, t.gen = s.gen,
         \A n \in Names : t.node[n].token = s.node[n].token /\ t.node[n].refs = s.node[n].refs,
         \A n \in Names \ LockedIn(s) : ~t.node[n].held,
         t.byExpiry = {n \in LockedIn(s) : t.node[n].timed /\ ~t.node[n].held}
  PROVE  IndexOK(t) /\ LockedIn(t) = LockedIn(s)
<1>1. LockedIn(t) = LockedIn(s)
  BY DEF LockedIn
<1>2. /\ \A n \in Names : t.node[n].refs = Walks(LockedIn(t), n)
      /\ t.byName = {n \in Names : t.node[n].refs # 0}
  BY <1>1 DEF IndexOK
<1>3. {t.node[n].token : n \in LockedIn(t)} = {s.node[n].token : n \in LockedIn(s)}
  BY <1>1 DEF LockedIn
<1>4. \A n \in LockedIn(t) : t.byToken[t.node[n].token] = n /\ t.node[n].token <= t.gen
  BY <1>1 DEF LockedIn, IndexOK
<1>5. QED
  BY <1>1, <1>2, <1>3, <1>4 DEF IndexOK

-----------------------------------------------------------------------------
(* The locks of a state, as the table has them.                             *)
LockOf(n, node) ==
  [token |-> node.token, root |-> n, zeroDepth |-> node.zeroDepth,
   deadline |-> IF node.timed THEN node.expiry ELSE Never, held |-> node.held]
LocksOf(s) == {LockOf(n, s.node[n]) : n \in LockedIn(s)}

LEMMA MappedLocks == Locks = LocksOf(ls)
BY DEF Locks, LocksOf, LockOf, LockedIn

(* The fields of a lock, and that it is found by its root.                  *)
LEMMA LockFields ==
  ASSUME NEW n, NEW node \in Node
  PROVE  /\ LockOf(n, node).token = node.token /\ LockOf(n, node).root = n
         /\ LockOf(n, node).zeroDepth = node.zeroDepth /\ LockOf(n, node).held = node.held
         /\ LockOf(n, node).deadline = (IF node.timed THEN node.expiry ELSE Never)
         /\ LockOf(n, node).deadline = Never <=> ~node.timed
BY TimesAssumption DEF LockOf, Node

LEMMA NodeOf ==
  ASSUME NEW s, IndexOK(s)
  PROVE  /\ \A n \in Names : s.node[n] \in Node
         /\ LockedIn(s) \subseteq Names /\ s.gen \in Nat
BY DEF IndexOK, State, LockedIn

(* collectExpiredNodes drops the locks that are not in force any more.      *)
LEMMA Collected ==
  ASSUME Inv, NEW now \in Times
  PROVE  LET s == CollectExpiredNodes(now)
         IN  /\ IndexOK(s) /\ ClaimsOK(s, claims) /\ s.gen = ls.gen
             /\ LocksOf(s) = Table!InForce(now)
<1> DEFINE lapsed == {n \in ls.byExpiry : ls.node[n].expiry <= now}
           s == CollectExpiredNodes(now)
<1>1. lapsed \in SUBSET LockedIn(ls) /\ \A n \in lapsed : ~ls.node[n].held
  BY DEF Inv, IndexOK
<1>2. Without(ls, s, lapsed)
  BY <1>1, RemoveIndex DEF Inv, CollectExpiredNodes
<1>3. \A n \in LockedIn(ls) :
        n \notin lapsed <=> \/ ls.node[n].held \/ LockOf(n, ls.node[n]).deadline = Never
                            \/ now < LockOf(n, ls.node[n]).deadline
  <2> SUFFICES ASSUME NEW n \in LockedIn(ls)
               PROVE  n \notin lapsed <=> \/ ls.node[n].held \/ LockOf(n, ls.node[n]).deadline = Never
                                          \/ now < LockOf(n, ls.node[n]).deadline
    OBVIOUS
  <2>1. ls.node[n] \in Node /\ ls.node[n].expiry \in Nat /\ now \in Int
    <3>1. ls.node[n] \in Node
      BY NodeOf DEF Inv
    <3>2. ls.node[n].expiry \in Nat
      BY <3>1 DEF Node
    <3>3. QED
      BY <3>1, <3>2, TimesAssumption DEF Times
  <2>2. n \in lapsed <=> ls.node[n].timed /\ ~ls.node[n].held /\ ls.node[n].expiry <= now
    BY DEF Inv, IndexOK
  <2>3. QED
    BY <2>1, <2>2, LockFields
<1> HIDE DEF lapsed, s
<1>4. ClaimsOK(s, claims)
  <2>1. \A n \in LockedIn(ls) : ls.node[n].held => n \in LockedIn(s) /\ s.node[n].held
    BY <1>1, <1>2 DEF Without, SameLock
  <2>2. QED
    BY <2>1 DEF Inv, ClaimsOK
<1>5. LocksOf(s) = {LockOf(n, ls.node[n]) : n \in LockedIn(ls) \ lapsed}
  <2>1. \A n \in LockedIn(s) : LockOf(n, s.node[n]) = LockOf(n, ls.node[n])
    BY <1>2 DEF Without, SameLock, LockOf
  <2>2. LockedIn(s) = LockedIn(ls) \ lapsed
    BY <1>2 DEF Without
  <2>3. QED
    BY <2>1, <2>2 DEF LocksOf
<1>6. LocksOf(s) = {l \in LocksOf(ls) : l.held \/ l.deadline = Never \/ now < l.deadline}
  <2>1. \A n \in LockedIn(ls) : LockOf(n, ls.node[n]).held = ls.node[n].held
    BY LockFields, NodeOf DEF Inv
  <2>2. QED
    BY <1>3, <1>5, <2>1 DEF LocksOf
<1>7. LocksOf(s) = Table!InForce(now)
  BY <1>6, MappedLocks DEF Table!InForce
<1>8. QED
  BY <1>2, <1>4, <1>7 DEF Without, s
-----------------------------------------------------------------------------
(* A node exists when there is a lock at it or below it.                    *)
LEMMA NodeExists ==
  ASSUME NEW s, IndexOK(s), NEW n \in Names
  PROVE  n \in s.byName <=> \E r \in LockedIn(s) : n \in Up[r]
<1>1. LockedIn(s) \in SUBSET Names
  BY NodeOf
<1>2. s.node[n].refs = Walks(LockedIn(s), n) /\ (n \in s.byName <=> s.node[n].refs # 0)
  BY DEF IndexOK
<1>3. QED
  BY <1>1, <1>2, WalksNat

(* canCreate refuses what conflicts with a lock.                            *)
LEMMA CanCreateIff ==
  ASSUME NEW s, IndexOK(s), NEW root \in Names, NEW zeroDepth \in BOOLEAN
  PROVE  CanCreate(s, root, zeroDepth) <=>
           \A l \in LocksOf(s) : ~Table!Conflicts(l, root, zeroDepth)
<1> DEFINE Clash(n) == \/ n = root \/ (~s.node[n].zeroDepth /\ n \in Up[root])
                       \/ (~zeroDepth /\ root \in Up[n])
<1>1. \A n \in LockedIn(s) : Table!Conflicts(LockOf(n, s.node[n]), root, zeroDepth) <=> Clash(n)
  <2> SUFFICES ASSUME NEW n \in LockedIn(s)
               PROVE  Table!Conflicts(LockOf(n, s.node[n]), root, zeroDepth) <=> Clash(n)
    OBVIOUS
  <2>1. s.node[n] \in Node
    BY NodeOf
  <2>2. LockOf(n, s.node[n]).root = n /\ LockOf(n, s.node[n]).zeroDepth = s.node[n].zeroDepth
    BY <2>1, LockFields
  <2>3. QED
    BY <2>2 DEF Table!Conflicts, Table!Covers
<1>2. root \in Up[root] /\ Up[root] \subseteq Names
  BY NamesAssumption
<1>3. ASSUME CanCreate(s, root, zeroDepth), NEW n \in LockedIn(s), Clash(n)
      PROVE  FALSE
  <2>1. n \in Names /\ n \in Up[n] /\ s.node[n].token # NoToken
    BY NamesAssumption DEF LockedIn
  <2>2. n \in s.byName
    BY <2>1, NodeExists
  <2>3. \A m \in Up[root] \cap s.byName :
          IF m = root THEN s.node[m].token = NoToken /\ zeroDepth
          ELSE s.node[m].token = NoToken \/ s.node[m].zeroDepth
    BY <1>3 DEF CanCreate
  <2>4. CASE n = root
    BY <1>2, <2>1, <2>2, <2>3, <2>4
  <2>5. CASE n # root /\ ~s.node[n].zeroDepth /\ n \in Up[root]
    BY <2>1, <2>2, <2>3, <2>5
  <2>6. CASE ~zeroDepth /\ root \in Up[n]
    <3>1. root \in s.byName
      BY <2>6, NodeExists
    <3>2. QED
      BY <1>2, <2>3, <2>6, <3>1
  <2>7. QED
    BY <1>3, <2>4, <2>5, <2>6
<1>4. ASSUME \A n \in LockedIn(s) : ~Clash(n), NEW m \in Up[root] \cap s.byName
      PROVE  IF m = root THEN s.node[m].token = NoToken /\ zeroDepth
             ELSE s.node[m].token = NoToken \/ s.node[m].zeroDepth
  <2>1. m \in Names
    BY <1>2
  <2>2. CASE m = root
    <3>1. PICK r \in LockedIn(s) : root \in Up[r]
      BY <2>2, <1>4, NodeExists
    <3>2. zeroDepth
      BY <1>4, <3>1
    <3>3. root \notin LockedIn(s)
      BY <1>4
    <3>4. QED
      BY <2>2, <3>2, <3>3 DEF LockedIn
  <2>3. CASE m # root
    BY <1>4, <2>1, <2>3 DEF LockedIn
  <2>4. QED
    BY <2>2, <2>3
<1>5. (\A l \in LocksOf(s) : ~Table!Conflicts(l, root, zeroDepth)) <=> \A n \in LockedIn(s) : ~Clash(n)
  BY <1>1 DEF LocksOf
<1> HIDE DEF Clash
<1>6. QED
  BY <1>3, <1>4, <1>5 DEF CanCreate

(* create adds one lock, counts it at every name above it, and changes no   *)
(* other.                                                                   *)
LEMMA CreatedIndex ==
  ASSUME NEW s, IndexOK(s), NEW root \in Names, root \notin LockedIn(s),
         NEW zeroDepth \in BOOLEAN, NEW now \in Times, NEW duration \in Durations
  PROVE  LET t == Created(s, now, root, zeroDepth, duration)
         IN  /\ IndexOK(t) /\ t.gen = s.gen + 1
             /\ LockedIn(t) = LockedIn(s) \cup {root}
             /\ \A n \in LockedIn(s) : SameLock(t.node[n], s.node[n])
             /\ LockOf(root, t.node[root]) =
                  [token |-> s.gen + 1, root |-> root, zeroDepth |-> zeroDepth,
                   deadline |-> Deadline(now, duration), held |-> FALSE]
<1> DEFINE token == s.gen + 1
           counted == [n \in Names |-> IF n \in Up[root]
                                       THEN [s.node[n] EXCEPT !.refs = @ + 1] ELSE s.node[n]]
           new == Lasting([counted[root] EXCEPT !.token = token, !.zeroDepth = zeroDepth], now, duration)
           node == [counted EXCEPT ![root] = new]
           byToken == [u \in DOMAIN s.byToken \cup {token} |-> IF u = token THEN root ELSE s.byToken[u]]
           byExpiry == IF node[root].timed THEN s.byExpiry \cup {root} ELSE s.byExpiry
           t == Created(s, now, root, zeroDepth, duration)
<1>0. /\ s \in State /\ s.node \in [Names -> Node] /\ s.byToken \in TokenMap
      /\ s.gen \in Nat /\ s.byExpiry \subseteq Names /\ s.byName \subseteq Names
      /\ LockedIn(s) \in SUBSET Names
  BY NodeOf DEF IndexOK, State
<1>1. counted \in [Names -> Node] /\ \A n \in Names : /\ SameLock(counted[n], s.node[n])
                                                     /\ counted[n].refs = Walks(LockedIn(s) \cup {root}, n)
  <2> SUFFICES ASSUME NEW n \in Names
               PROVE  /\ counted[n] \in Node /\ SameLock(counted[n], s.node[n])
                      /\ counted[n].refs = Walks(LockedIn(s) \cup {root}, n)
    OBVIOUS
  <2>1. s.node[n] \in Node /\ s.node[n].refs = Walks(LockedIn(s), n)
    BY <1>0 DEF IndexOK
  <2>2. CASE n \in Up[root]
    <3>1. counted[n] = [s.node[n] EXCEPT !.refs = @ + 1]
      BY <2>2
    <3>2. counted[n] \in Node /\ SameLock(counted[n], s.node[n]) /\ counted[n].refs = s.node[n].refs + 1
      BY <2>1, <3>1 DEF Node, SameLock
    <3>3. QED
      BY <1>0, <2>1, <2>2, <3>2, WalksWith
  <2>3. CASE n \notin Up[root]
    BY <1>0, <2>1, <2>3, WalksWith DEF SameLock
  <2>4. QED
    BY <2>2, <2>3
<1> HIDE DEF counted
<1>2. /\ new \in Node /\ new.token = token /\ new.zeroDepth = zeroDepth /\ new.held = FALSE
      /\ new.refs = counted[root].refs
      /\ (IF new.timed THEN new.expiry ELSE Never) = Deadline(now, duration)
  <2>1. counted[root] \in Node /\ ~counted[root].held
    BY <1>1 DEF SameLock, IndexOK
  <2> DEFINE first == [counted[root] EXCEPT !.token = token]
             named == [first EXCEPT !.zeroDepth = zeroDepth]
  <2>a. first \in Node /\ first.token = token /\ ~first.held /\ first.refs = counted[root].refs
    BY <1>0, <2>1 DEF Node
  <2> HIDE DEF first
  <2>2. /\ named \in Node /\ named.token = token /\ named.zeroDepth = zeroDepth /\ ~named.held
        /\ named.refs = counted[root].refs
    BY <2>a DEF Node
  <2> HIDE DEF named
  <2>3. new = Lasting(named, now, duration)
    BY DEF named, first
  <2>4. CASE duration = Never
    <3>1. new = [named EXCEPT !.timed = FALSE]
      BY <2>3, <2>4 DEF Lasting
    <3>2. QED
      BY <2>2, <2>4, <3>1 DEF Node, Deadline
  <2>5. CASE duration # Never
    <3>1. new = [named EXCEPT !.timed = TRUE, !.expiry = now + duration]
      BY <2>3, <2>5 DEF Lasting
    <3>2. now + duration \in Nat
      BY <2>5, TimesAssumption DEF Times
    <3>3. QED
      BY <2>2, <2>5, <3>1, <3>2 DEF Node, Deadline
  <2>6. QED
    BY <2>4, <2>5
<1> HIDE DEF new
<1>3. /\ node \in [Names -> Node] /\ node[root] = new
      /\ \A n \in Names : n # root => node[n] = counted[n]
  BY <1>1, <1>2
<1> HIDE DEF node
<1>4. t.node = node /\ t.byName = s.byName \cup Up[root] /\ t.byToken = byToken
      /\ t.byExpiry = byExpiry /\ t.gen = token
      /\ t = [node |-> t.node, byName |-> t.byName, byToken |-> t.byToken,
              byExpiry |-> t.byExpiry, gen |-> t.gen]
  <2> DEFINE t1 == [s EXCEPT !.node = node, !.byName = @ \cup Up[root], !.byToken = byToken, !.gen = token]
  <2>1. t = [t1 EXCEPT !.byExpiry = Queued(t1, root)]
    BY Zenon DEF Created, node, new, counted
  <2>2. t1 = [s EXCEPT !.node = node, !.byName = @ \cup Up[root], !.byToken = byToken, !.gen = token]
    OBVIOUS
  <2> HIDE DEF byToken, t1
  <2>3. t1 = [node |-> node, byName |-> s.byName \cup Up[root], byToken |-> byToken,
              byExpiry |-> s.byExpiry, gen |-> token]
    BY <1>0, <2>2 DEF State
  <2>4. Queued(t1, root) = byExpiry
    BY <2>3 DEF Queued
  <2> HIDE DEF byExpiry, t
  <2>5. QED
    BY <2>1, <2>3, <2>4
<1> HIDE DEF t
<1>5. \A n \in Names : t.node[n].token # NoToken <=> n \in LockedIn(s) \cup {root}
  <2>1. t.node[root].token # NoToken
    BY <1>0, <1>2, <1>3, <1>4 DEF NoToken
  <2>2. \A n \in Names : n # root => t.node[n].token = s.node[n].token
    BY <1>1, <1>3, <1>4 DEF SameLock
  <2>3. QED
    BY <2>1, <2>2 DEF LockedIn
<1>6. LockedIn(t) = LockedIn(s) \cup {root}
  BY <1>0, <1>5 DEF LockedIn
<1>7. \A n \in LockedIn(s) : SameLock(t.node[n], s.node[n])
  BY <1>0, <1>1, <1>3, <1>4
<1>8. \A n \in Names : t.node[n].refs = Walks(LockedIn(t), n)
  BY <1>1, <1>2, <1>3, <1>4, <1>6
<1>9. t.byName = {n \in Names : t.node[n].refs # 0}
  <2>1. \A n \in Names : n \in s.byName <=> \E r \in LockedIn(s) : n \in Up[r]
    BY NodeExists
  <2>2. \A n \in Names : t.node[n].refs = 0 <=> \A r \in LockedIn(t) : n \notin Up[r]
    <3>1. LockedIn(t) \in SUBSET Names
      BY <1>0, <1>6
    <3>2. QED
      BY <1>8, <3>1, WalksNat
  <2>3. Up[root] \subseteq Names
    BY NamesAssumption
  <2>4. QED
    BY <1>0, <1>4, <1>6, <2>1, <2>2, <2>3
<1>10. token \notin DOMAIN s.byToken /\ \A n \in LockedIn(s) : s.node[n].token # token
  BY <1>0, NodeOf DEF IndexOK, Node
<1>11. DOMAIN t.byToken = {t.node[n].token : n \in LockedIn(t)}
  <2>1. DOMAIN t.byToken = {s.node[n].token : n \in LockedIn(s)} \cup {token}
    BY <1>4 DEF IndexOK
  <2>2. t.node[root].token = token
    BY <1>2, <1>3, <1>4
  <2>3. \A n \in LockedIn(s) : t.node[n].token = s.node[n].token
    BY <1>7 DEF SameLock
  <2>4. QED
    BY <1>6, <2>1, <2>2, <2>3
<1>12. \A n \in LockedIn(t) : t.byToken[t.node[n].token] = n /\ t.node[n].token <= t.gen
  <2>1. t.node[root].token = token /\ t.byToken[token] = root /\ t.gen = s.gen + 1
    BY <1>2, <1>3, <1>4
  <2>2. ASSUME NEW n \in LockedIn(s)
        PROVE  t.byToken[t.node[n].token] = n /\ t.node[n].token <= t.gen
    <3>1. t.node[n].token = s.node[n].token /\ s.node[n].token # token
      BY <1>7, <1>10 DEF SameLock
    <3>2. /\ s.node[n].token \in DOMAIN s.byToken /\ s.byToken[s.node[n].token] = n
          /\ s.node[n].token <= s.gen /\ s.node[n] \in Node
      BY NodeOf DEF IndexOK
    <3>3. t.byToken[t.node[n].token] = n
      BY <1>4, <3>1, <3>2
    <3>4. s.node[n].token \in Nat
      BY <3>2 DEF Node
    <3>5. QED
      BY <1>0, <1>4, <3>1, <3>2, <3>3, <3>4
  <2>3. QED
    BY <1>0, <1>6, <2>1, <2>2
<1>13. t.byExpiry = {n \in LockedIn(t) : t.node[n].timed /\ ~t.node[n].held}
  BY <1>2, <1>3, <1>4, <1>6, <1>7 DEF SameLock, IndexOK
<1>14. \A n \in Names \ LockedIn(t) : ~t.node[n].held
  BY <1>1, <1>3, <1>4, <1>6, ZenonT(90) DEF SameLock, IndexOK
<1>15. t \in State
  <2>1. byToken \in TokenMap
    <3>1. PICK T \in SUBSET Nat : s.byToken \in [T -> Names]
      BY <1>0 DEF TokenMap
    <3>2. DOMAIN s.byToken = T
      BY <3>1
    <3>3. [u \in T \cup {token} |-> IF u = token THEN root ELSE s.byToken[u]] \in [T \cup {token} -> Names]
      BY <1>0, <3>1
    <3>4. token \in Nat
      BY <1>0
    <3>5. QED
      BY <3>1, <3>2, <3>3, <3>4, ZenonT(90) DEF TokenMap
  <2>2. Up[root] \subseteq Names
    BY NamesAssumption
  <2> HIDE DEF byToken
  <2>3. QED
    BY <1>0, <1>3, <1>4, <2>1, <2>2 DEF State
<1>16. IndexOK(t)
  BY <1>8, <1>9, <1>11, <1>12, <1>13, <1>14, <1>15 DEF IndexOK
<1>17. LockOf(root, t.node[root]) =
         [token |-> s.gen + 1, root |-> root, zeroDepth |-> zeroDepth,
          deadline |-> Deadline(now, duration), held |-> FALSE]
  BY <1>2, <1>3, <1>4 DEF LockOf
<1>18. QED
  BY <1>4, <1>6, <1>7, <1>16, <1>17 DEF t
-----------------------------------------------------------------------------
(* The table that a method finds, and what it makes of it.                  *)
LEMMA CreateStep ==
  ASSUME Inv, NEW now \in Times, NEW root \in Names, NEW zeroDepth \in BOOLEAN,
         NEW duration \in Durations,
         Create(CollectExpiredNodes(now), now, root, zeroDepth, duration)
  PROVE  Inv' /\ Table!TableCreate(Table!InForce(now), now, root, zeroDepth, duration)
<1> DEFINE s == CollectExpiredNodes(now)
           t == Table!InForce(now)
           new == [token |-> s.gen + 1, root |-> root, zeroDepth |-> zeroDepth,
                   deadline |-> Deadline(now, duration), held |-> FALSE]
<1>1. IndexOK(s) /\ ClaimsOK(s, claims) /\ s.gen = ls.gen /\ LocksOf(s) = t
  BY Collected
<1>2. CanCreate(s, root, zeroDepth) <=> \A l \in t : ~Table!Conflicts(l, root, zeroDepth)
  BY <1>1, CanCreateIff
<1>3. /\ ls.gen < MaxToken /\ claims' = claims
      /\ IF CanCreate(s, root, zeroDepth)
         THEN ls' = Created(s, now, root, zeroDepth, duration) /\ answer' = "ok"
         ELSE ls' = s /\ answer' = "locked"
  BY <1>1 DEF Create
<1> HIDE DEF s, t, new
<1>4. CASE ~CanCreate(s, root, zeroDepth)
  <2>1. Inv'
    BY <1>1, <1>3, <1>4 DEF Inv
  <2>2. Locks' = t /\ ls'.gen = ls.gen
    BY <1>1, <1>3, <1>4 DEF Locks, LocksOf, LockOf, LockedIn
  <2>3. Table!TableCreate(t, now, root, zeroDepth, duration)
    BY <1>2, <1>3, <1>4, <2>2 DEF Table!TableCreate
  <2>4. QED
    BY <2>1, <2>3 DEF t
<1>5. CASE CanCreate(s, root, zeroDepth)
  <2>1. root \notin LockedIn(s)
    <3> SUFFICES ASSUME root \in LockedIn(s) PROVE FALSE
      OBVIOUS
    <3>1. LockOf(root, s.node[root]) \in t /\ LockOf(root, s.node[root]).root = root
      BY <1>1 DEF LocksOf, LockOf
    <3>2. QED
      BY <1>2, <1>5, <3>1 DEF Table!Conflicts, Table!Covers
  <2>2. /\ IndexOK(ls') /\ ls'.gen = s.gen + 1
        /\ LockedIn(ls') = LockedIn(s) \cup {root}
        /\ \A n \in LockedIn(s) : SameLock(ls'.node[n], s.node[n])
        /\ LockOf(root, ls'.node[root]) = new
    BY <1>1, <1>3, <1>5, <2>1, CreatedIndex DEF new
  <2>3. ClaimsOK(ls', claims')
    BY <1>1, <1>3, <2>2 DEF ClaimsOK, SameLock
  <2>4. Locks' = t \cup {new}
    <3>1. \A n \in LockedIn(s) : LockOf(n, ls'.node[n]) = LockOf(n, s.node[n])
      BY <2>2 DEF SameLock, LockOf
    <3>2. LocksOf(ls') = {LockOf(n, ls'.node[n]) : n \in LockedIn(s) \cup {root}}
      BY <2>2 DEF LocksOf
    <3>3. LocksOf(ls') = LocksOf(s) \cup {new}
      BY <2>2, <3>1, <3>2 DEF LocksOf
    <3>4. QED
      BY <1>1, <3>3 DEF Locks, LocksOf, LockOf, LockedIn
  <2>5. Table!TableCreate(t, now, root, zeroDepth, duration)
    BY <1>1, <1>2, <1>3, <1>5, <2>2, <2>4 DEF Table!TableCreate, Table!Deadline, Deadline, new
  <2>6. QED
    BY <2>2, <2>3, <2>5 DEF t, Inv
<1>6. QED
  BY <1>4, <1>5
(* What names a lock finds it: the token tells the lock.                    *)
LEMMA ByToken ==
  ASSUME NEW s, IndexOK(s), NEW token \in Tokens
  PROVE  /\ token \notin DOMAIN s.byToken => \A l \in LocksOf(s) : l.token # token
         /\ token \in DOMAIN s.byToken =>
              LET n == s.byToken[token]
              IN  /\ n \in LockedIn(s) /\ s.node[n].token = token
                  /\ \A m \in LockedIn(s) : s.node[m].token = token => m = n
                  /\ \A l \in LocksOf(s) : l.token = token <=> l = LockOf(n, s.node[n])
                  /\ LockOf(n, s.node[n]) \in LocksOf(s)
<1>1. \A m \in LockedIn(s) : LockOf(m, s.node[m]).token = s.node[m].token
  BY DEF LockOf
<1>2. DOMAIN s.byToken = {s.node[n].token : n \in LockedIn(s)}
  BY DEF IndexOK
<1>3. \A m \in LockedIn(s) : s.byToken[s.node[m].token] = m
  BY DEF IndexOK
<1>4. QED
  BY <1>1, <1>2, <1>3 DEF LocksOf

(* The locks once that at n has changed: all others are the same.           *)
LEMMA OneChanged ==
  ASSUME NEW s, IndexOK(s), NEW n \in LockedIn(s), NEW t,
         LockedIn(t) = LockedIn(s),
         \A m \in LockedIn(s) : m # n => t.node[m] = s.node[m]
  PROVE  LocksOf(t) = (LocksOf(s) \ {LockOf(n, s.node[n])}) \cup {LockOf(n, t.node[n])}
<1>1. \A m \in LockedIn(s) : LockOf(m, s.node[m]).root = m
  BY DEF LockOf
<1>2. \A m \in LockedIn(s) : m # n => LockOf(m, s.node[m]) # LockOf(n, s.node[n])
  BY <1>1
<1>3. LocksOf(t) = {LockOf(m, t.node[m]) : m \in LockedIn(s)}
  BY DEF LocksOf
<1>4. QED
  BY <1>2, <1>3 DEF LocksOf

LEMMA RefreshStep ==
  ASSUME Inv, NEW now \in Times, NEW token \in Tokens, NEW duration \in Durations,
         Refresh(CollectExpiredNodes(now), now, token, duration)
  PROVE  Inv' /\ Table!TableRefresh(Table!InForce(now), now, token, duration)
<1> DEFINE s == CollectExpiredNodes(now)
           t == Table!InForce(now)
           n == s.byToken[token]
           lasting == Lasting(s.node[n], now, duration)
           unqueued == [s EXCEPT !.byExpiry = @ \ {n}, !.node[n] = Lasting(@, now, duration)]
           l == LockOf(n, s.node[n])
<1>1. IndexOK(s) /\ ClaimsOK(s, claims) /\ s.gen = ls.gen /\ LocksOf(s) = t
  BY Collected
<1>2. /\ claims' = claims
      /\ \/ token \notin DOMAIN s.byToken /\ ls' = s /\ answer' = "no such lock"
         \/ token \in DOMAIN s.byToken /\ s.node[n].held /\ ls' = s /\ answer' = "locked"
         \/ /\ token \in DOMAIN s.byToken /\ ~s.node[n].held
            /\ ls' = [unqueued EXCEPT !.byExpiry = Queued(unqueued, n)]
            /\ answer' = "ok"
  BY Zenon DEF Refresh
<1> HIDE DEF s, t
<1>3. ASSUME ls' = s PROVE Inv' /\ Locks' = t /\ ls'.gen = ls.gen
  BY <1>1, <1>2, <1>3, ZenonT(60) DEF Inv, Locks, LocksOf, LockOf, LockedIn
<1>4. CASE token \notin DOMAIN s.byToken /\ ls' = s /\ answer' = "no such lock"
  <2>1. \A k \in t : k.token # token
    BY <1>1, <1>4, ByToken
  <2>2. Table!Refused(t, token)
    BY <1>3, <1>4, <2>1 DEF Table!Refused, Table!Free
  <2>3. QED
    BY <1>2, <1>3, <1>4, <2>2 DEF Table!TableRefresh, t
<1>5. CASE token \in DOMAIN s.byToken /\ s.node[n].held /\ ls' = s /\ answer' = "locked"
  <2>1. /\ \A k \in t : k.token = token <=> k = l
        /\ l \in t
    BY <1>1, <1>5, ByToken
  <2>2. l.held
    BY <1>5 DEF LockOf
  <2>3. Table!Refused(t, token)
    BY <1>3, <1>5, <2>1, <2>2 DEF Table!Refused, Table!Free
  <2>4. QED
    BY <1>2, <1>3, <1>5, <2>3 DEF Table!TableRefresh, t
<1>6. CASE /\ token \in DOMAIN s.byToken /\ ~s.node[n].held
           /\ ls' = [unqueued EXCEPT !.byExpiry = Queued(unqueued, n)]
           /\ answer' = "ok"
  <2>1. /\ n \in LockedIn(s) /\ s.node[n].token = token
        /\ \A k \in t : k.token = token <=> k = l
        /\ l \in t
    BY <1>1, <1>6, ByToken
  <2>2. n \in Names /\ s \in State /\ s.node[n] \in Node /\ s.node \in [Names -> Node] /\ s.byExpiry \subseteq Names
    BY <1>1, <2>1, NodeOf DEF IndexOK, State
  <2>3. /\ lasting \in Node /\ lasting.token = token /\ lasting.zeroDepth = s.node[n].zeroDepth
        /\ lasting.held = FALSE /\ lasting.refs = s.node[n].refs
        /\ (IF lasting.timed THEN lasting.expiry ELSE Never) = Deadline(now, duration)
    <3>1. CASE duration = Never
      <4>1. lasting = [s.node[n] EXCEPT !.timed = FALSE]
        BY <3>1 DEF Lasting
      <4> HIDE DEF lasting
      <4>2. QED
        BY <1>6, <2>1, <2>2, <3>1, <4>1 DEF Node, Deadline
    <3>2. CASE duration # Never
      <4>1. lasting = [s.node[n] EXCEPT !.timed = TRUE, !.expiry = now + duration]
        BY <3>2 DEF Lasting
      <4>2. now + duration \in Nat
        BY <3>2, TimesAssumption DEF Times
      <4> HIDE DEF lasting
      <4>3. QED
        BY <1>6, <2>1, <2>2, <3>2, <4>1, <4>2 DEF Node, Deadline
    <3>3. QED
      BY <3>1, <3>2
  <2> DEFINE node == [s.node EXCEPT ![n] = lasting]
             byExpiry == IF lasting.timed THEN (s.byExpiry \ {n}) \cup {n} ELSE s.byExpiry \ {n}
  <2>4. unqueued = [s EXCEPT !.byExpiry = s.byExpiry \ {n}, !.node = node]
    BY <2>2, Zenon DEF State
  <2> HIDE DEF lasting, unqueued, n
  <2>5. node \in [Names -> Node] /\ node[n] = lasting /\ \A m \in Names : m # n => node[m] = s.node[m]
    BY <2>2, <2>3
  <2> HIDE DEF node
  <2>6. unqueued = [node |-> node, byName |-> s.byName, byToken |-> s.byToken,
                    byExpiry |-> s.byExpiry \ {n}, gen |-> s.gen]
    BY <2>2, <2>4 DEF State
  <2>7. Queued(unqueued, n) = byExpiry
    BY <2>5, <2>6 DEF Queued
  <2> HIDE DEF byExpiry
  <2>8. ls' = [node |-> node, byName |-> s.byName, byToken |-> s.byToken,
               byExpiry |-> byExpiry, gen |-> s.gen]
    BY <1>6, <2>6, <2>7
  <2>9. ls' \in State /\ ls'.node = node /\ ls'.byExpiry = byExpiry /\ ls'.gen = s.gen
        /\ ls'.byName = s.byName /\ ls'.byToken = s.byToken
    BY <2>2, <2>5, <2>8 DEF State, byExpiry
  <2>10. IndexOK(ls') /\ LockedIn(ls') = LockedIn(s)
    <3>1. \A m \in Names : node[m].token = s.node[m].token /\ node[m].refs = s.node[m].refs
      BY <2>1, <2>3, <2>5
    <3>2. \A m \in Names \ LockedIn(s) : ~node[m].held
      BY <1>1, <2>1, <2>5 DEF IndexOK
    <3>3. byExpiry = {m \in LockedIn(s) : node[m].timed /\ ~node[m].held}
      BY <1>1, <2>1, <2>2, <2>3, <2>5 DEF IndexOK, byExpiry, LockedIn
    <3>4. QED
      BY <1>1, <2>9, <3>1, <3>2, <3>3, SameIndex
  <2>11. ClaimsOK(ls', claims')
    BY <1>1, <1>2, <1>6, <2>5, <2>9, <2>10 DEF ClaimsOK, LockedIn
  <2>12. LockOf(n, node[n]) = [l EXCEPT !.deadline = Deadline(now, duration)]
    <3> DEFINE deadline == IF s.node[n].timed THEN s.node[n].expiry ELSE Never
               k == [l EXCEPT !.deadline = Deadline(now, duration)]
    <3>1. l = [token |-> token, root |-> n, zeroDepth |-> s.node[n].zeroDepth,
               deadline |-> deadline, held |-> FALSE]
      BY <1>6, <2>1, <2>2 DEF LockOf, Node
    <3>2. k = [l EXCEPT !.deadline = Deadline(now, duration)]
      OBVIOUS
    <3> HIDE DEF l, k, deadline
    <3>3. k = [token |-> token, root |-> n, zeroDepth |-> s.node[n].zeroDepth,
               deadline |-> Deadline(now, duration), held |-> FALSE]
      BY <3>1, <3>2
    <3>4. LockOf(n, node[n]) = k
      BY <2>3, <2>5, <3>3 DEF LockOf
    <3>5. QED
      BY <3>2, <3>4
  <2>13. Locks' = (t \ {l}) \cup {[l EXCEPT !.deadline = Deadline(now, duration)]}
    <3>1. LocksOf(ls') = (t \ {l}) \cup {LockOf(n, node[n])}
      BY <1>1, <2>1, <2>2, <2>5, <2>9, <2>10, OneChanged DEF LockedIn
    <3>2. Locks' = LocksOf(ls')
      BY DEF Locks, LocksOf, LockOf, LockedIn
    <3>3. QED
      BY <2>12, <3>1, <3>2
  <2>14. l \in Table!Free(t, token)
    BY <1>6, <2>1 DEF Table!Free, LockOf
  <2>15. Table!TableRefresh(t, now, token, duration)
    BY <1>1, <1>2, <1>6, <2>9, <2>13, <2>14 DEF Table!TableRefresh, Table!Deadline, Deadline
  <2>16. QED
    BY <2>10, <2>11, <2>15 DEF Inv, t
<1>7. QED
  BY <1>2, <1>4, <1>5, <1>6
LEMMA UnlockStep ==
  ASSUME Inv, NEW now \in Times, NEW token \in Tokens,
         Unlock(CollectExpiredNodes(now), token)
  PROVE  Inv' /\ Table!TableUnlock(Table!InForce(now), token)
<1> DEFINE s == CollectExpiredNodes(now)
           t == Table!InForce(now)
           n == s.byToken[token]
           l == LockOf(n, s.node[n])
<1>1. IndexOK(s) /\ ClaimsOK(s, claims) /\ s.gen = ls.gen /\ LocksOf(s) = t
  BY Collected
<1>2. /\ claims' = claims
      /\ \/ token \notin DOMAIN s.byToken /\ ls' = s /\ answer' = "no such lock"
         \/ token \in DOMAIN s.byToken /\ s.node[n].held /\ ls' = s /\ answer' = "locked"
         \/ /\ token \in DOMAIN s.byToken /\ ~s.node[n].held
            /\ ls' = Remove(s, {n}) /\ answer' = "ok"
  BY Zenon DEF Unlock
<1> HIDE DEF s, t
<1>3. ASSUME ls' = s PROVE Inv' /\ Locks' = t /\ ls'.gen = ls.gen
  BY <1>1, <1>2, <1>3 DEF Inv, Locks, LocksOf, LockOf, LockedIn
<1>4. CASE token \notin DOMAIN s.byToken /\ ls' = s /\ answer' = "no such lock"
  <2>1. \A k \in t : k.token # token
    BY <1>1, <1>4, ByToken
  <2>2. Table!Refused(t, token)
    BY <1>3, <1>4, <2>1 DEF Table!Refused, Table!Free
  <2>3. QED
    BY <1>2, <1>3, <1>4, <2>2 DEF Table!TableUnlock, t
<1>5. CASE token \in DOMAIN s.byToken /\ s.node[n].held /\ ls' = s /\ answer' = "locked"
  <2>1. /\ \A k \in t : k.token = token <=> k = l
        /\ l \in t
    BY <1>1, <1>5, ByToken
  <2>2. l.held
    BY <1>5 DEF LockOf
  <2>3. Table!Refused(t, token)
    BY <1>3, <1>5, <2>1, <2>2 DEF Table!Refused, Table!Free
  <2>4. QED
    BY <1>2, <1>3, <1>5, <2>3 DEF Table!TableUnlock, t
<1>6. CASE /\ token \in DOMAIN s.byToken /\ ~s.node[n].held
           /\ ls' = Remove(s, {n}) /\ answer' = "ok"
  <2>1. /\ n \in LockedIn(s) /\ s.node[n].token = token
        /\ l \in t /\ \A k \in t : k.token = token <=> k = l
    BY <1>1, <1>6, ByToken
  <2> HIDE DEF n
  <2>2. Without(s, ls', {n})
    BY <1>1, <1>6, <2>1, RemoveIndex
  <2>3. ClaimsOK(ls', claims')
    BY <1>1, <1>2, <1>6, <2>2, ZenonT(60) DEF ClaimsOK, Without, SameLock
  <2>4. Locks' = t \ {l}
    <3>1. \A m \in LockedIn(s) \ {n} : LockOf(m, ls'.node[m]) = LockOf(m, s.node[m])
      BY <2>2 DEF Without, SameLock, LockOf
    <3>2. \A m \in LockedIn(s) : m # n => LockOf(m, s.node[m]) # l
      BY DEF LockOf
    <3>3. LocksOf(ls') = {LockOf(m, ls'.node[m]) : m \in LockedIn(s) \ {n}}
      BY <2>2 DEF LocksOf, Without
    <3>4. LocksOf(ls') = LocksOf(s) \ {l}
      BY <2>1, <3>1, <3>2, <3>3 DEF LocksOf
    <3>5. Locks' = LocksOf(ls')
      BY DEF Locks, LocksOf, LockOf, LockedIn
    <3>6. QED
      BY <1>1, <3>4, <3>5
  <2>5. l \in Table!Free(t, token)
    BY <1>6, <2>1 DEF Table!Free, LockOf
  <2>6. ls'.gen = ls.gen
    BY <1>1, <2>2 DEF Without
  <2>7. Table!TableUnlock(t, token)
    BY <1>2, <1>6, <2>4, <2>5, <2>6 DEF Table!TableUnlock
  <2>8. QED
    BY <2>2, <2>3, <2>7 DEF Inv, t, Without
<1>7. QED
  BY <1>2, <1>4, <1>5, <1>6

-----------------------------------------------------------------------------
(* Marks set or taken away at some locks: mark is "held" or "free".         *)
Marked(r, mark) == [r EXCEPT !.held = (mark = "held")]

LEMMA HoldIndex ==
  ASSUME NEW s, IndexOK(s), NEW roots \in SUBSET LockedIn(s)
  PROVE  LET t == Hold(s, roots)
         IN  /\ IndexOK(t) /\ LockedIn(t) = LockedIn(s) /\ t.gen = s.gen
             /\ \A n \in Names : t.node[n] = IF n \in roots THEN Marked(s.node[n], "held")
                                                            ELSE s.node[n]
<1> DEFINE node == [n \in Names |-> IF n \in roots THEN [s.node[n] EXCEPT !.held = TRUE] ELSE s.node[n]]
           t == Hold(s, roots)
<1>1. s \in State /\ roots \subseteq Names /\ \A n \in Names : s.node[n] \in Node
  BY NodeOf DEF IndexOK
<1>2. t = [s EXCEPT !.node = node, !.byExpiry = s.byExpiry \ roots]
  BY Zenon DEF Hold
<1>3. /\ node \in [Names -> Node]
      /\ \A n \in Names : /\ node[n].token = s.node[n].token /\ node[n].refs = s.node[n].refs
                          /\ node[n].timed = s.node[n].timed
                          /\ node[n].held = (s.node[n].held \/ n \in roots)
  <2> SUFFICES ASSUME NEW n \in Names
               PROVE  /\ node[n] \in Node
                      /\ node[n].token = s.node[n].token /\ node[n].refs = s.node[n].refs
                      /\ node[n].timed = s.node[n].timed
                      /\ node[n].held = (s.node[n].held \/ n \in roots)
    OBVIOUS
  <2>1. s.node[n] \in Node
    BY <1>1
  <2>2. CASE n \in roots
    BY <2>1, <2>2 DEF Node
  <2>3. CASE n \notin roots
    BY <2>1, <2>3 DEF Node
  <2>4. QED
    BY <2>2, <2>3
<1>4. \A n \in Names : node[n] = IF n \in roots THEN Marked(s.node[n], "held") ELSE s.node[n]
  BY DEF Marked
<1> HIDE DEF node, t
<1>5. t = [node |-> node, byName |-> s.byName, byToken |-> s.byToken,
           byExpiry |-> s.byExpiry \ roots, gen |-> s.gen]
  BY <1>1, <1>2 DEF State
<1>6. t \in State
  BY <1>1, <1>3, <1>5 DEF State
<1>7. s.byExpiry \ roots = {n \in LockedIn(s) : node[n].timed /\ ~node[n].held}
  BY <1>1, <1>3 DEF IndexOK, LockedIn
<1>8. \A n \in Names \ LockedIn(s) : ~node[n].held
  BY <1>3 DEF IndexOK
<1>9. IndexOK(t) /\ LockedIn(t) = LockedIn(s)
  BY <1>3, <1>5, <1>6, <1>7, <1>8, SameIndex
<1>10. QED
  BY <1>4, <1>5, <1>9 DEF t

LEMMA UnholdIndex ==
  ASSUME NEW s, IndexOK(s), NEW roots \in SUBSET LockedIn(s)
  PROVE  LET t == Unhold(s, roots)
         IN  /\ IndexOK(t) /\ LockedIn(t) = LockedIn(s) /\ t.gen = s.gen
             /\ \A n \in Names : t.node[n] = IF n \in roots THEN Marked(s.node[n], "free")
                                                            ELSE s.node[n]
<1> DEFINE node == [n \in Names |-> IF n \in roots THEN [s.node[n] EXCEPT !.held = FALSE] ELSE s.node[n]]
           byExpiry == s.byExpiry \cup {n \in roots : s.node[n].timed}
           t == Unhold(s, roots)
<1>1. s \in State /\ roots \subseteq Names /\ \A n \in Names : s.node[n] \in Node
  BY NodeOf DEF IndexOK
<1>2. t = [s EXCEPT !.node = node, !.byExpiry = byExpiry]
  BY Zenon DEF Unhold
<1>3. /\ node \in [Names -> Node]
      /\ \A n \in Names : /\ node[n].token = s.node[n].token /\ node[n].refs = s.node[n].refs
                          /\ node[n].timed = s.node[n].timed
                          /\ node[n].held = (s.node[n].held /\ n \notin roots)
  <2> SUFFICES ASSUME NEW n \in Names
               PROVE  /\ node[n] \in Node
                      /\ node[n].token = s.node[n].token /\ node[n].refs = s.node[n].refs
                      /\ node[n].timed = s.node[n].timed
                      /\ node[n].held = (s.node[n].held /\ n \notin roots)
    OBVIOUS
  <2>1. s.node[n] \in Node
    BY <1>1
  <2>2. CASE n \in roots
    BY <2>1, <2>2 DEF Node
  <2>3. CASE n \notin roots
    BY <2>1, <2>3 DEF Node
  <2>4. QED
    BY <2>2, <2>3
<1>4. \A n \in Names : node[n] = IF n \in roots THEN Marked(s.node[n], "free") ELSE s.node[n]
  BY DEF Marked
<1>5. byExpiry \subseteq Names /\ byExpiry = {n \in LockedIn(s) : node[n].timed /\ ~node[n].held}
  BY <1>1, <1>3, ZenonT(90) DEF IndexOK, LockedIn
<1> HIDE DEF node, byExpiry, t
<1>6. t = [node |-> node, byName |-> s.byName, byToken |-> s.byToken,
           byExpiry |-> byExpiry, gen |-> s.gen]
  BY <1>1, <1>2 DEF State
<1>7. t \in State
  BY <1>1, <1>3, <1>5, <1>6 DEF State
<1>8. \A n \in Names \ LockedIn(s) : ~node[n].held
  BY <1>3 DEF IndexOK
<1>9. IndexOK(t) /\ LockedIn(t) = LockedIn(s)
  BY <1>3, <1>5, <1>6, <1>7, <1>8, SameIndex
<1>10. QED
  BY <1>4, <1>6, <1>9 DEF t
MarkedSet(L, roots, mark) == {IF l.root \in roots THEN Marked(l, mark) ELSE l : l \in L}
Marking(s, t, roots, mark) ==
  /\ LockedIn(t) = LockedIn(s)
  /\ \A n \in Names : t.node[n] = IF n \in roots THEN Marked(s.node[n], mark) ELSE s.node[n]

LEMMA MarkedLocks ==
  ASSUME NEW s, IndexOK(s), NEW roots \in SUBSET LockedIn(s), NEW mark, NEW t,
         Marking(s, t, roots, mark)
  PROVE  LocksOf(t) = MarkedSet(LocksOf(s), roots, mark)
<1>0. /\ LockedIn(t) = LockedIn(s)
      /\ \A n \in Names : t.node[n] = IF n \in roots THEN Marked(s.node[n], mark) ELSE s.node[n]
  BY DEF Marking
<1> DEFINE marked(l) == IF l.root \in roots THEN Marked(l, mark) ELSE l
<1>1. ASSUME NEW n \in LockedIn(s)
      PROVE  LockOf(n, t.node[n]) = marked(LockOf(n, s.node[n]))
  <2>1. s.node[n] \in Node /\ n \in Names
    BY NodeOf
  <2> DEFINE l == LockOf(n, s.node[n])
             node == Marked(s.node[n], mark)
             k == Marked(l, mark)
             deadline == IF s.node[n].timed THEN s.node[n].expiry ELSE Never
  <2>2. l = [token |-> s.node[n].token, root |-> n, zeroDepth |-> s.node[n].zeroDepth,
             deadline |-> deadline, held |-> s.node[n].held]
    BY DEF LockOf
  <2>3. node = [s.node[n] EXCEPT !.held = (mark = "held")] /\ k = [l EXCEPT !.held = (mark = "held")]
    BY DEF Marked
  <2> HIDE DEF l, node, k
  <2>4. /\ node.token = s.node[n].token /\ node.zeroDepth = s.node[n].zeroDepth
        /\ node.timed = s.node[n].timed /\ node.expiry = s.node[n].expiry /\ node.held = (mark = "held")
    BY <2>1, <2>3 DEF Node
  <2>5. LockOf(n, node) = [token |-> s.node[n].token, root |-> n, zeroDepth |-> s.node[n].zeroDepth,
                           deadline |-> deadline, held |-> (mark = "held")]
    BY <2>4 DEF LockOf
  <2> HIDE DEF deadline
  <2>6. k = [token |-> s.node[n].token, root |-> n, zeroDepth |-> s.node[n].zeroDepth,
             deadline |-> deadline, held |-> (mark = "held")]
    BY <2>2, <2>3
  <2>7. l.root = n /\ t.node[n] = IF n \in roots THEN node ELSE s.node[n]
    BY <1>0, <2>1, <2>2 DEF node
  <2>8. LockOf(n, t.node[n]) = IF n \in roots THEN k ELSE l
    BY <2>5, <2>6, <2>7 DEF l
  <2>9. LockOf(n, t.node[n]) = marked(l)
    BY <2>7, <2>8 DEF k
  <2>10. QED
    BY <2>9 DEF l
<1> HIDE DEF marked
<1>2. LocksOf(t) = {marked(l) : l \in LocksOf(s)}
  BY <1>0, <1>1 DEF LocksOf
<1>3. QED
  BY <1>2 DEF marked, MarkedSet

(* lookup finds the locks that the table has for the resource.              *)
LEMMA LookupIff ==
  ASSUME NEW s, IndexOK(s), NEW name \in Names, NEW tokens \in SUBSET Tokens
  PROVE  Lookup(s, name, tokens) =
           {n \in LockedIn(s) : LET l == LockOf(n, s.node[n])
                                IN  l.token \in tokens /\ ~l.held /\ Table!Covers(l, name)}
<1>1. {s.byToken[u] : u \in tokens \cap DOMAIN s.byToken} = {n \in LockedIn(s) : s.node[n].token \in tokens}
  BY DEF IndexOK
<1>2. \A n : LET l == LockOf(n, s.node[n])
             IN  l.token = s.node[n].token /\ l.root = n /\ l.zeroDepth = s.node[n].zeroDepth
                   /\ l.held = s.node[n].held
  BY DEF LockOf
<1>3. QED
  BY <1>1, <1>2 DEF Lookup, Table!Covers

LEMMA ConfirmStep ==
  ASSUME Inv, NEW now \in Times, NEW names \in Claimed, NEW tokens \in Conditions,
         Confirm(CollectExpiredNodes(now), names, tokens)
  PROVE  Inv' /\ Table!TableConfirm(Table!InForce(now), names, tokens)
<1> DEFINE s == CollectExpiredNodes(now)
           t == Table!InForce(now)
           free(x) == {l \in t : l.token \in tokens /\ ~l.held /\ Table!Covers(l, x)}
           at(n) == LockOf(n, s.node[n])
<1>1. IndexOK(s) /\ ClaimsOK(s, claims) /\ s.gen = ls.gen /\ LocksOf(s) = t
  BY Collected
<1>2. names \subseteq Names /\ tokens \in SUBSET Tokens
  BY DEF Claimed, Conditions, Pairs
<1>3. \/ /\ \E name \in names : Lookup(s, name, tokens) = {}
         /\ ls' = s /\ answer' = "failed" /\ claims' = claims
      \/ /\ answer' = "ok"
         /\ \E by \in [names -> Names] :
              /\ \A name \in names : by[name] \in Lookup(s, name, tokens)
              /\ ls' = Hold(s, {by[name] : name \in names})
              /\ claims' = claims \cup {[names |-> names, roots |-> {by[name] : name \in names}]}
  BY Zenon DEF Confirm
<1>4. \A x \in names : Lookup(s, x, tokens) = {n \in LockedIn(s) : at(n) \in free(x)}
  <2> SUFFICES ASSUME NEW x \in names
               PROVE  Lookup(s, x, tokens) = {n \in LockedIn(s) : at(n) \in free(x)}
    OBVIOUS
  <2>1. Lookup(s, x, tokens) = {n \in LockedIn(s) : at(n).token \in tokens /\ ~at(n).held /\ Table!Covers(at(n), x)}
    BY <1>1, <1>2, LookupIff
  <2>2. \A n \in LockedIn(s) : at(n) \in t
    BY <1>1 DEF LocksOf
  <2>3. QED
    BY <2>1, <2>2
<1> HIDE DEF s, t
<1>5. CASE /\ \E name \in names : Lookup(s, name, tokens) = {}
           /\ ls' = s /\ answer' = "failed" /\ claims' = claims
  <2>1. \E x \in names : free(x) = {}
    BY <1>1, <1>4, <1>5 DEF LocksOf
  <2>2. Inv' /\ Locks' = t /\ ls'.gen = ls.gen
    BY <1>1, <1>5 DEF Inv, Locks, LocksOf, LockOf, LockedIn
  <2>3. Table!TableConfirm(t, names, tokens)
    BY <1>5, <2>1, <2>2 DEF Table!TableConfirm
  <2>4. QED
    BY <2>2, <2>3 DEF t
<1>6. ASSUME NEW by \in [names -> Names], answer' = "ok",
             \A name \in names : by[name] \in Lookup(s, name, tokens),
             ls' = Hold(s, {by[name] : name \in names}),
             claims' = claims \cup {[names |-> names, roots |-> {by[name] : name \in names}]}
      PROVE  Inv' /\ Table!TableConfirm(t, names, tokens)
  <2> DEFINE roots == {by[name] : name \in names}
             bt == [x \in names |-> at(by[x])]
             taken == {bt[x] : x \in names}
             claim == [names |-> names, roots |-> roots]
  <2>1. /\ roots \in SUBSET LockedIn(s)
        /\ \A x \in names : by[x] \in LockedIn(s) /\ at(by[x]) \in free(x)
    BY <1>4, <1>6
  <2>2. \A n \in LockedIn(s) : at(n).root = n /\ at(n).held = s.node[n].held
    BY DEF LockOf
  <2>3. \A n \in roots : ~s.node[n].held
    BY <2>1, <2>2
  <2>4. bt \in [names -> t] /\ \A x \in names : bt[x] \in free(x)
    BY <2>1
  <2>5. taken = {at(n) : n \in roots} /\ {l.root : l \in taken} = roots
    BY <2>1, <2>2
  <2>6. \A l \in t : l \in taken <=> l.root \in roots
    BY <1>1, <2>1, <2>2, <2>5 DEF LocksOf
  <2>7. taken \subseteq t
    BY <2>4
  <2>8. /\ IndexOK(ls') /\ LockedIn(ls') = LockedIn(s) /\ ls'.gen = s.gen
        /\ \A n \in Names : ls'.node[n] = IF n \in roots THEN Marked(s.node[n], "held")
                                                         ELSE s.node[n]
    BY <1>1, <1>6, <2>1, HoldIndex
  <2>9. LocksOf(ls') = {IF l.root \in roots THEN Marked(l, "held") ELSE l : l \in t}
    <3>1. Marking(s, ls', roots, "held")
      BY <2>8 DEF Marking
    <3> HIDE DEF roots
    <3>2. LocksOf(ls') = MarkedSet(t, roots, "held")
      BY <1>1, <2>1, <3>1, MarkedLocks
    <3>3. QED
      BY <3>2 DEF MarkedSet
  <2> HIDE DEF taken, bt
  <2>10. Locks' = (t \ taken) \cup {[l EXCEPT !.held = TRUE] : l \in taken}
    <3>1. Locks' = LocksOf(ls')
      BY DEF Locks, LocksOf, LockOf, LockedIn
    <3> DEFINE kept(l) == Marked(l, "held")
    <3>2. LocksOf(ls') = {IF l.root \in roots THEN kept(l) ELSE l : l \in t}
      BY <2>9
    <3> HIDE DEF kept, roots
    <3>3. LocksOf(ls') = (t \ taken) \cup {kept(l) : l \in taken}
      BY <2>6, <2>7, <3>2
    <3>4. \A l : kept(l) = [l EXCEPT !.held = TRUE]
      BY DEF kept, Marked
    <3>5. QED
      BY <3>1, <3>3, <3>4
  <2>11. claims' = claims \cup {[names |-> names, roots |-> {l.root : l \in taken}]}
    BY <1>6, <2>5
  <2>12. Table!TableConfirm(t, names, tokens)
    <3>1. \E f \in [names -> t] :
            /\ \A x \in names : f[x] \in free(x)
            /\ taken = {f[x] : x \in names}
      BY <2>4 DEF taken
    <3>2. PICK f \in [names -> t] :
            /\ \A x \in names : f[x] \in free(x)
            /\ taken = {f[x] : x \in names}
      BY <3>1
    <3>3. /\ Locks' = (t \ {f[x] : x \in names}) \cup {[l EXCEPT !.held = TRUE] : l \in {f[x] : x \in names}}
          /\ claims' = claims \cup {[names |-> names, roots |-> {l.root : l \in {f[x] : x \in names}}]}
      BY <2>10, <2>11, <3>2
    <3>4. ls'.gen = ls.gen
      BY <1>1, <2>8
    <3>5. QED
      BY <1>6, <3>2, <3>3, <3>4, Zenon DEF Table!TableConfirm
  <2>13. ClaimsOK(ls', claims')
    <3>1. \A n \in LockedIn(s) : ls'.node[n].held = (s.node[n].held \/ n \in roots)
      <4> SUFFICES ASSUME NEW n \in LockedIn(s)
                   PROVE  ls'.node[n].held = (s.node[n].held \/ n \in roots)
        OBVIOUS
      <4>1. s.node[n] \in Node /\ n \in Names
        BY <1>1, NodeOf
      <4>2. CASE n \in roots
        BY <2>8, <4>1, <4>2 DEF Node, Marked
      <4>3. CASE n \notin roots
        BY <2>8, <4>1, <4>3 DEF Node
      <4>4. QED
        BY <4>2, <4>3
    <3>2. claims' = claims \cup {claim} /\ claim.roots = roots
      BY <1>6
    <3>3. \A c \in claims : c.roots \cap roots = {}
      BY <1>1, <2>3 DEF ClaimsOK
    <3> HIDE DEF roots, claim
    <3>4. \A c \in claims' : c.roots \subseteq {n \in LockedIn(ls') : ls'.node[n].held}
      BY <1>1, <2>1, <2>8, <3>1, <3>2 DEF ClaimsOK
    <3>5. \A c1, c2 \in claims' : c1 # c2 => c1.roots \cap c2.roots = {}
      BY <1>1, <3>2, <3>3 DEF ClaimsOK
    <3>6. QED
      BY <3>4, <3>5 DEF ClaimsOK
  <2>14. QED
    BY <2>8, <2>12, <2>13 DEF Inv
<1>7. QED
  BY <1>3, <1>5, <1>6 DEF t

LEMMA ReleaseStep ==
  ASSUME Inv, NEW c \in claims, Release(c)
  PROVE  Inv' /\ Table!TableRelease(c)
<1>1. IndexOK(ls) /\ ClaimsOK(ls, claims) /\ c.roots \in SUBSET LockedIn(ls)
  BY DEF Inv, ClaimsOK
<1>2. ls' = Unhold(ls, c.roots) /\ claims' = claims \ {c} /\ answer' = "released"
  BY DEF Release
<1>3. /\ IndexOK(ls') /\ LockedIn(ls') = LockedIn(ls) /\ ls'.gen = ls.gen
      /\ \A n \in Names : ls'.node[n] = IF n \in c.roots THEN Marked(ls.node[n], "free")
                                                         ELSE ls.node[n]
  BY <1>1, <1>2, UnholdIndex
<1>4. Locks' = {IF l.root \in c.roots THEN [l EXCEPT !.held = FALSE] ELSE l : l \in Locks}
  <2>1. LocksOf(ls') = {IF l.root \in c.roots THEN Marked(l, "free") ELSE l : l \in LocksOf(ls)}
    <3>1. Marking(ls, ls', c.roots, "free")
      BY <1>3 DEF Marking
    <3>2. LocksOf(ls') = MarkedSet(LocksOf(ls), c.roots, "free")
      BY <1>1, <3>1, MarkedLocks
    <3>3. QED
      BY <3>2 DEF MarkedSet
  <2>2. Locks' = LocksOf(ls')
    BY DEF Locks, LocksOf, LockOf, LockedIn
  <2>3. QED
    BY <2>1, <2>2, MappedLocks DEF Marked
<1>5. ClaimsOK(ls', claims')
  BY <1>1, <1>2, <1>3, NodeOf DEF ClaimsOK, Marked
<1>6. Table!TableRelease(c)
  BY <1>2, <1>3, <1>4 DEF Table!TableRelease
<1>7. QED
  BY <1>3, <1>5, <1>6 DEF Inv

-----------------------------------------------------------------------------
LEMMA InvInit == Init => Inv /\ Table!TableInit
<1> SUFFICES ASSUME Init PROVE Inv /\ Table!TableInit
  OBVIOUS
<1>1. /\ ls = NewMemLS /\ claims = {} /\ answer = "none"
  BY DEF Init
<1>2. /\ ls.node = [n \in Names |-> NoNode] /\ ls.byName = {} /\ ls.byToken = <<>>
      /\ ls.byExpiry = {} /\ ls.gen = 0
      /\ ls = [node |-> ls.node, byName |-> ls.byName, byToken |-> ls.byToken,
               byExpiry |-> ls.byExpiry, gen |-> ls.gen]
  BY <1>1 DEF NewMemLS
<1>3. NoNode \in Node /\ NoNode.token = NoToken /\ NoNode.refs = 0 /\ ~NoNode.held
  BY DEF NoNode, Node, NoToken
<1>4. LockedIn(ls) = {}
  BY <1>2, <1>3 DEF LockedIn
<1>5. ls \in State
  <2>1. <<>> \in [{} -> Names] /\ {} \in SUBSET Nat
    OBVIOUS
  <2>2. <<>> \in TokenMap
    BY <2>1 DEF TokenMap
  <2>3. QED
    BY <1>2, <1>3, <2>2 DEF State
<1>6. \A n \in Names : Walks({}, n) = 0
  BY WalksNat
<1>7. IndexOK(ls)
  BY <1>2, <1>3, <1>4, <1>5, <1>6 DEF IndexOK
<1>8. Locks = {}
  BY <1>4, MappedLocks DEF LocksOf
<1>9. QED
  BY <1>1, <1>2, <1>7, <1>8 DEF Inv, ClaimsOK, Table!TableInit

LEMMA InvNext == Inv /\ [Next]_vars => Inv' /\ [Table!TableNext]_(Table!tvars)
<1> SUFFICES ASSUME Inv, [Next]_vars PROVE Inv' /\ [Table!TableNext]_(Table!tvars)
  OBVIOUS
<1>1. CASE UNCHANGED vars
  <2>1. ls' = ls /\ claims' = claims /\ answer' = answer
    BY <1>1 DEF vars
  <2>2. Locks' = Locks
    BY <2>1 DEF Locks
  <2>3. QED
    BY <2>1, <2>2 DEF Inv, Table!tvars
<1>2. ASSUME NEW now \in Times, NEW root \in Names, NEW zeroDepth \in BOOLEAN, NEW duration \in Durations,
             Create(CollectExpiredNodes(now), now, root, zeroDepth, duration)
      PROVE  Inv' /\ Table!TableNext
  BY <1>2, CreateStep, Zenon DEF Table!TableNext, Table!Times, Times
<1>3. ASSUME NEW now \in Times, NEW token \in Tokens, NEW duration \in Durations,
             Refresh(CollectExpiredNodes(now), now, token, duration)
      PROVE  Inv' /\ Table!TableNext
  BY <1>3, RefreshStep, Zenon DEF Table!TableNext, Table!Times, Times, Table!Tokens, Tokens
<1>4. ASSUME NEW now \in Times, NEW token \in Tokens, Unlock(CollectExpiredNodes(now), token)
      PROVE  Inv' /\ Table!TableNext
  BY <1>4, UnlockStep, Zenon DEF Table!TableNext, Table!Times, Times, Table!Tokens, Tokens
<1>5. ASSUME NEW now \in Times, NEW names \in Claimed, NEW tokens \in Conditions,
             Confirm(CollectExpiredNodes(now), names, tokens)
      PROVE  Inv' /\ Table!TableNext
  <2>1. Inv' /\ Table!TableConfirm(Table!InForce(now), names, tokens)
    BY <1>5, ConfirmStep
  <2>2. Table!Times = Times /\ Table!Claimed = Claimed /\ Table!Conditions = Conditions
    BY DEF Table!Times, Times, Table!Claimed, Claimed, Table!Conditions, Conditions,
           Table!Pairs, Pairs, Table!Tokens, Tokens
  <2>3. now \in Table!Times /\ names \in Table!Claimed /\ tokens \in Table!Conditions
    BY <2>2
  <2>4. QED
    BY <2>1, <2>3, Zenon DEF Table!TableNext
<1>6. ASSUME NEW c \in claims, Release(c)
      PROVE  Inv' /\ Table!TableNext
  BY <1>6, ReleaseStep, Zenon DEF Table!TableNext
<1>7. QED
  BY <1>1, <1>2, <1>3, <1>4, <1>5, <1>6 DEF Next

LEMMA Invariant == Spec => []Inv
<1>1. Init => Inv
  BY InvInit
<1>2. Inv /\ [Next]_vars => Inv'
  BY InvNext
<1>3. QED
  BY <1>1, <1>2, PTL DEF Spec

(* The indexes of memLS agree: a name has a node exactly when a lock needs  *)
(* it, byToken finds every lock, byExpiry those that may lapse.             *)
THEOREM IndexesAgree == Spec => []TypeOK
<1>1. Inv => TypeOK
  BY DEF Inv, IndexOK, TypeOK, Locked, LockedIn, State, Node
<1>2. QED
  BY <1>1, Invariant, PTL

(* Every method does to the locks, to the claims and to its caller what the *)
(* table of locks prescribes (lock.go, LockSystem).                         *)
THEOREM Refinement == Spec => Promise
<1>1. Init => Table!TableInit
  BY InvInit
<1>2. Inv /\ [Next]_vars => [Table!TableNext]_(Table!tvars)
  BY InvNext
<1>3. QED
  BY <1>1, <1>2, Invariant, PTL DEF Spec, Promise, Table!TableSpec

-----------------------------------------------------------------------------
(* What the table of locks promises by itself.                              *)

(* The locks L and the claims C agree: a token names one lock, no two locks *)
(* conflict, and what a claim names is covered by locks that it holds and   *)
(* that no other claim holds.                                               *)
Distinct(L) ==
  \A l1, l2 \in L :
    /\ l1.token = l2.token => l1 = l2
    /\ l1.token # l2.token => ~Table!Conflicts(l1, l2.root, l2.zeroDepth)

Backed(L, C) ==
  /\ \A c \in C : \A n \in c.names :
       \E l \in L : l.held /\ l.root \in c.roots /\ Table!Covers(l, n)
  /\ \A l \in L, c \in C : l.root \in c.roots => l.held
  /\ \A c1, c2 \in C : c1 # c2 => c1.roots \cap c2.roots = {}

TableInv ==
  /\ Table!TableTypeOK
  /\ \A l \in Locks : l.token <= ls.gen
  /\ \A c \in claims : \A r \in c.roots : \E l \in Locks : l.root = r
  /\ Distinct(Locks)
  /\ Backed(Locks, claims)

-----------------------------------------------------------------------------
(* Two locks that cover one name conflict: the resources above a name form  *)
(* a chain.                                                                 *)
LEMMA CoveredTwice ==
  ASSUME NEW l1 \in Table!Lock, NEW l2 \in Table!Lock, NEW n \in Names,
         Table!Covers(l1, n), Table!Covers(l2, n)
  PROVE  Table!Conflicts(l1, l2.root, l2.zeroDepth)
<1>1. l1.root \in Up[n] /\ l2.root \in Up[n] /\ n \in Up[n]
  BY NamesAssumption DEF Table!Covers, Table!Lock
<1>2. l1.root \in Names /\ l2.root \in Names
  BY DEF Table!Lock
<1>3. l1.root \in Up[l2.root] \/ l2.root \in Up[l1.root]
  BY <1>1, NamesAssumption
<1>4. \A r \in Names : r \in Up[n] /\ n \in Up[r] => r = n
  BY NamesAssumption
<1>5. CASE l1.root \in Up[l2.root]
  BY <1>1, <1>2, <1>4, <1>5 DEF Table!Covers, Table!Conflicts
<1>6. CASE l2.root \in Up[l1.root]
  BY <1>1, <1>2, <1>4, <1>6 DEF Table!Covers, Table!Conflicts
<1>7. QED
  BY <1>3, <1>5, <1>6

(* Of two locks of one root, each covers the other's root.                  *)
LEMMA OneRoot ==
  ASSUME NEW L \in SUBSET Table!Lock, Distinct(L), NEW l1 \in L, NEW l2 \in L, l1.root = l2.root
  PROVE  l1 = l2
BY DEF Distinct, Table!Conflicts, Table!Covers, Table!Lock

(* "Holding the union of all of those locks gives exclusive access to all   *)
(* of the named resources" (lock.go:37).                                    *)
LEMMA TableInvExclusive == TableInv => Table!Exclusive
<1> SUFFICES ASSUME TableInv PROVE Table!Exclusive
  OBVIOUS
<1>1. \A l1, l2 \in Locks : l1 # l2 => ~Table!Conflicts(l1, l2.root, l2.zeroDepth)
  BY DEF TableInv, Distinct
<1>2. ASSUME NEW c1 \in claims, NEW c2 \in claims, c1 # c2,
             NEW n \in c1.names, n \in c2.names
      PROVE  FALSE
  <2>1. PICK l1 \in Locks : l1.root \in c1.roots /\ Table!Covers(l1, n)
    BY DEF TableInv, Backed
  <2>2. PICK l2 \in Locks : l2.root \in c2.roots /\ Table!Covers(l2, n)
    BY <1>2 DEF TableInv, Backed
  <2>3. n \in Names /\ l1 \in Table!Lock /\ l2 \in Table!Lock
    BY DEF TableInv, Table!TableTypeOK
  <2>4. Table!Conflicts(l1, l2.root, l2.zeroDepth)
    BY <2>1, <2>2, <2>3, CoveredTwice
  <2>5. l1 = l2
    BY <1>1, <2>4
  <2>6. QED
    BY <1>2, <2>1, <2>2, <2>5 DEF TableInv, Backed
<1>3. QED
  BY <1>1, <1>2 DEF Table!Exclusive

-----------------------------------------------------------------------------
(* Lapsed locks go and the rest of the invariant stays: a held lock does    *)
(* not lapse.                                                               *)
LEMMA InForceInv ==
  ASSUME TableInv, NEW now \in Table!Times
  PROVE  /\ Table!InForce(now) \subseteq Table!Lock
         /\ \A l \in Table!InForce(now) : l.token <= ls.gen
         /\ \A c \in claims : \A r \in c.roots : \E l \in Table!InForce(now) : l.root = r
         /\ Distinct(Table!InForce(now))
         /\ Backed(Table!InForce(now), claims)
<1>1. Table!InForce(now) \subseteq Locks /\ \A l \in Locks : l.held => l \in Table!InForce(now)
  BY DEF Table!InForce
<1>2. \A c \in claims : \A r \in c.roots : \E l \in Table!InForce(now) : l.root = r
  BY <1>1 DEF TableInv, Backed
<1>3. Backed(Table!InForce(now), claims)
  <2>1. \A c \in claims : \A n \in c.names :
          \E l \in Table!InForce(now) : l.held /\ l.root \in c.roots /\ Table!Covers(l, n)
    BY <1>1 DEF TableInv, Backed
  <2>2. QED
    BY <1>1, <2>1 DEF TableInv, Backed
<1>4. QED
  BY <1>1, <1>2, <1>3 DEF TableInv, Table!TableTypeOK, Distinct

-----------------------------------------------------------------------------
LEMMA CreateInv ==
  ASSUME TableInv, NEW now \in Table!Times, NEW root \in Names, NEW zeroDepth \in BOOLEAN,
         NEW duration \in Durations,
         Table!TableCreate(Table!InForce(now), now, root, zeroDepth, duration)
  PROVE  TableInv'
<1> DEFINE t == Table!InForce(now)
           new == [token |-> ls.gen + 1, root |-> root, zeroDepth |-> zeroDepth,
                   deadline |-> Table!Deadline(now, duration), held |-> FALSE]
<1>0. /\ t \subseteq Table!Lock /\ \A l \in t : l.token <= ls.gen
      /\ \A c \in claims : \A r \in c.roots : \E l \in t : l.root = r
      /\ Distinct(t) /\ Backed(t, claims)
  BY InForceInv
<1>1. claims' = claims /\ ls.gen \in Nat
  BY DEF Table!TableCreate, TableInv, Table!TableTypeOK
<1>2. CASE Locks' = t /\ ls'.gen = ls.gen /\ answer' = "locked"
  BY <1>0, <1>1, <1>2 DEF TableInv, Table!TableTypeOK, Distinct, Backed
<1>3. CASE /\ Locks' = t \cup {new} /\ ls'.gen = ls.gen + 1 /\ answer' = "ok"
           /\ \A l \in t : ~Table!Conflicts(l, root, zeroDepth)
  <2>1. Table!Deadline(now, duration) \in Nat \cup {Never}
    BY TimesAssumption DEF Table!Deadline, Table!Times
  <2>2. new \in Table!Lock /\ new.root = root /\ new.zeroDepth = zeroDepth /\ new.token = ls.gen + 1 /\ ~new.held
    BY <1>1, <2>1 DEF Table!Lock
  <2> HIDE DEF new
  <2>3. Distinct(Locks')
    <3>1. \A l \in t : l.token # new.token
      BY <1>0, <1>1, <2>2 DEF Table!Lock
    <3>2. \A l \in t : ~Table!Conflicts(new, l.root, l.zeroDepth)
      BY <1>0, <1>3, <2>2 DEF Table!Conflicts, Table!Covers, Table!Lock
    <3>3. QED
      BY <1>0, <1>3, <2>2, <3>1, <3>2 DEF Distinct
  <2>4. Backed(Locks', claims)
    <3>1. \A c \in claims : root \notin c.roots
      <4> SUFFICES ASSUME NEW c \in claims, root \in c.roots PROVE FALSE
        OBVIOUS
      <4>1. PICK l \in t : l.root = root
        BY <1>0
      <4>2. QED
        BY <1>3, <4>1 DEF Table!Conflicts, Table!Covers
    <3>2. QED
      BY <1>0, <1>3, <2>2, <3>1 DEF Backed
  <2>5. \A l \in Locks' : l.token <= ls'.gen
    BY <1>0, <1>1, <1>3, <2>2 DEF Table!Lock
  <2>6. Table!TableTypeOK'
    <3>1. Locks' \subseteq Table!Lock /\ ls'.gen \in Nat
      BY <1>0, <1>1, <1>3, <2>2
    <3>2. claims' \subseteq [names : SUBSET Names, roots : SUBSET Names]
      BY <1>1 DEF TableInv, Table!TableTypeOK
    <3>3. QED
      BY <1>3, <3>1, <3>2 DEF Table!TableTypeOK
  <2>7. \A c \in claims : \A r \in c.roots : \E l \in Locks' : l.root = r
    BY <1>0, <1>3
  <2>8. QED
    BY <1>1, <2>3, <2>4, <2>5, <2>6, <2>7 DEF TableInv
<1>4. QED
  BY <1>2, <1>3 DEF Table!TableCreate

(* A call changes the deadline of a free lock or takes it away.             *)
LEMMA RefreshInv ==
  ASSUME TableInv, NEW now \in Table!Times, NEW token \in Table!Tokens, NEW duration \in Durations,
         Table!TableRefresh(Table!InForce(now), now, token, duration)
  PROVE  TableInv'
<1> DEFINE t == Table!InForce(now)
<1>0. /\ t \subseteq Table!Lock /\ \A l \in t : l.token <= ls.gen
      /\ \A c \in claims : \A r \in c.roots : \E l \in t : l.root = r
      /\ Distinct(t) /\ Backed(t, claims)
  BY InForceInv
<1>1. claims' = claims /\ ls'.gen = ls.gen /\ ls.gen \in Nat
  BY DEF Table!TableRefresh, TableInv, Table!TableTypeOK
<1>2. CASE Table!Refused(t, token)
  BY <1>0, <1>1, <1>2 DEF Table!Refused, TableInv, Table!TableTypeOK, Distinct, Backed
<1>3. ASSUME NEW l \in Table!Free(t, token),
             Locks' = (t \ {l}) \cup {[l EXCEPT !.deadline = Table!Deadline(now, duration)]},
             answer' = "ok"
      PROVE  TableInv'
  <2> DEFINE k == [l EXCEPT !.deadline = Table!Deadline(now, duration)]
  <2>1. Table!Deadline(now, duration) \in Nat \cup {Never}
    BY TimesAssumption DEF Table!Deadline, Table!Times
  <2>2. l \in t /\ l \in Table!Lock /\ ~l.held
    BY <1>0 DEF Table!Free
  <2>3. /\ k \in Table!Lock /\ k.root = l.root /\ k.zeroDepth = l.zeroDepth
        /\ k.token = l.token /\ ~k.held
    BY <2>1, <2>2 DEF Table!Lock
  <2>4. Locks' = (t \ {l}) \cup {k}
    BY <1>3
  <2> HIDE DEF k
  <2>5. Distinct(Locks')
    <3>1. \A m \in t : m # l => m.token # l.token
      BY <1>0, <2>2 DEF Distinct
    <3>2. \A m \in t : m # l => ~Table!Conflicts(m, k.root, k.zeroDepth) /\ ~Table!Conflicts(k, m.root, m.zeroDepth)
      BY <1>0, <2>2, <2>3, <3>1 DEF Distinct, Table!Conflicts, Table!Covers
    <3>3. QED
      BY <1>0, <2>2, <2>3, <2>4, <3>1, <3>2 DEF Distinct
  <2>6. \A c \in claims : k.root \notin c.roots
    BY <1>0, <2>2, <2>3 DEF Backed
  <2>7. Backed(Locks', claims)
    BY <1>0, <2>2, <2>3, <2>4, <2>6 DEF Backed
  <2>8. \A c \in claims : \A r \in c.roots : \E m \in Locks' : m.root = r
    BY <1>0, <2>2, <2>3, <2>4
  <2>9. QED
    BY <1>0, <1>1, <1>3, <2>2, <2>3, <2>4, <2>5, <2>7, <2>8 DEF TableInv, Table!TableTypeOK
<1>4. QED
  BY <1>2, <1>3 DEF Table!TableRefresh

LEMMA UnlockInv ==
  ASSUME TableInv, NEW now \in Table!Times, NEW token \in Table!Tokens,
         Table!TableUnlock(Table!InForce(now), token)
  PROVE  TableInv'
<1> DEFINE t == Table!InForce(now)
<1>0. /\ t \subseteq Table!Lock /\ \A l \in t : l.token <= ls.gen
      /\ \A c \in claims : \A r \in c.roots : \E l \in t : l.root = r
      /\ Distinct(t) /\ Backed(t, claims)
  BY InForceInv
<1>1. claims' = claims /\ ls'.gen = ls.gen /\ ls.gen \in Nat
  BY DEF Table!TableUnlock, TableInv, Table!TableTypeOK
<1>2. CASE Table!Refused(t, token)
  BY <1>0, <1>1, <1>2 DEF Table!Refused, TableInv, Table!TableTypeOK, Distinct, Backed
<1>3. ASSUME NEW l \in Table!Free(t, token), Locks' = t \ {l}, answer' = "ok"
      PROVE  TableInv'
  <2>1. l \in t /\ ~l.held
    BY DEF Table!Free
  <2>2. \A c \in claims : l.root \notin c.roots
    BY <1>0, <2>1 DEF Backed
  <2>3. \A c \in claims : \A r \in c.roots : \E m \in Locks' : m.root = r
    BY <1>0, <1>3, <2>1, <2>2
  <2>4. Backed(Locks', claims)
    BY <1>0, <1>3, <2>1 DEF Backed
  <2>5. QED
    BY <1>0, <1>1, <1>3, <2>3, <2>4 DEF TableInv, Table!TableTypeOK, Distinct
<1>4. QED
  BY <1>2, <1>3 DEF Table!TableUnlock

(* The locks a claim takes were free; it names what they cover.             *)
LEMMA ConfirmInv ==
  ASSUME TableInv, NEW now \in Table!Times, NEW names \in Table!Claimed, NEW tokens \in Table!Conditions,
         Table!TableConfirm(Table!InForce(now), names, tokens)
  PROVE  TableInv'
<1> DEFINE t == Table!InForce(now)
           free(n) == {l \in t : l.token \in tokens /\ ~l.held /\ Table!Covers(l, n)}
<1>0. /\ t \subseteq Table!Lock /\ \A l \in t : l.token <= ls.gen
      /\ \A c \in claims : \A r \in c.roots : \E l \in t : l.root = r
      /\ Distinct(t) /\ Backed(t, claims)
  BY InForceInv
<1>1. ls'.gen = ls.gen /\ ls.gen \in Nat
  BY DEF Table!TableConfirm, TableInv, Table!TableTypeOK
<1>2. CASE answer' = "failed" /\ claims' = claims /\ Locks' = t
  BY <1>0, <1>1, <1>2 DEF TableInv, Table!TableTypeOK, Distinct, Backed
<1>3. ASSUME NEW by \in [names -> t], answer' = "ok",
             \A n \in names : by[n] \in free(n),
             LET taken == {by[n] : n \in names}
             IN /\ Locks' = (t \ taken) \cup {[l EXCEPT !.held = TRUE] : l \in taken}
                /\ claims' = claims \cup
                     {[names |-> names, roots |-> {l.root : l \in taken}]}
      PROVE  TableInv'
  <2> DEFINE taken == {by[n] : n \in names}
             kept(l) == [l EXCEPT !.held = TRUE]
             claim == [names |-> names, roots |-> {l.root : l \in taken}]
  <2>1. taken \subseteq t /\ \A l \in taken : ~l.held
    BY <1>3
  <2>2. \A l \in taken : /\ kept(l) \in Table!Lock /\ kept(l).root = l.root
                         /\ kept(l).zeroDepth = l.zeroDepth
                         /\ kept(l).token = l.token /\ kept(l).held
    BY <1>0, <2>1, ZenonT(90) DEF Table!Lock
  <2>3. /\ \A n \in names : by[n] \in taken /\ Table!Covers(by[n], n)
        /\ names \subseteq Names
    BY <1>3 DEF Table!Claimed, Table!Pairs
  <2>4. /\ Locks' = (t \ taken) \cup {kept(l) : l \in taken}
        /\ claims' = claims \cup {claim}
    BY <1>3
  <2>5. claim.names = names /\ claim.roots = {l.root : l \in taken}
    OBVIOUS
  <2> HIDE DEF taken, kept, claim
  <2>6. \A m \in Locks' : \E l \in t : /\ m.root = l.root /\ m.zeroDepth = l.zeroDepth
                                       /\ m.token = l.token
                                       /\ m = IF l \in taken THEN kept(l) ELSE l
    BY <2>1, <2>2, <2>4
  <2>7. Distinct(Locks')
    <3> SUFFICES ASSUME NEW m1 \in Locks', NEW m2 \in Locks'
                 PROVE  /\ m1.token = m2.token => m1 = m2
                        /\ m1.token # m2.token => ~Table!Conflicts(m1, m2.root, m2.zeroDepth)
      BY DEF Distinct
    <3>1. PICK l1 \in t : /\ m1.root = l1.root /\ m1.zeroDepth = l1.zeroDepth
                          /\ m1.token = l1.token
                          /\ m1 = IF l1 \in taken THEN kept(l1) ELSE l1
      BY <2>6
    <3>2. PICK l2 \in t : /\ m2.root = l2.root /\ m2.zeroDepth = l2.zeroDepth
                          /\ m2.token = l2.token
                          /\ m2 = IF l2 \in taken THEN kept(l2) ELSE l2
      BY <2>6
    <3>3. QED
      BY <1>0, <3>1, <3>2 DEF Distinct, Table!Conflicts, Table!Covers
  <2>8. \A c \in claims : c.roots \cap claim.roots = {}
    <3> SUFFICES ASSUME NEW c \in claims, NEW l \in taken, l.root \in c.roots PROVE FALSE
      BY <2>5
    <3>1. QED
      BY <1>0, <2>1 DEF Backed
  <2>9. \A c \in claims' : \A r \in c.roots : \E l \in Locks' : l.root = r
    <3>1. \A l \in t : \E m \in Locks' : m.root = l.root
      BY <2>2, <2>4
    <3>2. QED
      BY <1>0, <2>1, <2>4, <2>5, <3>1
  <2>10. \A c \in claims' : \A n \in c.names :
           \E l \in Locks' : l.held /\ l.root \in c.roots /\ Table!Covers(l, n)
    <3>1. ASSUME NEW c \in claims, NEW n \in c.names
          PROVE  \E l \in Locks' : l.held /\ l.root \in c.roots /\ Table!Covers(l, n)
      <4>1. PICK l \in t : l.held /\ l.root \in c.roots /\ Table!Covers(l, n)
        BY <1>0 DEF Backed
      <4>2. l \in Locks'
        BY <2>1, <2>4, <4>1
      <4>3. QED
        BY <4>1, <4>2
    <3>2. ASSUME NEW n \in names
          PROVE  \E l \in Locks' : l.held /\ l.root \in claim.roots /\ Table!Covers(l, n)
      <4>1. kept(by[n]) \in Locks' /\ by[n].root \in claim.roots
        BY <2>3, <2>4, <2>5
      <4>2. Table!Covers(kept(by[n]), n) /\ kept(by[n]).held /\ kept(by[n]).root \in claim.roots
        BY <2>2, <2>3, <4>1 DEF Table!Covers
      <4>3. QED
        BY <4>1, <4>2
    <3>3. QED
      BY <2>4, <2>5, <3>1, <3>2
  <2>11. \A l \in Locks', c \in claims' : l.root \in c.roots => l.held
    <3> SUFFICES ASSUME NEW m \in Locks', NEW c \in claims', m.root \in c.roots
                 PROVE  m.held
      OBVIOUS
    <3>1. PICK l \in t : m.root = l.root /\ m = IF l \in taken THEN kept(l) ELSE l
      BY <2>6
    <3>2. CASE l \in taken
      BY <2>2, <3>1, <3>2
    <3>3. CASE l \notin taken /\ c \in claims
      BY <1>0, <3>1, <3>3 DEF Backed
    <3>4. CASE l \notin taken /\ c = claim
      <4>1. PICK k \in taken : k.root = l.root
        BY <2>5, <3>1, <3>4
      <4>2. k = l
        BY <1>0, <2>1, <4>1, OneRoot
      <4>3. QED
        BY <3>4, <4>1, <4>2
    <3>5. QED
      BY <2>4, <3>2, <3>3, <3>4
  <2>12. \A c1, c2 \in claims' : c1 # c2 => c1.roots \cap c2.roots = {}
    BY <1>0, <2>4, <2>8 DEF Backed
  <2>13. Table!TableTypeOK'
    <3>1. Locks' \subseteq Table!Lock
      BY <1>0, <2>1, <2>2, <2>4
    <3>2. claim \in [names : SUBSET Names, roots : SUBSET Names]
      <4>1. \A l \in taken : l.root \in Names
        BY <1>0, <2>1 DEF Table!Lock
      <4>2. QED
        BY <2>3, <4>1 DEF claim
    <3>3. QED
      BY <1>1, <1>3, <2>4, <3>1, <3>2 DEF TableInv, Table!TableTypeOK
  <2>14. \A l \in Locks' : l.token <= ls'.gen
    BY <1>0, <1>1, <2>6
  <2>15. QED
    BY <2>7, <2>9, <2>10, <2>11, <2>12, <2>13, <2>14 DEF TableInv, Backed
<1>4. QED
  BY <1>2, <1>3 DEF Table!TableConfirm

LEMMA ReleaseInv ==
  ASSUME TableInv, NEW c \in claims, Table!TableRelease(c)
  PROVE  TableInv'
<1> DEFINE freed(l) == IF l.root \in c.roots THEN [l EXCEPT !.held = FALSE] ELSE l
<1>0. /\ Locks' = {freed(l) : l \in Locks} /\ claims' = claims \ {c}
      /\ ls'.gen = ls.gen /\ answer' = "released"
  BY DEF Table!TableRelease
<1>1. \A l \in Locks : /\ freed(l) \in Table!Lock /\ freed(l).root = l.root
                       /\ freed(l).zeroDepth = l.zeroDepth /\ freed(l).token = l.token
                       /\ freed(l).held = (l.held /\ l.root \notin c.roots)
  BY DEF TableInv, Table!TableTypeOK, Table!Lock
<1> HIDE DEF freed
<1>2. Distinct(Locks')
  <2> SUFFICES ASSUME NEW l1 \in Locks, NEW l2 \in Locks
               PROVE  /\ freed(l1).token = freed(l2).token => freed(l1) = freed(l2)
                      /\ freed(l1).token # freed(l2).token =>
                           ~Table!Conflicts(freed(l1), freed(l2).root, freed(l2).zeroDepth)
    BY <1>0 DEF Distinct
  <2>1. QED
    BY <1>1 DEF TableInv, Distinct, Table!Conflicts, Table!Covers
<1>3. \A d \in claims' : d.roots \cap c.roots = {}
  BY <1>0 DEF TableInv, Backed
<1>4. Backed(Locks', claims')
  <2>1. ASSUME NEW d \in claims', NEW n \in d.names
        PROVE  \E l \in Locks' : l.held /\ l.root \in d.roots /\ Table!Covers(l, n)
    <3>1. PICK l \in Locks : l.held /\ l.root \in d.roots /\ Table!Covers(l, n)
      BY <1>0 DEF TableInv, Backed
    <3>2. freed(l) \in Locks' /\ freed(l).held /\ freed(l).root \in d.roots /\ Table!Covers(freed(l), n)
      BY <1>0, <1>1, <1>3, <3>1 DEF Table!Covers
    <3>3. QED
      BY <3>2
  <2>2. ASSUME NEW l \in Locks, NEW d \in claims', freed(l).root \in d.roots
        PROVE  freed(l).held
    BY <1>0, <1>1, <1>3, <2>2 DEF TableInv, Backed
  <2>3. QED
    BY <1>0, <2>1, <2>2 DEF TableInv, Backed
<1>5. \A d \in claims' : \A r \in d.roots : \E l \in Locks' : l.root = r
  BY <1>0, <1>1 DEF TableInv
<1>6. Table!TableTypeOK'
  <2>1. Locks' \subseteq Table!Lock
    BY <1>0, <1>1
  <2>2. claims' \subseteq [names : SUBSET Names, roots : SUBSET Names] /\ ls'.gen \in Nat
    BY <1>0 DEF TableInv, Table!TableTypeOK
  <2>3. QED
    BY <1>0, <2>1, <2>2 DEF Table!TableTypeOK
<1>7. \A l \in Locks' : l.token <= ls'.gen
  BY <1>0, <1>1 DEF TableInv
<1>8. QED
  BY <1>2, <1>4, <1>5, <1>6, <1>7 DEF TableInv

-----------------------------------------------------------------------------
LEMMA TableInvInit == Table!TableInit => TableInv
BY DEF Table!TableInit, TableInv, Table!TableTypeOK, Distinct, Backed

LEMMA TableInvNext == TableInv /\ [Table!TableNext]_(Table!tvars) => TableInv'
<1> SUFFICES ASSUME TableInv, [Table!TableNext]_(Table!tvars) PROVE TableInv'
  OBVIOUS
<1>1. CASE UNCHANGED Table!tvars
  BY <1>1 DEF Table!tvars, TableInv, Table!TableTypeOK, Distinct, Backed
<1>2. ASSUME NEW now \in Table!Times, NEW root \in Names, NEW zeroDepth \in BOOLEAN,
             NEW duration \in Durations,
             Table!TableCreate(Table!InForce(now), now, root, zeroDepth, duration)
      PROVE  TableInv'
  BY <1>2, CreateInv
<1>3. ASSUME NEW now \in Table!Times, NEW token \in Table!Tokens, NEW duration \in Durations,
             Table!TableRefresh(Table!InForce(now), now, token, duration)
      PROVE  TableInv'
  BY <1>3, RefreshInv
<1>4. ASSUME NEW now \in Table!Times, NEW token \in Table!Tokens, Table!TableUnlock(Table!InForce(now), token)
      PROVE  TableInv'
  BY <1>4, UnlockInv
<1>5. ASSUME NEW now \in Table!Times, NEW names \in Table!Claimed, NEW tokens \in Table!Conditions,
             Table!TableConfirm(Table!InForce(now), names, tokens)
      PROVE  TableInv'
  BY <1>5, ConfirmInv
<1>6. ASSUME NEW c \in claims, Table!TableRelease(c)
      PROVE  TableInv'
  BY <1>6, ReleaseInv
<1>7. QED
  BY <1>1, <1>2, <1>3, <1>4, <1>5, <1>6 DEF Table!TableNext

(* No two locks cover one resource and no two unreleased claims name one,   *)
(* whatever implements the table of locks, for any collections, lifetimes   *)
(* and clocks of the callers.                                               *)
THEOREM TableExclusive == Promise => []Exclusive
<1>1. Table!TableInit => TableInv
  BY TableInvInit
<1>2. TableInv /\ [Table!TableNext]_(Table!tvars) => TableInv'
  BY TableInvNext
<1>3. TableInv => Exclusive
  BY TableInvExclusive DEF Exclusive
<1>4. QED
  BY <1>1, <1>2, <1>3, PTL DEF Promise, Table!TableSpec

(* No resource is covered by two locks, or claimed twice (lock.go:37).      *)
THEOREM LocksExclusive == Spec => []Exclusive
BY Refinement, TableExclusive, PTL
=============================================================================

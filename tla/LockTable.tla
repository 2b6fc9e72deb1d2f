------------------------------ MODULE LockTable ------------------------------
(***************************************************************************)
(* What a WebDAV lock system promises (pkg/webdav/lock.go, LockSystem):    *)
(* a set of locks no two of which conflict, each with a token, a root, a   *)
(* depth and a time at which it lapses, and claims on locks (Confirm) that *)
(* are held until they are released.  MemLS implements it.                 *)
(*                                                                         *)
(* A call carries the time its caller has read; nothing orders the times   *)
(* of two callers, so that every call may carry any time.                  *)
(***************************************************************************)
EXTENDS LockNames

VARIABLES
  locks,      \* the locks that are in force
  claims,     \* the claims that are not released yet
  issued,     \* how many tokens were given out
  answer      \* what the last call answered

tvars == <<locks, claims, issued, answer>>

Lock == [token : Nat, root : Names, zeroDepth : BOOLEAN,
         deadline : Nat \cup {Never}, held : BOOLEAN]

TableTypeOK ==
  /\ locks \subseteq Lock
  /\ claims \subseteq [names : SUBSET Names, roots : SUBSET Names]
  /\ issued \in Nat
  /\ answer \in {"none", "ok", "locked", "no such lock", "failed", "released"}

\* A lock covers its root and, unless its depth is zero, all that is below.
Covers(l, name) == l.root = name \/ (~l.zeroDepth /\ l.root \in Up[name])

\* Some resource would be covered twice.
Conflicts(l, root, zeroDepth) ==
  Covers(l, root) \/ (~zeroDepth /\ root \in Up[l.root])

\* The locks left at a time: one that is held does not lapse.
InForce(now) == {l \in locks : l.held \/ l.deadline = Never \/ now < l.deadline}

TableInit ==
  /\ locks = {} /\ claims = {} /\ issued = 0 /\ answer = "none"

\* Every call finds the table t of the locks in force at its caller's time.
TableCreate(t, now, root, zeroDepth, duration) ==
  /\ issued < MaxToken
  /\ UNCHANGED claims
  /\ \/ /\ answer' = "ok" /\ issued' = issued + 1
        /\ \A l \in t : ~Conflicts(l, root, zeroDepth)
        /\ locks' = t \cup
             {[token |-> issued + 1, root |-> root, zeroDepth |-> zeroDepth,
               deadline |-> Deadline(now, duration), held |-> FALSE]}
     \/ /\ answer' = "locked" /\ UNCHANGED issued
        /\ \E l \in t : Conflicts(l, root, zeroDepth)
        /\ locks' = t

\* The lock of that token, when no claim holds it.
Free(t, token) == {l \in t : l.token = token /\ ~l.held}

\* A call that names a lock is refused when there is none or a claim holds it.
Refused(t, token) ==
  /\ Free(t, token) = {}
  /\ locks' = t
  /\ answer' = IF \E l \in t : l.token = token THEN "locked" ELSE "no such lock"

TableRefresh(t, now, token, duration) ==
  /\ UNCHANGED <<claims, issued>>
  /\ \/ Refused(t, token)
     \/ \E l \in Free(t, token) :
          /\ locks' = (t \ {l}) \cup
                      {[l EXCEPT !.deadline = Deadline(now, duration)]}
          /\ answer' = "ok"

TableUnlock(t, token) ==
  /\ UNCHANGED <<claims, issued>>
  /\ \/ Refused(t, token)
     \/ \E l \in Free(t, token) :
          /\ locks' = t \ {l}
          /\ answer' = "ok"

\* A claim on the resources names: each is covered by a lock that is named
\* by its token and free; these are then held by the claim.
TableConfirm(t, names, tokens) ==
  /\ UNCHANGED issued
  /\ LET free(n) == {l \in t :
                       l.token \in tokens /\ ~l.held /\ Covers(l, n)}
     IN \/ /\ answer' = "failed" /\ UNCHANGED claims
           /\ \E n \in names : free(n) = {}
           /\ locks' = t
        \/ /\ answer' = "ok"
           /\ \E by \in [names -> t] :
             /\ \A n \in names : by[n] \in free(n)
             /\ LET taken == {by[n] : n \in names}
                IN /\ locks' = (t \ taken) \cup
                               {[l EXCEPT !.held = TRUE] : l \in taken}
                   /\ claims' = claims \cup
                        {[names |-> names, roots |-> {l.root : l \in taken}]}

TableRelease(c) ==
  /\ c \in claims
  /\ claims' = claims \ {c}
  /\ locks' = {IF l.root \in c.roots THEN [l EXCEPT !.held = FALSE] ELSE l : l \in locks}
  /\ answer' = "released"
  /\ UNCHANGED issued

TableNext ==
  \/ \E now \in Times :
       LET t == InForce(now)
       IN \/ \E root \in Names, zeroDepth \in BOOLEAN, duration \in Durations :
               TableCreate(t, now, root, zeroDepth, duration)
          \/ \E token \in Tokens, duration \in Durations : TableRefresh(t, now, token, duration)
          \/ \E token \in Tokens : TableUnlock(t, token)
          \/ \E names \in Claimed, tokens \in Conditions : TableConfirm(t, names, tokens)
  \/ \E c \in claims : TableRelease(c)

TableSpec == TableInit /\ [][TableNext]_tvars

(***************************************************************************)
(* "Holding the union of all of those locks gives exclusive access to all  *)
(* of the named resources" (lock.go:37): no resource is covered by two     *)
(* locks, and none by two claims that are not released.                    *)
(***************************************************************************)
Exclusive ==
  /\ \A l1, l2 \in locks : l1 # l2 => ~Conflicts(l1, l2.root, l2.zeroDepth)
  /\ \A c1, c2 \in claims : c1 # c2 => c1.names \cap c2.names = {}
==============================================================================

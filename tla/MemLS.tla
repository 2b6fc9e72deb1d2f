-------------------------------- MODULE MemLS --------------------------------
(***************************************************************************)
(* The in-memory lock system of the WebDAV server (pkg/webdav/lock.go).    *)
(*                                                                         *)
(* ls.byName holds a node for every resource that is locked or above one   *)
(* that is; a node's refs counts the locks at it and below it, and a node  *)
(* that nothing refers to is deleted.  ls.byToken finds the node of a      *)
(* lock.  ls.byExpiry holds the locks that can lapse: those with a         *)
(* lifetime that no claim holds.  Every method runs under the mutex and    *)
(* is one step; a claim (Confirm) lasts until its release function runs.   *)
(* The handlers that would call it are disabled in webdav.go, so that the  *)
(* callers are any that keep to the interface: release runs once.          *)
(***************************************************************************)
EXTENDS LockNames, FiniteSets

ASSUME FiniteAssumption == IsFiniteSet(Names)

VARIABLES
  ls,         \* the fields of memLS
  claims,     \* the release functions not called yet: what they hold and why
  answer      \* what the last call returned

vars == <<ls, claims, answer>>

NoToken == 0
NoNode == [token |-> NoToken, zeroDepth |-> FALSE, timed |-> FALSE,
           expiry |-> 0, refs |-> 0, held |-> FALSE]

\* The locks, as LockTable has them.
Locks ==
  {[token |-> ls.node[n].token, root |-> n, zeroDepth |-> ls.node[n].zeroDepth,
    deadline |-> IF ls.node[n].timed THEN ls.node[n].expiry ELSE Never,
    held |-> ls.node[n].held] : n \in {m \in Names : ls.node[m].token # NoToken}}

Table == INSTANCE LockTable WITH locks <- Locks, issued <- ls.gen

NewMemLS ==
  [node |-> [n \in Names |-> NoNode], byName |-> {}, byToken |-> <<>>,
   byExpiry |-> {}, gen |-> 0]

Init == ls = NewMemLS /\ claims = {} /\ answer = "none"

\* walkToRoot from each of the roots: how often it comes to a name.
Walks(roots, name) == Cardinality({r \in roots : name \in Up[r]})

(* Variant: remove forgets the names above the root.                        *)
Remove_Shallow(s, roots) ==
  LET left == {n \in s.byName : n \notin roots \/ s.node[n].refs > 1}
  IN [s EXCEPT
        !.node = [n \in Names |->
                    IF n \notin left THEN NoNode
                    ELSE IF n \in roots
                         THEN [s.node[n] EXCEPT !.token = NoToken, !.refs = @ - 1]
                         ELSE s.node[n]],
        !.byName = left,
        !.byToken = [t \in {t \in DOMAIN s.byToken : s.byToken[t] \notin roots} |-> s.byToken[t]],
        !.byExpiry = @ \ roots]

\* The locks at the roots are gone, and every node that no lock needs.
Remove(s, roots) ==
  LET refs(n) == s.node[n].refs - Walks(roots, n)
      left == {n \in s.byName : refs(n) # 0}
  IN [s EXCEPT
        !.node = [n \in Names |->
                    IF n \notin left THEN NoNode
                    ELSE IF n \in roots
                         THEN [s.node[n] EXCEPT !.token = NoToken, !.refs = refs(n)]
                         ELSE [s.node[n] EXCEPT !.refs = refs(n)]],
        !.byName = left,
        !.byToken = [t \in {t \in DOMAIN s.byToken : s.byToken[t] \notin roots} |-> s.byToken[t]],
        !.byExpiry = @ \ roots]

\* Every method starts with this: the locks that have lapsed at its caller's
\* time are dropped, and the method goes on with the state s that is left.
CollectExpiredNodes(now) == Remove(ls, {n \in ls.byExpiry : ls.node[n].expiry <= now})

(* Variant: a node without a token is taken for one that is not needed.     *)
CanCreate_Token(s, root, zeroDepth) ==
  \A n \in Up[root] \cap s.byName :
    s.node[n].token = NoToken \/ (n # root /\ s.node[n].zeroDepth)

\* A lock at the root itself, below it when the new one is to cover that, or
\* above it covering all below: the lock asked for is refused.
CanCreate(s, root, zeroDepth) ==
  \A n \in Up[root] \cap s.byName :
    IF n = root
    THEN s.node[n].token = NoToken /\ zeroDepth
    ELSE s.node[n].token = NoToken \/ s.node[n].zeroDepth

\* The node of a lock that lasts for duration from now on.
Lasting(node, now, duration) ==
  IF duration = Never THEN [node EXCEPT !.timed = FALSE]
  ELSE [node EXCEPT !.timed = TRUE, !.expiry = now + duration]

Queued(s, n) == IF s.node[n].timed THEN s.byExpiry \cup {n} ELSE s.byExpiry

Created(s, now, root, zeroDepth, duration) ==
  LET token == s.gen + 1
      counted == [n \in Names |-> IF n \in Up[root]
                                  THEN [s.node[n] EXCEPT !.refs = @ + 1] ELSE s.node[n]]
      t == [s EXCEPT
              !.node = [counted EXCEPT ![root] = Lasting(
                          [@ EXCEPT !.token = token, !.zeroDepth = zeroDepth], now, duration)],
              !.byName = @ \cup Up[root],
              !.byToken = [u \in DOMAIN @ \cup {token} |-> IF u = token THEN root ELSE @[u]],
              !.gen = token]
  IN [t EXCEPT !.byExpiry = Queued(t, root)]

Create(s, now, root, zeroDepth, duration) ==
  /\ s.gen < MaxToken
  /\ UNCHANGED claims
  /\ IF CanCreate(s, root, zeroDepth)
     THEN ls' = Created(s, now, root, zeroDepth, duration) /\ answer' = "ok"
     ELSE ls' = s /\ answer' = "locked"

Refresh(s, now, token, duration) ==
  LET n == s.byToken[token]
      unqueued == [s EXCEPT !.byExpiry = @ \ {n},
                            !.node[n] = Lasting(@, now, duration)]
  IN /\ UNCHANGED claims
     /\ IF token \notin DOMAIN s.byToken THEN ls' = s /\ answer' = "no such lock"
        ELSE IF s.node[n].held THEN ls' = s /\ answer' = "locked"
        ELSE /\ ls' = [unqueued EXCEPT !.byExpiry = Queued(unqueued, n)]
             /\ answer' = "ok"

Unlock(s, token) ==
  LET n == s.byToken[token]
  IN /\ UNCHANGED claims
     /\ IF token \notin DOMAIN s.byToken THEN ls' = s /\ answer' = "no such lock"
        ELSE IF s.node[n].held THEN ls' = s /\ answer' = "locked"
        ELSE ls' = Remove(s, {n}) /\ answer' = "ok"

\* The nodes that lock the name, by one of the tokens and free: the code
\* takes the first in the order of the conditions, which is the caller's.
Lookup(s, name, tokens) ==
  {n \in {s.byToken[t] : t \in tokens \cap DOMAIN s.byToken} :
     /\ ~s.node[n].held
     /\ n = name \/ (~s.node[n].zeroDepth /\ n \in Up[name])}

(* Variant: hold leaves the lock in the queue; it can lapse while it is held. *)
Hold_Queued(s, roots) ==
  [s EXCEPT !.node = [n \in Names |-> IF n \in roots THEN [s.node[n] EXCEPT !.held = TRUE]
                                                     ELSE s.node[n]]]

\* A lock that is held is out of the queue, and back in it when released.
Hold(s, roots) ==
  [s EXCEPT !.node = [n \in Names |-> IF n \in roots THEN [s.node[n] EXCEPT !.held = TRUE]
                                                     ELSE s.node[n]],
            !.byExpiry = @ \ roots]

Unhold(s, roots) ==
  [s EXCEPT !.node = [n \in Names |-> IF n \in roots THEN [s.node[n] EXCEPT !.held = FALSE]
                                                     ELSE s.node[n]],
            !.byExpiry = @ \cup {n \in roots : s.node[n].timed}]

Confirm(s, names, tokens) ==
  \/ /\ \E name \in names : Lookup(s, name, tokens) = {}
     /\ ls' = s /\ answer' = "failed"
     /\ UNCHANGED claims
  \/ /\ \E by \in [names -> Names] :
          /\ \A name \in names : by[name] \in Lookup(s, name, tokens)
          /\ LET roots == {by[name] : name \in names}
             IN /\ ls' = Hold(s, roots)
                /\ claims' = claims \cup {[names |-> names, roots |-> roots]}
     /\ answer' = "ok"

Release(c) ==
  /\ ls' = Unhold(ls, c.roots)
  /\ claims' = claims \ {c}
  /\ answer' = "released"

Next ==
  \/ \E now \in Times :
       LET s == CollectExpiredNodes(now)
       IN \/ \E root \in Names, zeroDepth \in BOOLEAN, duration \in Durations :
               Create(s, now, root, zeroDepth, duration)
          \/ \E token \in Tokens, duration \in Durations : Refresh(s, now, token, duration)
          \/ \E token \in Tokens : Unlock(s, token)
          \/ \E names \in Claimed, tokens \in Conditions : Confirm(s, names, tokens)
  \/ \E c \in claims : Release(c)

Spec == Init /\ [][Next]_vars

-----------------------------------------------------------------------------
(***************************************************************************)
(* The indexes agree: a node exists exactly when a lock at it or below it  *)
(* needs it and counts these locks (refCount), every lock is found by its  *)
(* token, and the queue holds the locks that may lapse and no others.      *)
(***************************************************************************)
Locked == {n \in Names : ls.node[n].token # NoToken}

TypeOK ==
  /\ ls.node \in [Names -> [token : Nat, zeroDepth : BOOLEAN, timed : BOOLEAN,
                            expiry : Nat, refs : Nat, held : BOOLEAN]]
  /\ ls.gen \in Nat
  /\ \A n \in Names : ls.node[n].refs = Walks(Locked, n)
  /\ ls.byName = {n \in Names : ls.node[n].refs # 0}
  /\ DOMAIN ls.byToken = {ls.node[n].token : n \in Locked}
  /\ \A n \in Locked : ls.byToken[ls.node[n].token] = n /\ ls.node[n].token <= ls.gen
  /\ ls.byExpiry = {n \in Locked : ls.node[n].timed /\ ~ls.node[n].held}
  /\ \A n \in Names \ Locked : ~ls.node[n].held

\* Every call answers, and leaves behind, what the table of locks prescribes:
\* a lock is refused only for a conflict with one in force, a claim keeps its
\* locks from lapsing, from being unlocked and from being claimed again.
Promise == Table!TableSpec

\* No resource is covered by two locks, or claimed twice (lock.go:37).
Exclusive == Table!Exclusive
==============================================================================

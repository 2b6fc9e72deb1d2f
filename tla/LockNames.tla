------------------------------ MODULE LockNames ------------------------------
(***************************************************************************)
(* The resources that can be locked and the arguments a lock system is     *)
(* called with (pkg/webdav/lock.go): a name, or two for a claim, a depth,  *)
(* a lifetime, the tokens of a condition, and the caller's time.           *)
(***************************************************************************)
EXTENDS Integers

CONSTANTS
  Names,      \* the resources, the root among them
  Up,         \* Up[n]: n and the collections above it
  Durations,  \* the lifetimes asked for; Never for a lock without end
  Never,
  MaxTime,    \* bound on the times a call may carry
  MaxToken    \* bound on the tokens given out

ASSUME NamesAssumption ==
  /\ Up \in [Names -> SUBSET Names]
  /\ \A n \in Names : n \in Up[n]
  /\ \A m, n \in Names : m \in Up[n] /\ n \in Up[m] => m = n
  /\ \A n \in Names : \A l, m \in Up[n] : l \in Up[m] \/ m \in Up[l]

ASSUME TimesAssumption ==
  /\ Durations \subseteq Nat \cup {Never}
  /\ Never \notin Int
  /\ MaxTime \in Nat /\ MaxToken \in Nat

Times == 0 .. MaxTime
Tokens == 1 .. MaxToken

\* One or two resources, and the tokens of one or two conditions.
Pairs(S) == {{x, y} : x, y \in S}
Claimed == Pairs(Names)
Conditions == Pairs(Tokens)

\* The time at which a lock asked for at now lapses.
Deadline(now, duration) == IF duration = Never THEN Never ELSE now + duration
==============================================================================

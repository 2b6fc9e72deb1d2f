------------------------------- MODULE MCMemLS -------------------------------
(* Three resources: a collection and two files in it.                       *)
EXTENDS MemLS, TLC

CONSTANTS dir, a, b

MCNames == {dir, a, b}

MCUp == [n \in MCNames |-> {dir, n}]

MCDurations == {Never, 1}

\* No step depends on the answer of the one before.
LockState == <<ls, claims>>

Symmetry == Permutations({a, b})
==============================================================================

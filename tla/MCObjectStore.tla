--------------------------- MODULE MCObjectStore ---------------------------
(* Symmetry of the small instances of ObjectStore: ids, physical names and  *)
(* handlers are only ever compared for equality.                            *)
EXTENDS ObjectStore, TLC

Symmetry == Permutations(FileId) \cup Permutations(Key) \cup Permutations(Req)
PathSymmetry == Symmetry \cup Permutations(Path)
=============================================================================

-------------------------- MODULE MCUploadSession --------------------------
(* Symmetry of the small instances of UploadSession: ids, names and         *)
(* handlers are only ever compared for equality.                            *)
EXTENDS UploadSession, TLC

Symmetry == Permutations(FileId) \cup Permutations(Name) \cup Permutations(Req)
=============================================================================

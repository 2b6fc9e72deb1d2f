\* Rows that share physical files.  One kind of statements, file
\* operations or the server may fail in a behaviour.
SPECIFICATION Spec
CONSTANTS
  FileId = {f1, f2, f3}
  Path = {p1, p2}
  Key = {k1, k2}
  Req = {r1, r2}
  NoPath = nopath
  NoFile = nofile
  MaxSize = 1
  MaxStorage = 2
  AutoRename = TRUE
  Overlap = FALSE
SYMMETRY PathSymmetry
CHECK_DEADLOCK FALSE
INVARIANTS TypeOK FilesIntact Charged
PROPERTIES OthersUntouched

\* A root, two folders and a file; a copy of both folders and one file more
\* fit in.  The numbers of the two tables overlap, as in the database.
SPECIFICATION FairSpec
CONSTANTS
  FolderId = {1, 2, 3, 4, 5}
  FileId = {2, 3}
  OldFolder = {1, 2, 3}
  OldFile = {2}
  Root = 1
  Absent = absent
  Gone = gone
  Top = top
  Request = {1, 2}
  Operation = {"mkdir", "import", "move", "copy", "delete", "walk", "compress", "property"}
  MaxPick = 1
CHECK_DEADLOCK FALSE
INVARIANTS TypeOK Rooted CopyFaithful
PROPERTIES RequestsEnd

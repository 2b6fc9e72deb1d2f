\* A root, two folders and a file, which one request moves.
SPECIFICATION Spec
CONSTANTS
  FolderId = {1, 2, 3}
  FileId = {2}
  OldFolder = {1, 2, 3}
  OldFile = {2}
  Root = 1
  Absent = absent
  Gone = gone
  Top = top
  Request = {1}
  Operation = {"move"}
  MaxPick = 1
CHECK_DEADLOCK FALSE
PROPERTY MovedFilesArrive

\* Requests about one row of two chunks at will, with failing commits and
\* crashes; a quota of one file.
SPECIFICATION Spec
CONSTANTS
  FileId = {f1}
  Name = {n1}
  Req = {r1, r2}
  Cron = cron
  NoName = noname
  NoFile = nofile
  ChunkSize = 1
  FileSize = 2
  MaxStorage = 2
  Overlap = TRUE
  Disconnects = FALSE
  IoFaults = TRUE
  DbFaults = {"exec", "commit"}
  Crashes = TRUE
SYMMETRY Symmetry
CHECK_DEADLOCK FALSE
INVARIANTS QuotaBound
PROPERTIES SizesAreCharged

\* Sessions for one name are created at the same time; other requests about one
\* object do not overlap. Statements fail, writes are cut short, removals fail,
\* the server crashes.
SPECIFICATION Spec
CONSTANTS
  FileId = {f1, f2, f3}
  Name = {n1}
  Req = {r1, r2}
  Cron = cron
  NoName = noname
  NoFile = nofile
  ChunkSize = 2
  FileSize = 3
  MaxStorage = 5
  Overlap = FALSE
  Disconnects = FALSE
  IoFaults = TRUE
  DbFaults = {"exec"}
  Crashes = TRUE
SYMMETRY Symmetry
CHECK_DEADLOCK FALSE
INVARIANTS TypeOK Accounting FinishedIntact NamesBound

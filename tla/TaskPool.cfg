\* Two tasks of which one's updates fail and its user may be gone, and a
\* decompression; panics, deletions and a crash.
SPECIFICATION FairTaskSpec
CONSTANTS
  Task = {t1, t2, d1}
  Decompress = {d1}
  MaxWorker = 2
  MaxCrashes = 1
  Panics = TRUE
  DbFaults = {t2}
  UserFaults = {t2}
  Deletions = TRUE
CHECK_DEADLOCK FALSE
INVARIANTS TaskTypeOK TokensConserved
PROPERTIES QueueSpec TaskEnds

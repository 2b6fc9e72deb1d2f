\* Every handler is scheduled, the cron job fires, sessions expire, clients leave
\* in the middle of a chunk.
SPECIFICATION FairSpec
CONSTANTS
  FileId = {f1}
  Name = {n1}
  Req = {r1, r2}
  Cron = cron
  NoName = noname
  NoFile = nofile
  ChunkSize = 1
  FileSize = 2
  MaxStorage = 2
  Overlap = TRUE
  Disconnects = TRUE
  IoFaults = FALSE
  DbFaults = {}
  Crashes = FALSE
CHECK_DEADLOCK FALSE
PROPERTIES PlaceholderResolved

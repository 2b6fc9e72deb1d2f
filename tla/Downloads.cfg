\* Two downloads, a magnet link whose owner may be gone and a URL the daemon
\* rejects, whose saves may fail; two handlers and a limit of one.  The daemon
\* answers over a websocket, where a rejection is an empty reply; over HTTP it
\* would be a refusal.
SPECIFICATION FairSpec
CONSTANTS
  Download = {d1, d2}
  Valid = {d1}
  Magnet = {d1}
  Request = {r1, r2}
  Limit = 1
  MaxRetry = 1
  Websocket = TRUE
  DbFaults = {d2}
  Orphaned = {d1}
  MaxCrashes = 1
CHECK_DEADLOCK FALSE
INVARIANTS TypeOK Monitored BatchBound
PROPERTIES DownloadsEnd

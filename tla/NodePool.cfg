\* One slave, registered twice at most; two requests.  calm is TRUE or FALSE.
\* Temporal properties are checked, so no symmetry is taken.
SPECIFICATION FairSpec
CONSTANTS
  Id = {i1}
  Obj = {o1, o2}
  Loop = {l1, l2}
  Admin = {r1, r2}
  Absent = absent
  Nil = nil
  Retry = 2
CHECK_DEADLOCK FALSE
INVARIANTS TypeOK StatusAgrees OneLoop
PROPERTIES RemovedForGood EditsEnd

SPECIFICATION FairSpec
CONSTANTS
  NoRow = NoRow
  Closed = Closed
  Dbs = {d1, d2}
  Names = {n1, n2}
  Edges = {e1}
  IDLE_TIMEOUT = 1
  MaxTime = 3
  MaxLate = 1
  MaxInserts = 1
CHECK_DEADLOCK FALSE
INVARIANTS TypeOK DeletedStaysDeleted SleepingIsIdle
PROPERTY IdleFallsAsleep

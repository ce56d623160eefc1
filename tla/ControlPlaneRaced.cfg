SPECIFICATION Spec
CONSTANTS
  NoRow = NoRow
  Closed = Closed
  Dbs = {d1, d2}
  Names = {n1, n2}
  Edges = {e1, e2}
  IDLE_TIMEOUT = 1
  MaxTime = 4
  MaxLate = 1
  MaxInserts = 1
SYMMETRY Symmetry
CHECK_DEADLOCK FALSE
INVARIANT SleepsOnlyIdle

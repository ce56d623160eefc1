SPECIFICATION Spec
CONSTANTS
  Absent = Absent
  NoLimit = NoLimit
  NoOp = NoOp
  Clients = {c1, c2}
  Colls = {users}
  Keys = {1, 2, 3}
  Classes = {x, y}
  Preds = {{x, y}}
  Skips = {0}
  Limits = {2}
  BatchSizes = {1}
  MaxFinds = 1
  MaxWrites = 0
  MaxReopens = 0
SYMMETRY Symmetry
CHECK_DEADLOCK FALSE
INVARIANT LimitRespected

SPECIFICATION Spec
CONSTANTS
  Absent = Absent
  NoLimit = NoLimit
  NoOp = NoOp
  Clients = {c1, c2}
  Colls = {users}
  Keys = {1, 2, 3}
  Classes = {x, y}
  Preds = {{x}, {x, y}}
  Skips <- McSkips
  Limits <- McLimits
  BatchSizes <- McBatchSizes
  MaxFinds = 1
  MaxWrites = 1
  MaxReopens = 1
SYMMETRY Symmetry
CHECK_DEADLOCK FALSE
INVARIANTS TypeOK PagesAreTheAnswer PositionFitsLimit NoDocumentSkipped RemovedStaysRemoved

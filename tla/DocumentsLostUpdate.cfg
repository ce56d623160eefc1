SPECIFICATION Spec
CONSTANTS
  a = a
  b = b
  x = x
  y = y
  Absent = Absent
  NoId = NoId
  Idle = Idle
  Clients = {c1, c2}
  Ids = {1, 2}
  Fields = {a, b}
  Vals = {x, y}
  Commands <- McCommands
  MaxCommands = 2
SYMMETRY Symmetry
CHECK_DEADLOCK FALSE
PROPERTY DeletedComesBackOnlyByInsert

SPECIFICATION Spec
CONSTANTS
  Conns = {w1, w2, w3}
  DbIds = {A, B}
  Colls = {people}
  MaxTenants = 1
  MaxCursors = 1
  IoErrors = FALSE
  NoConn = NoConn
  NoDb = NoDb
SYMMETRY Symmetry
INVARIANT SingleOpen

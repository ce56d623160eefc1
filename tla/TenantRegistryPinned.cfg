SPECIFICATION FairSpec
CONSTANTS
  Conns = {w1, w2}
  DbIds = {A, B}
  Colls = {people}
  MaxTenants = 1
  MaxCursors = 1
  IoErrors = FALSE
  NoConn = NoConn
  NoDb = NoDb
PROPERTY AcquireReturns

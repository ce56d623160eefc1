SPECIFICATION FairSpec
CONSTANTS
  Conns = {w1, w2, w3}
  DbIds = {A, B}
  Colls = {people}
  MaxTenants = 1
  MaxCursors = 1
  IoErrors = TRUE
  NoConn = NoConn
  NoDb = NoDb
INVARIANTS TypeOK ActiveCountsUsers GuardStateIsCurrent ServingHandlesNotFenced EvictionDropsNoCursor
PROPERTIES ImplementsService AcquireReturnsUnlessPinned GuardsGivenBack

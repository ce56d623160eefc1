SPECIFICATION Spec
CONSTANTS
  Absent = Absent
  NoLimit = NoLimit
  Failed = Failed
  Contents = 3
  Nesting = 5
  Inserts <- McInserts
  FreshIds <- McFreshIds
  Filters <- McFilters
  OtherNames <- McOtherNames
  Skips <- McSkips
  Limits <- McLimits
INVARIANTS TypeOK MatchesIsSelection PointReadsLikeScans PointFindsAnswer

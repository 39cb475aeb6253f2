SPECIFICATION Spec
CONSTANTS
  Threads = {t1}
  Tags <- MCTags
  Asked <- MCAsked
  Stored <- MCStored
  Candidates <- MCCandidates
  RegionOrder <- MCRegionOrder
  NoLocale = None
  Default <- MCDefault
  Hasty = FALSE
  MaxList = 2
  Indices <- MCIndices
  Faults = {"language", "param"}
  MaxFaults = 1
  MaxOps = 3
CHECK_DEADLOCK FALSE
INVARIANTS
  TypeOK
  InRange
  OrderFree
  TrackPathFits
PROPERTIES
  EditTakesEffect

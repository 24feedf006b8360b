\* two slots at first, so that the array has to grow
SPECIFICATION FairSpec
CONSTANTS
  Ids = {1, 2, 3}
  Null = Null
  InitMax = 2
INVARIANTS TypeOK SlotsAccounted ListIsChained SortedByRank WalkIsComplete
PROPERTIES IsOrderedList EnqueueReturns
CHECK_DEADLOCK FALSE

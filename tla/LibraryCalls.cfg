SPECIFICATION Spec
CONSTANTS
  NaN = NaN
  NotFinite = NotFinite
  Null = Null
  Lowest = 0
  Highest = 1000
  Fine = 4
  Ln <- MCLn
  MaxSubset = 11
  Drawn <- MCDrawn
  U8Limit = 4
  U16Limit = 6
  Fits <- MCFits
  CatHash <- MCCatHash
  MaxUniq = 3
  Failed = Failed
  Open = Open
  Requests <- MCRequests
  Learns <- MCLearns
  Refits <- MCRefits
  Base <- MCBase
  Selections <- MCSelections
  Importance <- MCImportance
  Sessions <- MCSessions
  DeviceBuild = FALSE
  Wishes <- MCWishes
  MaxDepth = 2
  CtrBorders = 3
  LineLimit = 4
INVARIANTS AcceptedIsHeard BordersAreSound TrainerSeesTheData FoldsPartitionThePool SearchFindsTheFirstBest EliminationMeetsTheBudget EstimatorKeepsItsWord
PROPERTIES WeakestGoFirst

SPECIFICATION Spec
CONSTANTS
  N = 4
  MaxDepth = 3
  MaxDiff = 4
  CtrBorders = 2
  Whole = 100
  LineFamily = {2, 4, 8}
  LdsCells = 8
  KernelWidths = {2, 4, 8}
  NoSplit = NoSplit
  NoLeaf = NoLeaf
  LeafScore <- L2Score
  CatWeight <- CatPercent
  OrderedLeafScore <- BodyTailScore
  Fits <- DeviceLeafWiseFits
INVARIANTS DeviceLosesNoFit

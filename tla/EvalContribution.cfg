SPECIFICATION Spec
CONSTANTS
  MaxF32 = 99
  NoLeaf = NoLeaf
  NoModel = NoModel
  NoFile = NoFile
  Torn = Torn
  TableOf <- Table
  Origins <- ObliviousModels
  Rows <- AllRows
  Explained <- Objects
  ProjectionOf <- Projection
CHECK_DEADLOCK FALSE
INVARIANT EvalContributionIsModel

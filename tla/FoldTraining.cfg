SPECIFICATION Spec
CONSTANTS
  Datasets <- MCDatasets
  Configs <- MCConfigs
  FoldLenMultiplier <- MCMultiplier
  StreamDraws <- MCDraws
  PermutationCount = 4
  SeedZero = TRUE
  BorderCount = 3
  Iterations = 2
  Depth = 1
  Unit = 4
  Bias0 = 4
INVARIANTS NoRowLearnsFromItsFuture BuffersAreTheirFits AppliedCtrContinuesTraining
CHECK_DEADLOCK FALSE

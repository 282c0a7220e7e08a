SPECIFICATION Spec
CONSTANTS
  WeightUnit = 6
  DerUnit = 60
  L2Reg = 3
  BucketPrior = 1
  L2Leaf = 1
  TargetUnit = 4
  CubeDim = 256
  Pools <- MCPools
  Losses <- MCLosses
  Iterations = 2
  MaxDepth = 2
  RandomSeed = 3
  PermutationCount = 1
  Solve <- MCSolve
  ScoreOf <- MCScoreOf
  Gen <- MCGen
  NormalTakes <- MCNormalTakes
  Noise <- MCNoise
  PairMagic <- MCPairMagic
  PairProb <- MCPairProb
  ExpOf <- MCExpOf
  Discount <- MCDiscount
  PairGrad <- MCPairGrad
  NormDelta <- MCNormDelta
  NormDer <- MCNormDer
  NormalDraw <- MCNormalDraw
  Density <- MCDensity
  Decay <- MCDiscount
  Shrink <- MCShrink
  LeafScore <- MCLeafScore
  LeafAverage <- MCLeafAverage
INVARIANTS TreesFitTheirPairs MetricsReadOneOrder

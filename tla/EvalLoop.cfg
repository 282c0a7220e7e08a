SPECIFICATION Spec
CONSTANTS
  NaN = NaN
  MetricError = MetricError
  Forget = 2
  LimNum = 1
  LimDen = 2
  ZNum = 1
  ZDen = 1
  NeutralStops = FALSE
  Multiplier = 3
  Bias = 2
  Modulus = 5
  ITERATION_FORGET = 3
  Saturation = 1000
  Steps = {0, 1, 3, 4}
  Metric <- CurveMetric
  Fits <- AllFits
INVARIANTS MeasuredModelIsReturned BestIsFirstMinimum DetectorFollowsBest StopRespectsWait IncToDecKeepsItsBooks
CHECK_DEADLOCK FALSE

SPECIFICATION Spec
CONSTANTS
  NoFit = NoFit
  NoSession = NoSession
  Objects = 2
  Listed = 2
  Bordered = {1}
  Depth = 2
  Trees = 2
  MaxFits = 2
  NormalCost <- CostOfNormal
  Passes <- PassesRsm
  Configs <- AllFits
INVARIANTS OneGrower SampledOnce SessionIsTheFits
PROPERTIES FollowsLearnStream DeviceReleased
CHECK_DEADLOCK FALSE

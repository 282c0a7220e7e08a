SPECIFICATION SpecLive
CONSTANTS
  Inputs <- MCInputs
  NoWeights = NoWeights
  Ones = Ones
  Number <- MCNumber
  Tree <- MCTree
  Rng <- MCRng
  Carry <- MCCarry
  StartBias <- MCStartBias
  StartApprox <- MCStartApprox
  StartRng <- MCStartRng
  StartCarry <- MCStartCarry
  Grow <- MCGrow
  Advance <- MCAdvance
  Draw <- MCDraw
  Remember <- MCRemember
  Shrink <- MCShrink
  ShrinkTree <- MCShrink
  IsFinite <- MCIsFinite
  Shape <- MCShape
  Straight <- MCStraight
  NoFile = NoFile
  Torn = Torn
  None = None
  Configs <- SoundCalls
INVARIANTS ResumeInvisible OwnSnapshotAccepted
PROPERTIES ImplementsResumableFit EventuallyTrained

SPECIFICATION Spec
CONSTANTS
  CubeDim = 4
  Runs <- MCRuns
  FixedCell = 2
  FixedRange = 64
  NoScore = NoScore
  Garbage = Garbage
INVARIANTS NoRacyAccess LaunchesAreSerial

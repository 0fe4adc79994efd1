CONSTANTS
  Scale <- MCScale
  Moves <- MCMoves
  Limits <- MCLimits
  Targets = {0, 6}
  MinSpeeds = {0, 1}
  Accelerations = {1}
  Disables = {TRUE, FALSE}
  MaxSteps = {2, 4}
  Tares = {1}
  InitLimit = 1
  Rules = 1
  Pins = {1}
  SimTicks = 4
  Rezeroes = FALSE
  Builds = {"arduino", "pc"}
  Track = 4
SPECIFICATION FairSpec
INVARIANTS TypeOK HeadsForTarget RestsDisabled BrakesLast
PROPERTIES MinSpeedArrives ObservesMaxPositions

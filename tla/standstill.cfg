CONSTANTS
  Scale <- MCScale
  Moves <- MCMoves
  Limits <- MCLimits
  Targets = {4}
  MinSpeeds = {0}
  Accelerations = {1}
  Disables = {FALSE}
  MaxSteps = {4}
  Tares = {1}
  InitLimit = 1
  Rules = 1
  Pins = {1}
  SimTicks = 4
  Rezeroes = FALSE
  Builds = {"pc"}
  Track = 4
SPECIFICATION FairSpec
PROPERTY MovesComplete

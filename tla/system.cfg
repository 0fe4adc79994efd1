CONSTANTS
  PC = PC
  BOARD = BOARD
  BufferSize = 2
  Commands <- MCCommands
  InputPins = {2}
  MaxSends = 3
  MaxChanges = 1
  NumMotors = 2
  NumRules = 1
  NumPins = 7
  ReportBuffer = 45
SPECIFICATION FairSpec
INVARIANTS TypeOK RequestsAccounted BurstIsCarried
PROPERTIES IsRemoteBoard RequestsAnswered ViewCatchesUp

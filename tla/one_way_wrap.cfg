CONSTANTS
  A = A
  B = B
  Devices <- MCDevices
  Sends <- MCSends
  First <- MCFirst
  SendsA = 8
  SendsB = 0
  FirstA = 3
  FirstB = 0
  BufferSize = 2
  MaxIndex = 5
  MaxGap = 3
  ChanCap = 2
  MaxFaults = 1
  Bridges = {}
SPECIFICATION SessionSpec
INVARIANTS SessionInv NoLoss SpaceComesBack WindowsAgree AcksAreTrue
PROPERTIES InOrder

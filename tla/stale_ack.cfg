CONSTANTS
  A = A
  B = B
  Devices <- MCDevices
  Sends <- MCSends
  First <- MCFirst
  SendsA = 4
  SendsB = 0
  FirstA = 0
  FirstB = 0
  BufferSize = 1
  MaxIndex = 3
  MaxGap = 2
  ChanCap = 2
  MaxFaults = 1
  Bridges = {}
SPECIFICATION FSpec
INVARIANTS NoLoss


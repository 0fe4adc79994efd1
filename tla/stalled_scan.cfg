CONSTANTS
  A = A
  B = B
  Devices <- MCDevices
  Sends <- MCSends
  First <- MCFirst
  SendsA = 4
  SendsB = 0
  FirstA = 0
  FirstB = 0
  BufferSize = 2
  MaxIndex = 5
  MaxGap = 3
  ChanCap = 1
  MaxFaults = 1
  Bridges = {}
SPECIFICATION SessionFairSpec

PROPERTIES EveryMessageArrives

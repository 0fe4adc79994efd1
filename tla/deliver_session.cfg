CONSTANTS
  A = A
  B = B
  Devices <- MCDevices
  Sends <- MCSends
  First <- MCFirst
  SendsA = 8
  SendsB = 0
  FirstA = 5
  FirstB = 0
  BufferSize = 2
  MaxIndex = 6
  MaxGap = 4
  ChanCap = 2
  MaxFaults = 1
  Bridges = {}
SPECIFICATION SessionFairSpec
PROPERTIES EveryMessageArrives

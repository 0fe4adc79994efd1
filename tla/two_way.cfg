CONSTANTS
  A = A
  B = B
  Devices <- MCDevices
  Sends <- MCSends
  First <- MCFirst
  SendsA = 8
  SendsB = 7
  FirstA = 6
  FirstB = 6
  BufferSize = 2
  MaxIndex = 7
  MaxGap = 3
  ChanCap = 2
  MaxFaults = 1
  Bridges = {}
SPECIFICATION SessionSpec
INVARIANTS SessionInv NoLoss WindowsAgree SkippedAreResent
PROPERTIES InOrder StepsAreReliable

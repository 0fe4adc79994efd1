CONSTANTS
  A = A
  B = B
  Devices <- MCDevices
  Sends <- MCSends
  First <- MCFirst
  SendsA = 1
  SendsB = 1
  FirstA = 0
  FirstB = 0
  BufferSize = 3
  MaxIndex = 7
  MaxGap = 4
  ChanCap = 2
  MaxFaults = 1
  Bridges = {B}
SPECIFICATION FFairSpec
INVARIANTS TypeOK HandshakeInv ClearDiscardsNothing DataMeetsStartedReader OneNewPacket
PROPERTIES IsReliable DeliversAll BothInitialize

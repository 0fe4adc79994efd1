CONSTANTS
  Packets <- MCPackets
  Noise = {0, 1, 2, 9, 10, 11, 59, 60, 61, 130, 255}
  MaxFaults = 2
  Lag = 3
SPECIFICATION Spec
INVARIANTS TypeOK InStep ReadAsSent
PROPERTIES ParsedWasSent ErrorNamesItsPacket

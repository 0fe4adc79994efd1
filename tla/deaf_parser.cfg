CONSTANTS
  Packets <- DeafPackets
  Noise = {0, 1, 10, 60, 255}
  MaxFaults = 1
  Lag = 3
SPECIFICATION Spec
PROPERTIES ResendsArrive

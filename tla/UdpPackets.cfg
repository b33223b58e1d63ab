\* Two threads on one socket, one on another, one fault.
SPECIFICATION FairSpec
CONSTANTS
  w1 = w1
  w2 = w2
  w3 = w3
  Base = 2
  Bar = 1
  Writers = {w1, w2, w3}
  Address <- TwoSockets
  Packets <- ThreePackets
  MAX_PACKET_SIZE = 8
  MaxPackets = 1
  MaxFaults = 1
INVARIANTS SenderIntact SmallSurvive 
PROPERTIES EverySentIsReceived
CHECK_DEADLOCK FALSE

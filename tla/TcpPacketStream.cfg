\* Two packets per connection, cut anywhere; two interrupts, one reconnect.
SPECIFICATION FairSpec
CONSTANTS
  Base = 2
  Bar = 1
  Packets <- TwoPackets
  ReadSize = 8
  MaxPackets = 2
  MaxConnections = 2
  MaxInterrupts = 2
INVARIANTS PacketsIntact 
PROPERTIES EverySentIsReceived

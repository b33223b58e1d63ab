\* Two producers and two consumers share a queue of two slots; nobody clears.
SPECIFICATION FairSpec
CONSTANTS
  Producers = {p1, p2}
  Consumers = {c1, c2}
  Clearers = {}
  Observers = {}
  Values = {v1, v2}
  NoValue = NoValue
  SIZE = 2
  MaxPushes = 4
INVARIANTS TypeOK Occupancy NoSlotRace
PROPERTIES IsLinearizable LocksAreReleased

\* Two producers and two consumers under both locks.
SPECIFICATION FairSpec
CONSTANTS
  Producers = {p1, p2}
  Consumers = {c1, c2}
  Clearers = {}
  Observers = {}
  Values = {v1, v2}
  NoValue = NoValue
  MultiConsumer = TRUE
  MaxPushes = 3
INVARIANTS SidesDisjoint
PROPERTIES IsLinearizable 

\* consumer = false: one thread pulls, clears and looks; two threads push.
SPECIFICATION FairSpec
CONSTANTS
  Producers = {p1, p2}
  Consumers = {c1}
  Clearers = {c1}
  Observers = {c1}
  Values = {v1, v2}
  NoValue = NoValue
  MultiConsumer = FALSE
  MaxPushes = 3
INVARIANTS EmptyIsTruthful ClearRemovesAll

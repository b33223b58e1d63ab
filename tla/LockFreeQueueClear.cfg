\* The only consumer also clears, while two producers push and an observer looks.
SPECIFICATION FairSpec
CONSTANTS
  Producers = {p1, p2}
  Consumers = {c1}
  Clearers = {c1}
  Observers = {o1}
  Values = {v1}
  NoValue = NoValue
  SIZE = 2
  MaxPushes = 4
INVARIANTS EmptyIsTruthful SizeNeverWraps

\* Two threads write twice in all; the socket may be closed and reconnected once.
SPECIFICATION FairSpec
CONSTANTS
  Writers = {w1, w2}
  MaxWrites = 2
  MaxConnects = 2
INVARIANTS TypeOK NoLostWakeup 
  
CHECK_DEADLOCK FALSE

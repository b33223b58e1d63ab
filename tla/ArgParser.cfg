\* Up to three objects alive at a time, two parses.
SPECIFICATION Spec
CONSTANTS
  b = b
  i = i
  s = s
  c = c
  l1 = l1
  l2 = l2
  Vars <- MCVars
  Lists <- MCLists
  Long <- MCLong
  Short <- MCShort
  Kind <- MCKind
  Required <- MCRequired
  Multiple <- MCMultiple
  Letters <- MCLetters
  CommandLines <- MCCommandLines
  None = None
  Default = Default
  Garbage = Garbage
  Assigned = Assigned
  MaxScope = 3
  MaxParses = 2
SYMMETRY ListSymmetry
INVARIANTS AcceptsLegal SuccessMeaning RegisteredAreLive
CHECK_DEADLOCK FALSE

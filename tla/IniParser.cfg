CONSTANTS
  SectionOrder <- MCSectionOrder
  Fields <- MCFields
  Values <- MCValues
  Numbers <- MCNumbers
  Files <- MCFiles
  Global = "global"
  NoValue = NoValue
  MaxCalls = 5
SPECIFICATION Spec
INVARIANTS
  IndexesFit
  
PROPERTIES
  IsStore
CHECK_DEADLOCK FALSE

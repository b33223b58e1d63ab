\* Texts of up to five characters, four characters, bytes of two bits.
CONSTANTS
  ByteBits = 2
  LengthBytes = 2
  MaxText = 5
  preVec <- MCpreVec
SPECIFICATION Spec
CHECK_DEADLOCK FALSE
INVARIANTS
  
  DamageDetected

SPECIFICATION Spec
CONSTANTS
  WordBits = 3
  IntBits = 2
  NumBits = 8
  None = None
INVARIANTS TypeOK Summaries HaveBitsIsExact
PROPERTIES ImplementsBitSet

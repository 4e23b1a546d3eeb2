SPECIFICATION Spec
CONSTANTS
  Characters <- MCCharacters
  Texts <- MCTexts
  MaxFormat = 4
  IntMax = 15
  LongMax = 127
  DigitBuf = 2
  Ints <- MCInts
  Longs <- MCLongs
  Strings <- MCStrings
  Chars <- MCChars
  Lengths = {0, 1, 3, 20}
INVARIANTS TypeOK  OutputInOrder FlagIsRight
PROPERTIES PrintEnds
CHECK_DEADLOCK FALSE

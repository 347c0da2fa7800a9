SPECIFICATION MCSpec
CONSTANTS
  Schema <- MCSchema
  KindOf <- MCKindOf
  Spelling <- MCSpelling
  Contents <- MCContents
  Bits = 5
  MaxDigits = 2
  NumeralRunes = {"0", "1", "6", "-", "+", ".", "e", ","}
  MaxNumeral = 6
  MaxEdits = 1
INVARIANT ReadsOnlyJson
CHECK_DEADLOCK FALSE

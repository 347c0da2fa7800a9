SPECIFICATION MCReadingSpec
CONSTANTS
  Order <- MCOrder
  Placeholders = {"_p", "_q", "_group", "_name", "_namespace", "_resource"}
  Files <- MCFiles
  Requests <- MCRequests
  MaxPages = 3
  Runes = {"a", ".", "[", "]", "=", "!", "'", " "}
  MaxRunes = 6
  MaxBraces = 9
  MaxNodes = 4
  Schema <- MCSchema
  KindOf <- MCKindOf
  Spelling <- MCSpelling
  Contents <- MCContents
  Bits = 5
  MaxDigits = 2
  NumeralRunes = {"0", "1", "6", "-", "+", ".", "e", ","}
  MaxNumeral = 6
  MaxEdits = 1
INVARIANTS PagesAnswerTheirPaths RenderedAsMeant GrammarsAreRead
INVARIANTS OnlyJsonIsRead MeansTheTree ReadBack NumbersAreRead
CHECK_DEADLOCK FALSE

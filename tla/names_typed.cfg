SPECIFICATION Spec

CONSTANTS
  Chars <- MCChars
  Blank <- MCBlank
  Forbidden <- MCForbidden
  Byte <- MCByte
  Base = 3
  HeaderWidth = 2
  MaxLength = 5

INVARIANT AcceptedAreRefNames
INVARIANT CutsAreNames
INVARIANT SegmentsAreWhole
INVARIANT KeysDecode
INVARIANT RevisionsStayWithTheName
CHECK_DEADLOCK FALSE

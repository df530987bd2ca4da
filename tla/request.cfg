SPECIFICATION Spec
CONSTANTS
  BASE = 2
  Width = 4
  BLOCK = 3
  PadByte <- MCPadByte
  Alphabets <- MCAlphabets
  MaxDouble = 15
  StatusName <- MCStatusName
  ContentsName <- MCContentsName
  UserName <- MCUserName
  Contents <- MCContents
  Statuses = {0, 1}
  SealedBytes = {"1", "t", "soh", "lf", "etx", "nul"}
  MaxBlocks = 2
CHECK_DEADLOCK FALSE
INVARIANTS
  ReadsMeaning
  RefusesNoJson
  SealTold
  AnswerKept

SPECIFICATION PathSpec
CONSTANTS
  Chars <- MCChars
  Delim = ","
  Records <- MCRecords
  Settings <- MCSettings
  NotANumber = NotANumber
  BadByte = "bad byte"
  Blanks = {" "}
  LongMax = 1000
  TextSize = 19
  FieldSize <- MCFieldSize
  SqlSize <- MCSqlSize
CHECK_DEADLOCK FALSE
INVARIANTS DocumentedTypesServed

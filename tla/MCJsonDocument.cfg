CONSTANTS
  STARTING_CAPACITY = 1
  OBJECT_MAX_CAPACITY = 2
  ARRAY_MAX_CAPACITY = 2
  MAX_NESTING = 3
  Texts <- MCTexts
  Commented <- MCCommented
  Names <- MCNames
  Scalars <- MCScalars
  MaxCalls = 3
SPECIFICATION Spec
INVARIANTS RoundTrip StringsWellFormed
PROPERTIES PathsIndependent BlocksKept
CHECK_DEADLOCK FALSE

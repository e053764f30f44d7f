SPECIFICATION Spec
CONSTANTS
  Files <- MCFiles
  Memory <- MCMemory
  IntHalf = 8
  Empty = Empty
  Word = Word
  NoValue = NoValue
CHECK_DEADLOCK FALSE
INVARIANTS SettingsExact ServesWhenConfigured

SPECIFICATION FairSpec
CONSTANTS
  Names <- AllNames
  Pipelines <- AllPipelines
  Pieces = {7}
  Segments = {3}
  BufferSize = 3
  Payloads <- SomePayloads
  Most = 20
  Numerals <- Decimals
  LateCalls = {"get", "exists"}
INVARIANTS RequestExact StreamSafe AnswerExact OnlyErrorsThrow
PROPERTIES CallsEnd

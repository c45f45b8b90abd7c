SPECIFICATION TestSpec
CONSTANTS
  Value <- MCValue
  Hash <- MCHash
  Input <- MCTwoChunkInput
  ChunkSize = 2
  BitsPerBlock = 2
  TruePrecision = 60
  FScore = 100
  Test <- NoRun
  File <- MCFile
  InitialCapacity = 2
INVARIANT LearntRulesArePrecise
CHECK_DEADLOCK FALSE

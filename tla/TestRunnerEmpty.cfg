SPECIFICATION TestSpec
CONSTANTS
  Value <- MCValue
  Hash <- MCHash
  Input <- NoRun
  ChunkSize = 2
  BitsPerBlock = 2
  TruePrecision = 60
  FScore = 100
  Test <- MCTest
  File <- MCFile
  InitialCapacity = 2
INVARIANT TablesHaveRows
CHECK_DEADLOCK FALSE

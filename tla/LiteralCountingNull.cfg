SPECIFICATION BindingSpec
CONSTANTS
  Value <- MCValue
  Hash <- MCHash
  NumRadixBits = 2
  BlockCapacity = 3
  ChunkSize = 2
  JoinChunkSize = 2
  KeyHash <- MCKeyHash
  MaxNodes = 15
  Input <- MCInput
INVARIANT FirstChunkExists
CHECK_DEADLOCK FALSE

SPECIFICATION FairBindingSpec
CONSTANTS
  Value <- MCValue
  Hash <- MCHash
  NumRadixBits = 2
  BlockCapacity = 3
  ChunkSize = 2
  JoinChunkSize = 2
  KeyHash <- MCKeyHash
  MaxNodes = 15
  Input <- MCInput
INVARIANTS TypeOK PartitionsAreExact CountsAreExact TablesTypeOK BindingTableIsExact PlanTypeOK PlanIsExact PlanIsClosedAndLean SomePairIsLeft
PROPERTIES CountingEnds StuckForEver RowsAreKept
CHECK_DEADLOCK FALSE

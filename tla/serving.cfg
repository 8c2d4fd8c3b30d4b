\* One agent turn with four tools, or two sign-ins sharing the key cache over two rotations.
SPECIFICATION FairSpec
CONSTANTS
  Granted <- AllTools
  RequestLimit = 3
  ToolCallsLimit = 2
  RetriesLimit = 1
  TransientRetries = 1
  MaxMarks = 1
  MaxBatch = 2
  Coroutines = {c1, c2}
  MaxRotations = 2
  MaxLapses = 1
  NoHolder = NoHolder
CHECK_DEADLOCK FALSE
INVARIANTS
    TurnDeliversItsWork
    TurnEndIsHonest
    CacheFollowsProvider
PROPERTIES
    TurnEnds
    ExchangeEnds

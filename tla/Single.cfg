SPECIFICATION FairSpec
CONSTANTS
  Policies <- MCPolicies
  Capacity = 1
  RetainN = 1
  ReadChunkSize = 1
  MaxRead = 2
INVARIANT ExclusiveConsumer
INVARIANT ReplayWindowExact
INVARIANT NothingAfterTerminal
PROPERTY ImplementsEventStream
PROPERTY EndReachesEveryone
PROPERTY DropStopsReader

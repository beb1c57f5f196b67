SPECIFICATION FairSpec
CONSTANTS
  s1 = s1
  s2 = s2
  NoSub = NoSub
  Subs <- MCSubs
  Reliable = TRUE
  Capacity = 1
  Retention = "chunks"
  RetainN = 1
  ReadChunkSize = 1
  MaxRead = 2
  MaxBytes = 2
INVARIANT HandoffContinuous
INVARIANT NobodyOrphaned
PROPERTY SubscribeStartsAtWindow
PROPERTY ImplementsEventStream
PROPERTY EndReachesEveryone
PROPERTY DropStopsReader

SPECIFICATION Spec
CONSTANTS
  s1 = s1
  s2 = s2
  NoSub = NoSub
  Subs <- MCOne
  Reliable = FALSE
  Capacity = 2
  Retention = "bytes"
  RetainN = 2
  ReadChunkSize = 2
  MaxRead = 3
  MaxBytes = 6
INVARIANT ReplayWindowExact
INVARIANT QueueBounded
PROPERTY ImplementsEventStream

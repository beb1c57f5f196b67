SPECIFICATION FairSpec
CONSTANTS
  Subs = {s1, s2}
  MaxBufferedChunks = 3
  RingSize = 4
  ReadChunkSize = 1
  MaxRead = 2
  MaxBytes = 6
PROPERTY ImplementsEventStream
PROPERTY EndReachesEveryone

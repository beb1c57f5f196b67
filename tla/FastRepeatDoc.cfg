SPECIFICATION Spec
CONSTANTS
  Subs = {s1}
  MaxBufferedChunks = 1
  RingSize = 1
  ReadChunkSize = 1
  MaxRead = 1
  MaxBytes = 2
INVARIANT NothingAfterTerminal

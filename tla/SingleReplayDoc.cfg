SPECIFICATION Spec
CONSTANTS
  Policies <- MCReplayAll
  Capacity = 1
  RetainN = 1
  ReadChunkSize = 1
  MaxRead = 1
INVARIANT ReplayKeepsAllOutput

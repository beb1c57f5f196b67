SPECIFICATION FairSpec
CONSTANTS
  MaxLineLengths = {0, 2}
  MaxChunk = 4
  MaxText = 7
  MaxVisited = 6
  MaxFailures = 2
  Visitors <- MCVisitors
INVARIANT LinesAreThoseOfText
INVARIANT CollectedExact
INVARIANT WriterGetsText
INVARIANT WaitIsRight
PROPERTY ChunkExhausted

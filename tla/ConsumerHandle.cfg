SPECIFICATION FairSpec
CONSTANTS
  Consumers = {c1}
  MayBreak = TRUE
INVARIANT ReturnReleasesClaim
INVARIANT WaitReturnsWholeSink
PROPERTY CancelReturns
PROPERTY DropEndsTask

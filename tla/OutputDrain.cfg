SPECIFICATION DrainFairSpec
CONSTANTS
  Consumers = {"stdout", "stderr"}
  MayBreak = FALSE
  Terminates = FALSE
INVARIANT NoCollectorOutlivesCall
INVARIANT OutputIsWhole
INVARIANT ErrorsAreReal
PROPERTY DrainReturns

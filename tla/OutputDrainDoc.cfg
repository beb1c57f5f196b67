SPECIFICATION DrainSpec
CONSTANTS
  Consumers = {"stdout", "stderr"}
  MayBreak = FALSE
  Terminates = TRUE
INVARIANT ReadyErrorReturned

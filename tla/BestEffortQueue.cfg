SPECIFICATION QueueFairSpec
CONSTANTS
  Capacity = 2
  MaxPushes = 6
INVARIANT NoLostWakeup
PROPERTY RecvReturns

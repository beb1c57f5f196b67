SPECIFICATION FairSpec
CONSTANTS
  Timeouts = {2}
  PhaseLists <- MCPhaseLists
  Grace = 1
  MaxCalls = 3
  MaxSize = 1
INVARIANT NoSilentLeak
INVARIANT EscalationInOrder
INVARIANT PanicDiscipline
 
PROPERTY DisarmOnlyWhenClosed
PROPERTY SuccessIsReal
PROPERTY SpawnHandsOver
PROPERTY TerminationReturns

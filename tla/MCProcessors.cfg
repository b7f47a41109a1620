CONSTANTS
  CPUs = {0, 1, 2}
  Targets <- Shootdown
  MaxCalls = 1
  Null = Null
SPECIFICATION FairSpec
INVARIANTS RunsExactlyOnce CallbackAlive
PROPERTIES CallReturns
\* CPUs that call each other wait for ever.
CHECK_DEADLOCK FALSE

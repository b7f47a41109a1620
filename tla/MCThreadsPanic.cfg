CONSTANTS
  a = a
  b = b
  h = h
  k = k
  Null = Null
  CPUs = {0, 1}
  Tasks = {a, b}
  Workloads <- PanicWorkloads
  MaxEarly = 1
  WaitQueue = 10
  CleanerQueue = 11
  WaitingTasks = 12
  Queues <- RunAndWaitQueues
  InitialTask <- Initials
  Priority <- Priorities
  InitialTimeSlice = 1
  SliceModulus = 2
SPECIFICATION Spec
INVARIANTS DestroyNeverReturns
\* All CPUs may halt for good once every thread is blocked or gone.
CHECK_DEADLOCK FALSE

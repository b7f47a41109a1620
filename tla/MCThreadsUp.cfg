CONSTANTS
  a = a
  b = b
  h = h
  k = k
  Null = Null
  CPUs = {0}
  Tasks = {a, b, h, k}
  Workloads <- UpWorkloads
  MaxEarly = 0
  WaitQueue = 10
  CleanerQueue = 11
  WaitingTasks = 12
  Queues <- RunAndWaitQueues
  InitialTask <- Initials
  Priority <- Priorities
  InitialTimeSlice = 1
  SliceModulus = 2
SPECIFICATION FairSpec
INVARIANTS DestroyNeverReturns SignalServesAll
PROPERTIES QueuedRuns DestroyedIsFreed AcquireEnds AwaitReturns
\* All CPUs may halt for good once every thread is blocked or gone.
CHECK_DEADLOCK FALSE

CONSTANTS
  CPUs = {c1, c2}
  Free = Free
SPECIFICATION FairSpec
PROPERTIES InterruptsKept ImplementsLock LockProgress

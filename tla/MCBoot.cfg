SPECIFICATION FairSpec
CONSTANTS
  Cpus = {0, 1, 2}
  Madts <- MCMadts
  MAX_LOCAL_APICS = 3
  Bsps = {0, 1}
  Rsdts <- MCRsdts
  Buses = {0, 1}
  Slots = {0}
  Functions = {0, 1}
  Spaces <- MCSpaces
CHECK_DEADLOCK FALSE
INVARIANTS NumbersMatch TrampolineIntact LoaderAlone TreeIsWhole
 

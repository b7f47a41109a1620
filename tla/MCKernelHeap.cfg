CONSTANTS
  CPUs = {0, 1, 2}
  Pages = {0, 1}
  Frames = {f1, f2, f3}
  Zero = Zero
  Device = Device
  Null = Null
  Span = 2
  PageSize = 2
  HeaderSize = 1
  Sizes = {0, 1, 2}
  DeviceSizes = {1}
SPECIFICATION Spec
SYMMETRY Symmetry
INVARIANTS   FramesAccounted
\* CPUs that call each other wait for ever, and a CPU out of memory stops.
CHECK_DEADLOCK FALSE

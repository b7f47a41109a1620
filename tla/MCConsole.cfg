CONSTANTS
  CPUs = {0, 1}
  None = None
  Width = 5
  Height = 3
  FontWidth = 2
  FontHeight = 1
  ByteBits = 1
  Formats <- PrintedFormats
  LongBits = 5
  MaxEvents = 3
SPECIFICATION FairSpec
 
PROPERTY PanicEnds
\* CPUs halt, and the console may be stuck.
CHECK_DEADLOCK FALSE

CONSTANTS
  d1 = d1
  d2 = d2
  d3 = d3
  None = None
  x = x
  y = y
  Threads = {x, y}
  Local = x
  Machines <- MCMachines
  MAX_IO_APICS = 2
  Pins <- MCPins
  IO_APIC_INTERRUPT_BASE = 2
  APIC_TIMER_INTERRUPT = 6
  PROCESSOR_CALLBACK_INTERRUPT = 8
  LOCAL_APIC_SPURIOUS_INTERRUPT_VECTOR = 9
  Vectors = 10
  MAX_IRQ_SHARING = 2
  CounterModulus = 8
  TimeModulus = 24
  Femtos = 3
  FemtosPerNano = 2
  WaitNanos = 4
  BootTicks = 1
  MaxElapsed = 4
  Ratio = 2
  CountModulus = 64
  Divide = 4
SPECIFICATION FairSpec
INVARIANTS NothingLeftInService UnmaskedInputsRoute NoRequestForgotten PeriodIsCalibrated
PROPERTIES WaitEnds
\* kpanic() ends the boot or a thread.
CHECK_DEADLOCK FALSE

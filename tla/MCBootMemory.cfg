CONSTANTS
  MaxAddress = 8
  MapSize = 3
  Amounts = {2}
  None = None
  Zero = Zero
  PageSize = 2
  LowMemory = 2
  rsdt = rsdt
  xsdt = xsdt
  rsdtOld = rsdtOld
  xsdtOld = xsdtOld
  screen = screen
  Firmwares <- MCFirmwares
SPECIFICATION BootSpec
INVARIANTS MemoryConserved FreeIsUsable RootIsNamed
\* Without memory there is nothing to do.
CHECK_DEADLOCK FALSE

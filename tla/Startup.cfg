SPECIFICATION StartupSpec
CONSTANTS
  Drives <- AnyDrive
  LastSector = 35
  Heads = 2
  Cylinders = 2
  Lines <- PcLines
  HandlerAt <- Handlers
  GdtOffset = 768
  ENTRIES = 128
  MAX_PAGE_PDE = 8
  Base = 16
  Layouts <- SomeLayouts
  Leftover <- SomeEntries
INVARIANTS ImageByTracks LoaderIntact FiveTries DevicesReady InterruptsReachHandlers VaIsPa NoHalfTable
PROPERTY Ends
CHECK_DEADLOCK FALSE

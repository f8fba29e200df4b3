SPECIFICATION Spec
CONSTANTS
  Codes <- AnyCode
  MapEntries = 12
INVARIANTS InVideoMemory ShownUntilFull
PROPERTY ReadingOrder

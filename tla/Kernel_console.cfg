SPECIFICATION Spec
CONSTANTS
  KeyBytes = {k1}
  MouseBytes = {}
  SerialBytes = {s1, s2}
  NUL = NUL
  MinusOne = MinusOne
  Garbage = Garbage
  QSize <- ConsoleRing
  RxDepth = 3
  RxTrigger = 2
  MaxBacklog = 3
INVARIANTS
  Inductive
  SerialNeverOverReports
PROPERTIES
  SerialInOrder
  NoNeedlessDrop

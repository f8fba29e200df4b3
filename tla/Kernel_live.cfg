SPECIFICATION FairSpec
CONSTANTS
  KeyBytes = {k1}
  MouseBytes = {m1}
  SerialBytes = {s1}
  NUL = NUL
  MinusOne = MinusOne
  Garbage = Garbage
  QSize <- UnitRings
  RxDepth = 2
  RxTrigger = 2
  MaxBacklog = 2
PROPERTIES
  InputsServed
  UartDrained
  PendingWakes

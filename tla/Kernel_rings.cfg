SPECIFICATION Spec
CONSTANTS
  KeyBytes = {k1, k2}
  MouseBytes = {m1}
  SerialBytes = {s1}
  NUL = NUL
  MinusOne = MinusOne
  Garbage = Garbage
  QSize <- KeyRing
  RxDepth = 1
  RxTrigger = 1
  MaxBacklog = 2
INVARIANTS
  InterruptsAfterSetup
  ControllersAgree
  RingExact
  SleepsOnlyWhenDrained
PROPERTY
  GuardedQueues

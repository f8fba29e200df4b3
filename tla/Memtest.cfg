SPECIFICATION Spec
CONSTANTS
  TOP = 16
  Bits = {0, 1}
  pat0 = {0}
  Machines <- SomeMachines
INVARIANTS FirstFault MachineKept
PROPERTY MemtestEnds
CHECK_DEADLOCK FALSE

SPECIFICATION Spec
CONSTANTS
  Char = {"h", "e"}
  Names <- TwoNames
  MAXSIZE_CMD = 3
  LineLimit = 4
  TxReady = {TRUE, FALSE}
INVARIANT
  InsideBuffer
CHECK_DEADLOCK FALSE

SPECIFICATION Spec
CONSTANTS
  Char = {"h", "e"}
  Names <- TwoNames
  MAXSIZE_CMD = 5
  LineLimit = 4
  TxReady = {TRUE}
INVARIANTS
  TypeOK
  EchoShown
PROPERTY
  EditsLine

SPECIFICATION Spec
CONSTANTS
  LONG = 128
  SHORT = 16
  Words <- AnyWord
  Stars <- SomeStars
  Strings <- SomeStrings
  Chars = {"a"}
  Wanted <- SomeFormats
  Junk <- Broken
INVARIANTS FormatsRight FormatInside
PROPERTY FormatEnds
CHECK_DEADLOCK FALSE

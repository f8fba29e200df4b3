SPECIFICATION Spec
CONSTANTS
  Firmware <- TwoOrMore
  PageSize = 2
  Word = 16
  PAGING_PAGES = 8
  MAX_FREE_MEM_BLOCK = 3
INVARIANTS
  TypeOK
  TableComplete
  DrawnRight
  PagingTop
CHECK_DEADLOCK FALSE

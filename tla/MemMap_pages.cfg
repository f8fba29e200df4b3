SPECIFICATION Spec
CONSTANTS
  Firmware <- Ordinary
  PageSize = 2
  Word = 16
  PAGING_PAGES = 8
  MAX_FREE_MEM_BLOCK = 3
INVARIANT
  UsablePagesFree
CHECK_DEADLOCK FALSE

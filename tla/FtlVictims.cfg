SPECIFICATION FairSpec
CONSTANTS
  FLASH_NB = 2
  BLOCK_NB = 3
  PAGE_NB = 2
  TOTAL_OOB_SEG = 2
  OOB_ENTRY_PER_SEG = 1
  INVALID_PERCENT = 5
  LPN_NB = 2
  REFCNT_MAX = 127
  Data = {d1}
  Blank = blank
  GC_THRESHOLD_BLOCK_NB = 2
  Writes <- Pages
  WriteFlags = {0, 102}
  Remaps <- CkptsAndMove
  Discards <- Pages
INVARIANTS
  UnwrittenFree SuperblocksPartitioned AllocatorSound NeverExhausted
PROPERTIES
  RequestsEnd

SPECIFICATION Spec
CONSTANTS
  FLASH_NB = 2
  BLOCK_NB = 2
  PAGE_NB = 2
  TOTAL_OOB_SEG = 2
  OOB_ENTRY_PER_SEG = 2
  INVALID_PERCENT = 5
  LPN_NB = 3
  REFCNT_MAX = 2
  Data = {d1}
  Blank = blank
  GC_THRESHOLD_BLOCK_NB = 2
  Writes <- Pages
  WriteFlags = {0}
  Remaps <- CkptPages
  Discards <- Pages
INVARIANTS
  RefcountExact

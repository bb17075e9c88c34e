SPECIFICATION Spec
CONSTANTS
  FLASH_NB = 2
  BLOCK_NB = 3
  PAGE_NB = 2
  TOTAL_OOB_SEG = 1
  OOB_ENTRY_PER_SEG = 2
  INVALID_PERCENT = 5
  LPN_NB = 5
  REFCNT_MAX = 127
  Data = {d1}
  Blank = blank
  GC_THRESHOLD_BLOCK_NB = 3
  Writes <- SharedWrites
  WriteFlags = {0}
  Remaps <- SharedRemaps
  Discards = {}
INVARIANTS
  NvramCapacity
CHECK_DEADLOCK FALSE

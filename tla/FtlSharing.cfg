SPECIFICATION Spec
CONSTANTS
  FLASH_NB = 2
  BLOCK_NB = 2
  PAGE_NB = 2
  TOTAL_OOB_SEG = 1
  OOB_ENTRY_PER_SEG = 2
  INVALID_PERCENT = 5
  LPN_NB = 3
  REFCNT_MAX = 127
  Data = {d1, d2}
  Blank = blank
  GC_THRESHOLD_BLOCK_NB = 1
  Writes <- StoreWrites
  WriteFlags = {0, 104}
  Remaps <- StoreRemaps
  Discards <- StoreDiscards
INVARIANTS
  TypeOK MappingConsistent NvramAccounting StatsExact CollectionBounded
  SuperblocksPartitioned
PROPERTIES
  ImplementsStore RemapWithinNvram
SYMMETRY DataSymmetry
CHECK_DEADLOCK FALSE

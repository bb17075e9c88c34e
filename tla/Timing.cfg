SPECIFICATION Spec
CONSTANTS
  FLASH_NB = 3
  CHANNEL_NB = 2
  BLOCK_NB = 1
  REG_WRITE_DELAY = 1
  CELL_PROGRAM_DELAY = 2
  REG_READ_DELAY = 1
  CELL_READ_DELAY = 1
  BLOCK_ERASE_DELAY = 3
  NvramTimes = {2}
  Slots = {s1, s2, s3}
  Free = free
  MaxBacklog = 4
INVARIANTS
  TypeOK NoOverlap
PROPERTY
  CollectionAfterOob
SYMMETRY SlotSymmetry

SPECIFICATION LinkingSpec
CONSTANTS
  None = None
  gc_alloc_table_byte_len = 1
  BLOCKS_PER_ATB = 5
  MICROPY_ALLOC_GC_STACK_SIZE = 1
  NRoots = 2
  MaxBlocks = 2
  MaxWords = 3
  MaxFree = 0
  MaxFinalisers = 0
CHECK_DEADLOCK FALSE
INVARIANT ReachableKept
PROPERTY CollectionEnds

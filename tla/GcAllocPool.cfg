SPECIFICATION Spec
CONSTANTS
  None = None
  gc_alloc_table_byte_len = 2
  BLOCKS_PER_ATB = 2
  MICROPY_ALLOC_GC_STACK_SIZE = 1
  NRoots = 2
  MaxBlocks = 2
  MaxWords = 0
  MaxFree = 4
  MaxFinalisers = 0
INVARIANT AllocatesInPool
CHECK_DEADLOCK FALSE

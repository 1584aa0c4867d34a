SPECIFICATION Spec
CONSTANTS
  None = None
  gc_alloc_table_byte_len = 2
  BLOCKS_PER_ATB = 2
  MICROPY_ALLOC_GC_STACK_SIZE = 1
  NRoots = 2
  MaxBlocks = 2
  MaxWords = 2
  MaxFree = 4
  MaxFinalisers = 1
CHECK_DEADLOCK FALSE
INVARIANTS GcTypeOK ReachableKept HintSound
PROPERTIES GarbageFreed FinaliserKept ImplementsHeap

CONSTANT
  MaxBlocks = 3
SPECIFICATION StorageSpec
INVARIANT Exclusive
INVARIANT Told
CHECK_DEADLOCK FALSE

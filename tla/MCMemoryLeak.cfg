SPECIFICATION MemorySpec
CONSTANT HeapBlocks = 6
INVARIANT PassLeaksNothing

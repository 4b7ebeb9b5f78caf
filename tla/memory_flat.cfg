SPECIFICATION MemorySpec
CONSTANT WIDTH = 1
INVARIANT StorageOK
PROPERTY RefinesFlatMemory

SPECIFICATION Spec
CONSTANTS
  KHEAP_START = 4
  KHEAP_END = 16
  PAGE_SIZE = 4
  H = 1
  Size <- SizesThree
INVARIANTS MemoryIsCallers

SPECIFICATION Spec
CONSTANTS
  PAGE_SIZE = 2
  Word = 64
  PerPage = 2
  StackPages = 3
  pmm_start = 9
  BootPages = 2
  Maps <- MapsAligned
INVARIANTS PagesAccounted StackMapped

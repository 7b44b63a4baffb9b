SPECIFICATION Spec
CONSTANTS
  Frames = 12
  Mounts = 4
  UserPages = {0}
  HeapPages = {0}
  MaxExecs = 3
  AnyOrder = FALSE
  Junk = Junk
INVARIANT OnlyOccupiedFreed

SPECIFICATION Spec
CONSTANTS
  N = 4
  Word = 65536
  Key = {key1}
  Control = {0, 3, 5}
  None = None
INVARIANTS ReleasedIsOff
PROPERTIES LossyPromise SlotNotReused

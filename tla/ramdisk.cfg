SPECIFICATION Spec
CONSTANTS
  Word = 64
  MaxFiles = 3
  HeaderLen = 5
  NameLen = 6
  location = 5
  PageSize = 4
  Letter = {"a", "b", "d", "e", "g", "l", "n", "o", "v"}
  Images <- MCImages
  Sizes = {0, 1, 2, 3, 5, 12}
INVARIANTS ReadExact ListedRight NoWildAccess LoadedIntact
CHECK_DEADLOCK FALSE

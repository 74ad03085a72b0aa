SPECIFICATION Spec
CONSTANTS
  RecSize = 2
  RecNos = 8
  MaxOffset = 5
  Capacity = 3
  Modes <- MCModes
  Chars = {65}
  Backs = {66}
  Offsets <- MCOffsets
  Files <- MCFiles
  Limit = 5
  Wild = {"seekFails"}
INVARIANTS Coherent

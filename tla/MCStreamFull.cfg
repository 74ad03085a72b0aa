SPECIFICATION Spec
CONSTANTS
  RecSize = 2
  RecNos = 8
  MaxOffset = 5
  Capacity = 2
  Modes <- MCWriteModes
  Chars = {65}
  Backs = {66}
  Offsets <- MCOffsets
  Files <- MCFiles
  Limit = 5
  Wild = {"setpos", "readWriteOnly", "writeBack"}
PROPERTIES NothingLostSilently

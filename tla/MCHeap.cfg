SPECIFICATION FairSpec
CONSTANTS
  p1 = p1
  p2 = p2
  Slots = {p1, p2}
  Tag <- MCTag
  Start = 250
  FreeHead = 240
  SPs = {519, 521}
  Sizes = {1, 2, 5, 65535}
  Counts = {1, 256}
  Fills = {90}
INVARIANTS
  TypeOK Tiling Coalesced NoLeak Intact CallocZeroed
PROPERTIES
  Terminates ImplementsAllocator

SPECIFICATION Spec
CONSTANTS
  NBlocks = 4
  d1 = d1
  d2 = d2
  Data = {d1, d2}
  Texts <- Separate
INVARIANTS
  LabelsDefined
CHECK_DEADLOCK FALSE

SPECIFICATION FairSpec
CONSTANTS
  Handlers = {h1, h2}
  MaxAtexit = 2
  MaxFiles = 2
  MaxCalls = 4
INVARIANTS TypeOK
PROPERTIES LeavingEnds ImplementsProgramExit
CHECK_DEADLOCK FALSE

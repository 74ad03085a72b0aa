SPECIFICATION Spec
CONSTANTS
  Base = 2
  Forms <- MCForms
  MaxDepth = 3
  MaxSections = 2
  Wild = {}
INVARIANTS TypeOK Exclusive AsWanted NoLostUpdate NotTorn
PROPERTIES StateRestored

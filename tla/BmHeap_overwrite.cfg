SPECIFICATION Spec
CONSTANTS
  RegionSize = 256
  WordBits = 10
  Sizes = {8}
  Aligns = {8}
INVARIANTS NoFalseOverwrite

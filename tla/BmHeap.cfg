SPECIFICATION Spec
CONSTANTS
  RegionSize = 256
  WordBits = 10
  Sizes = {0, 8, 28, 1023}
  Aligns = {8, 16}
INVARIANTS TypeOK Tiling BoundaryTags Coalesced ListsMatch SearchComplete AreasDisjoint DoubleFreeSeen

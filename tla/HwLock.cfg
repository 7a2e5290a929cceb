SPECIFICATION FairSpec
CONSTANTS
  Users = {u1, u2}
  Platform = p
  MaxUses = 2
INVARIANTS TypeOK SemHeld M3Excluded CountExact NothingStranded
PROPERTIES CallsReturn
CHECK_DEADLOCK FALSE

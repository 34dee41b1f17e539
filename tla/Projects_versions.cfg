SPECIFICATION Spec
CONSTANTS
  Tab = {t1, t2}
  Secret = {s1}
  Absent = Absent
  Mask = Mask
  MaxSaves = 3
  SavesOverlap = FALSE
SYMMETRY TabSymmetry
INVARIANT SameVersionSameTeam
INVARIANT MaskNeverStored
PROPERTY TokenNotLost
CHECK_DEADLOCK FALSE

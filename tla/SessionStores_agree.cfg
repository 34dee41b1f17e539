SPECIFICATION Spec
CONSTANTS
  Card = {c1, c2}
  Late = {m1}
  Absent = Absent
  MaxDraft = 2
  Att = {a1}
  MaxFaults = 1
SYMMETRY StoreSymmetry
INVARIANT IntactUnlessClobbered
INVARIANT StoresAgree
INVARIANT CacheFollowsRows
CHECK_DEADLOCK FALSE

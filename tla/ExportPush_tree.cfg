SPECIFICATION FairSpec
CONSTANTS
  N = 3
  None = None
  Schemes <- AllTypesOrFew
  MaxExisting = 1
  DistinctIds = TRUE
INVARIANT RepairedIsLegal
INVARIANT EveryItemAccounted
INVARIANT NoLinkLostSilently
PROPERTY ImplementsWalk
PROPERTY PushEnds
CHECK_DEADLOCK FALSE

SPECIFICATION FairSpec
CONSTANTS
  Worker = {w1, w2}
  Run = {r1}
  Tab = {t1}
  None = None
  HasGate = TRUE
  SingleChat = FALSE
  MaxIter = 1
  ParkStates = {}
  HostCalls = {"abort"}
  Faults = {"crash", "agent"}
  Punctual = TRUE
INVARIANT StopRemembered
PROPERTY StopEndsRun
CHECK_DEADLOCK FALSE

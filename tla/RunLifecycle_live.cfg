SPECIFICATION EndingSpec
CONSTANTS
  Worker = {w1, w2}
  Run = {r1, r2, r3}
  Tab = {t1}
  None = None
  HasGate = TRUE
  SingleChat = FALSE
  MaxIter = 1
  ParkStates = {}
  HostCalls = {"restart"}
  Faults = {"crash", "build", "agent"}
  Punctual = TRUE
INVARIANT RunningIsOwned
PROPERTY OnlyRestartRevives
PROPERTY RunningEnds
PROPERTY LeaseFreed
CHECK_DEADLOCK FALSE

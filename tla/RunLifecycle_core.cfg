SPECIFICATION Spec
CONSTANTS
  Worker = {w1, w2}
  Run = {r1, r2}
  Tab = {t1}
  None = None
  HasGate = TRUE
  SingleChat = FALSE
  MaxIter = 1
  ParkStates = {"awaiting_mcp_oauth", "awaiting_remote_users"}
  HostCalls = {"stop", "continue", "restart", "abort", "delete"}
  Faults = {"crash", "disconnect", "build", "setup", "redis", "agent"}
  Punctual = TRUE
SYMMETRY RunSymmetry
INVARIANT MutualExclusion
INVARIANT RoundsBounded
PROPERTY ImplementsSlot
CHECK_DEADLOCK FALSE

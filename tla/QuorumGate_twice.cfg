SPECIFICATION Spec
CONSTANTS
  HostTab = {h1}
  Page = {a, b}
  Remote = {a, b}
  Owner <- OwnPages
  Gate = Gate
  None = None
  Quorums = {"first_win"}
  MaxRound = 1
  MaxFaults = 0
SYMMETRY GateSymmetry
INVARIANT RoundCommitsOnce
CHECK_DEADLOCK FALSE

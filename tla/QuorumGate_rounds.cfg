SPECIFICATION FairSpec
CONSTANTS
  HostTab = {h1}
  Page = {p1, p2}
  Remote = {a}
  Owner <- OneUser
  Gate = Gate
  None = None
  Quorums = {"first_win", "all"}
  MaxRound = 2
  MaxFaults = 1
INVARIANT ClaimExclusive
INVARIANT AllCommitsOnce
INVARIANT AllAreHeard
INVARIANT TaskOnRecord
INVARIANT PendingIsCurrent
PROPERTY GateMovesOn
CHECK_DEADLOCK FALSE

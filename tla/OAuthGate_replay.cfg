SPECIFICATION FairSpec
CONSTANTS
  Server = {s1, s2}
  Flow = {f1, f2}
  None = None
  Chats = {FALSE}
  MaxFaults = 1
PROPERTY ReplayAccepted
CHECK_DEADLOCK FALSE

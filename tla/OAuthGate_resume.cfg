SPECIFICATION FairSpec
CONSTANTS
  Server = {s1, s2}
  Flow = {f1, f2}
  None = None
  Chats = {TRUE, FALSE}
  MaxFaults = 2
INVARIANT CounterIsHonest
INVARIANT NoRunWithoutBearer
PROPERTY Resumes
CHECK_DEADLOCK FALSE

SPECIFICATION FairSpec
CONSTANTS
  Remote = {a}
  Tabs = 2
  Turn = {t1, t2}
  None = None
  MaxFaults = 2
INVARIANT OneAnswerWhileOpen
INVARIANT OfferHasAgent
INVARIANT CurrentIsOnOffer
PROPERTY TurnEnds
PROPERTY OfferEnds
CHECK_DEADLOCK FALSE

SPECIFICATION FairSpec
CONSTANTS
  Threads = {t1, t2}
  Requests <- TradeRequests
  Unit = 2
  MinLeg = 2
  Cap = 8
  MaxOpen = 2
  AcceptSecs = 0
  FundSecs = 0
  ExpiresSecs = 1
  MaxOffers = 3
  MaxMatches = 3
  MaxCalls = 3
  MaxTime = 1
  MaxFaults = 0
  None = none
INVARIANTS
  NeverOversold
  WithinLimits
  HeldByLiveMatch
  PostedOnce
PROPERTIES
  BookClears
CHECK_DEADLOCK FALSE

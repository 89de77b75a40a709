SPECIFICATION FairLookups
CONSTANTS
  Requests = {t1, t2}
  FundsIn <- FundingOf
  SpenderIn <- SpendOf
  FirstChain <- First
  Spenders = {"redeem", "refund"}
  MaxScan = 2
  Budget = 2
  MaxHeight = 3
  MaxSearches = 2
  MaxReorgs = 1
  None = None
INVARIANTS
  SpentWasMined
PROPERTIES
  SpendIsFound
CHECK_DEADLOCK FALSE

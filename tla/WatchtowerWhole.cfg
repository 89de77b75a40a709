SPECIFICATION Spec
CONSTANTS
  BtcLock = 3
  XbtLock = 7
  FundLatest = 0
  RedeemMargin = 3
  Fees = {1, 2}
  Initiators = {TRUE, FALSE}
  PhoneFees = {1, 2}
  EvictableFunding = {"xbt"}
  CrashAt = {"jobs", "send", "store"}
  MaxTime = 7
  MaxRates = 1
  MaxEvictions = 1
  MaxFaults = 1
INVARIANTS
  NobodyLosesBoth
  DoneMeansSpent

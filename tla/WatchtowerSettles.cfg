SPECIFICATION FairSpec
CONSTANTS
  BtcLock = 3
  XbtLock = 6
  FundLatest = 0
  RedeemMargin = 3
  Fees = {1, 2}
  Initiators = {TRUE}
  PhoneFees = {2}
  EvictableFunding = {"btc"}
  CrashAt = {"jobs", "send"}
  MaxTime = 6
  MaxRates = 1
  MaxEvictions = 1
  MaxFaults = 0
PROPERTIES
  LegsSettle

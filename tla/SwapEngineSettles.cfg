SPECIFICATION FairSpec
CONSTANTS
  Txs = {1, 2}
  AcceptBy = 0
  InitiatorFundBy = 0
  ParticipantFundBy = 1
  BtcLock = 2
  XbtLock = 3
  RedeemMargin = 1
  MaxTime = 3
  MaxFaults = 2
  None = None
INVARIANTS
  FundedOnce
  LeftWithNothing
  FundsWhatIsThere
  ReleasedAlone
  SettledForGood
PROPERTIES
  CoinsSettle
  RefundsRecorded
CHECK_DEADLOCK FALSE

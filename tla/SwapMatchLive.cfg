SPECIFICATION AcceptedFairSpec
CONSTANTS
    Threads = {t1}
    XbtOut = {x1}
    BtcOut = {b1}
    BadOut = {}
    None = None
    Tower = Tower
    AcceptBy = 0
    InitiatorFundBy = 0
    ParticipantFundSecs = 1
    FundLatest = 1
    WatchKinds = {"refund"}
    MaxTime = 2
    MaxFaults = 0
    MaxRewinds = 0
PROPERTIES FundedMatchEnds InTimeFundingKeepsSwap

SPECIFICATION AcceptedSpec
CONSTANTS
    Threads = {t1, t2}
    XbtOut = {x1}
    BtcOut = {b1, b2}
    BadOut = {}
    None = None
    Tower = Tower
    AcceptBy = 0
    InitiatorFundBy = 0
    ParticipantFundSecs = 1
    FundLatest = 0
    WatchKinds = {"refund"}
    MaxTime = 1
    MaxFaults = 0
    MaxRewinds = 0
SYMMETRY Symmetry
INVARIANTS ReleasedStaysCancelled RelayedOnce
PROPERTIES ClosesOnlySpent SetOnce

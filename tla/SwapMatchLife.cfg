SPECIFICATION Spec
CONSTANTS
    Threads = {t1}
    XbtOut = {x1}
    BtcOut = {b1}
    BadOut = {}
    None = None
    Tower = Tower
    AcceptBy = 0
    InitiatorFundBy = 0
    ParticipantFundSecs = 1
    FundLatest = 0
    WatchKinds = {"redeem"}
    MaxTime = 1
    MaxFaults = 1
    MaxRewinds = 1
SYMMETRY Symmetry
INVARIANTS TypeOK OnRecord StrikesExact
PROPERTY ForwardOnly

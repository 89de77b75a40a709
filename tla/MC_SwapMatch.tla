---------------------------- MODULE MC_SwapMatch ----------------------------
(* Small instances of SwapMatch for TLC.                                   *)
EXTENDS SwapMatch, TLC

Symmetry == Permutations(Threads) \cup Permutations(BtcOut)

\* A match both sides accepted and exchanged keys for: the state the funding
\* runs start from, to spend their bounds on what follows.
AcceptedMatch == [NewMatch EXCEPT !.status = "accepted",
                                  !.accepted = [r \in Roles |-> TRUE],
                                  !.keys = [r \in Roles |-> TRUE],
                                  !.hashlock = TRUE]

\* ... and everything said so far was relayed.
AcceptedRelay == [s \in Roles \cup {"edge"} |-> [y \in MsgTypes |->
                    IF \/ s \in Roles /\ y \in {"accept", "keys"}
                       \/ s = "initiator" /\ y = "hashlock" THEN 1 ELSE 0]]

AcceptedInit ==
    /\ m = AcceptedMatch
    /\ relayed = AcceptedRelay
    /\ strikes = [r \in Roles |-> [t \in Times |-> 0]]
    /\ jobs = {}
    /\ lock = None
    /\ th = [t \in Threads |-> IdleThread]
    /\ tower = IdleTower
    /\ chain = [o \in Outs |-> "absent"]
    /\ mined_at = [o \in BtcOut |-> 0]
    /\ rewinds = 0 /\ now = 0 /\ faults = 0

AcceptedSpec == AcceptedInit /\ [][Next]_vars

AcceptedFairSpec == AcceptedSpec /\ Fairness /\ PhoneRetries
=============================================================================

----------------------------- MODULE Watchtower -----------------------------
(***************************************************************************)
(* The watch jobs of one funded swap: what `run_job` of the watchtower does*)
(* on the two chains with the spends the phones handed it, so that neither *)
(* side loses both legs while its phone is off.                            *)
(*                                                                         *)
(* A pass reads all jobs at its start and works on that copy; one job is   *)
(* several steps (its chain reads, its broadcast, its write to the store), *)
(* with the phones, the miners and the fee market in between.  A node takes*)
(* a conflicting spend only if it pays more (the spends signal RBF), and a *)
(* miner only takes what pays the going rate.  The phones obey the engine  *)
(* (SwapEngine.kt) or, where a constant says so, do not.                   *)
(***************************************************************************)
EXTENDS Integers, FiniteSets

CONSTANTS
    BtcLock,          \* terms.btc_locktime
    XbtLock,          \* terms.xbt_locktime
    FundLatest,       \* participant_fund_latest(terms)
    RedeemMargin,     \* REDEEM_MARGIN_SECS
    Fees,             \* feerates of the variants; the market's rates
    Initiators,       \* bound: whether the initiator's phone is honest, or may be not
    PhoneFees,        \* bound: what the phones pay for their own spends
    EvictableFunding, \* bound: chains whose funding may stall or be evicted
    CrashAt,          \* bound: where in a pass the edge may stop
    MaxTime,          \* bound: the last instant explored
    MaxRates,         \* bound: changes of the market's rate
    MaxEvictions,     \* bound: evictions from a mempool
    MaxFaults         \* bound: crashes and phones lost

Chains == {"xbt", "btc"}
Roles == {"initiator", "participant"}
Times == 0..MaxTime

ASSUME WatchtowerConstants ==
    /\ BtcLock \in Nat /\ XbtLock \in Nat /\ FundLatest \in Nat /\ RedeemMargin \in Nat
    /\ Fees \subseteq Nat \ {0} /\ Fees # {} /\ IsFiniteSet(Fees)
    /\ Initiators \subseteq BOOLEAN
    /\ PhoneFees \subseteq Fees
    /\ EvictableFunding \subseteq Chains
    /\ CrashAt \subseteq {"jobs", "send", "store"}
    /\ MaxTime \in Nat /\ MaxRates \in Nat /\ MaxEvictions \in Nat /\ MaxFaults \in Nat

VARIABLES
    now,       \* wall clock
    fund,      \* state of each leg's HTLC output
    spend,     \* its spend, if any
    rate,      \* what miners take
    jobs,      \* stored watch jobs
    recorded,  \* Match.btc_funding is recorded
    tower,     \* the watchtower thread
    lost,      \* phones that are gone for good
    revealed,  \* the preimage was broadcast
    honest,    \* the initiator's phone keeps to the margin and the rate
    budget,    \* rate changes, evictions and faults so far
    stranded   \* history: a spend was once nobody's to raise

phoneVars == <<recorded, lost, revealed, honest>>
chainVars == <<fund, spend>>
sysVars == <<now, fund, spend, rate, jobs, recorded, tower, lost, revealed, honest, budget>>
vars == <<now, fund, spend, rate, jobs, recorded, tower, lost, revealed, honest, budget, stranded>>

-----------------------------------------------------------------------------
(* Types                                                                   *)

JobIds == {"btc_redeem", "btc_refund", "xbt_refund", "xbt_waiting"}

\* A match's jobs are read in the order of their keys (chain, kind).
JobOrder == [btc_redeem |-> 1, btc_refund |-> 2, xbt_refund |-> 3, xbt_waiting |-> 4]
FirstOf(S) == CHOOSE j \in S : \A k \in S : JobOrder[j] <= JobOrder[k]

ChainOf(j) == IF j \in {"btc_redeem", "btc_refund"} THEN "btc" ELSE "xbt"
SpendOf(j) == IF j \in {"btc_refund", "xbt_refund"} THEN "refund" ELSE "redeem"

\* WatchJob; `sent` for sent_prevout being some.  `blind` is not in the store:
\* it keeps for the properties that the job was given up with its funding unconfirmed.
WatchJob == [stored : BOOLEAN, done : BOOLEAN, sent : BOOLEAN, blind : BOOLEAN]

SpendState == [kind : {"none", "redeem", "refund"}, fee : Fees \cup {0}, mined : BOOLEAN]

\* pc "jobs": at the first of left; "send": about to broadcast for it; "store":
\* about to write next back.
TowerState == [pc : {"idle", "jobs", "send", "store"},
               at : Times,
               left : SUBSET JobIds,
               snap : [JobIds -> WatchJob],
               next : WatchJob,
               fresh : BOOLEAN]    \* a pass of this instant was completed

NoSpend == [kind |-> "none", fee |-> 0, mined |-> FALSE]
NoJob == [stored |-> FALSE, done |-> FALSE, sent |-> FALSE, blind |-> FALSE]
NewJob == [NoJob EXCEPT !.stored = TRUE]

IdleTower == [pc |-> "idle", at |-> 0, left |-> {}, snap |-> [j \in JobIds |-> NoJob],
              next |-> NoJob, fresh |-> FALSE]

\* TypeOK: the jobs, the tower's copies of them and the chains keep to their
\* types; what is counted stays within its bound (`stranded` is history).
TypeOK ==
    /\ now \in Times
    /\ fund \in [Chains -> {"absent", "mempool", "mined", "deep"}]
    /\ spend \in [Chains -> SpendState]
    /\ rate \in Fees
    /\ jobs \in [JobIds -> WatchJob]
    /\ recorded \in BOOLEAN /\ revealed \in BOOLEAN /\ honest \in Initiators
    /\ tower \in TowerState
    /\ lost \in [Roles -> BOOLEAN]
    /\ budget \in [rates : 0..MaxRates, evictions : 0..MaxEvictions, faults : 0..MaxFaults]

-----------------------------------------------------------------------------
(* What the chains answer                                                  *)

Owner(c) == IF c = "xbt" THEN "initiator" ELSE "participant"
Lock(c) == IF c = "xbt" THEN XbtLock ELSE BtcLock

\* ChainReader::txout is some: known and unspent, mempools included.
TxOut(c) == fund[c] # "absent" /\ spend[c] = NoSpend

Confirmed(c) == fund[c] \in {"mined", "deep"}

\* What a bare txout of the mempool's view would say of a spend.
FaultSpendConfirmed(c) == spend[c] # NoSpend

\* spend_confirmed.  BTC asks for the spend; XBT asks whether the output is
\* missing from the confirmed set: "spent or unknown".
SpendConfirmed(c) ==
    IF c = "btc" THEN spend[c].mined ELSE ~(Confirmed(c) /\ ~spend[c].mined)

\* ... which BTC answers with an error for a transaction it does not know.
SpendUnreadable(c) == c = "btc" /\ fund[c] = "absent"

\* spending_tx_hex and the preimage in it; BTC only.
PreimageSeen == spend["btc"].kind = "redeem"

\* A node takes a spend of a known output that is final and beats what it has.
Takes(c, kind, fee) ==
    /\ fund[c] # "absent"
    /\ kind = "refund" => now >= Lock(c)
    /\ \/ spend[c] = NoSpend
       \/ ~spend[c].mined /\ fee > spend[c].fee

Spent(c, kind, fee) == [spend EXCEPT ![c] = [kind |-> kind, fee |-> fee, mined |-> FALSE]]

\* What stands for a feerate that cannot be read (u64::MAX): above every variant.
UnknownRate == 1 + CHOOSE f \in Fees : \A g \in Fees : g <= f

\* The cheapest variant that pays the rate, else the dearest.
pick_variant(r) ==
    LET meets == {f \in Fees : f >= r}
    IN  IF meets # {} THEN CHOOSE f \in meets : \A g \in meets : f <= g
                      ELSE CHOOSE f \in Fees : \A g \in Fees : g <= f

Init ==
    /\ now = 0
    /\ fund = [c \in Chains |-> IF c = "xbt" THEN "mempool" ELSE "absent"]
    /\ spend = [c \in Chains |-> NoSpend]
    /\ rate = CHOOSE f \in Fees : \A g \in Fees : f <= g
    /\ jobs = [j \in JobIds |-> NoJob]
    /\ recorded = FALSE /\ revealed = FALSE
    /\ tower = IdleTower
    /\ lost = [r \in Roles |-> FALSE]
    /\ honest \in Initiators
    /\ budget = [rates |-> 0, evictions |-> 0, faults |-> 0]
    /\ stranded = FALSE

-----------------------------------------------------------------------------
(* The watchtower: run_jobs and run_job                                    *)

\* The pass reads the clock and every job not yet done.
TowerStart ==
    /\ tower.pc = "idle"
    /\ tower' = [tower EXCEPT !.pc = "jobs", !.at = now, !.snap = jobs,
                    !.left = {j \in JobIds : jobs[j].stored /\ ~jobs[j].done}]
    /\ UNCHANGED <<now, chainVars, rate, jobs, phoneVars, budget>>

TowerEnd ==
    /\ tower.pc = "jobs" /\ tower.left = {}
    /\ tower' = [IdleTower EXCEPT !.fresh = tower.fresh \/ tower.at = now]
    /\ UNCHANGED <<now, chainVars, rate, jobs, phoneVars, budget>>

\* The job at hand.
Job == FirstOf(tower.left)

\* It is dealt with (or failed, which is logged).
NextJob == [tower EXCEPT !.pc = "jobs", !.left = @ \ {Job}, !.next = NoJob]

\* phone_sent_redeem: a BTC redeem job whose output is spent by the phone's
\* own redeem adopts it.
phone_sent_redeem(j) == j = "btc_redeem" /\ PreimageSeen

\* Every spend of the XBT leg waiting for its locktime.
FaultDue(j, resend) ==
    CASE j = "btc_redeem" -> resend \/ fund["btc"] = "deep"
      [] OTHER -> tower.at >= Lock(ChainOf(j)) /\ (j = "xbt_waiting" => recorded /\ PreimageSeen)

\* Whether the job's spend is due, once its output's state is known.
Due(j, resend) ==
    CASE j \in {"btc_refund", "xbt_refund"} -> tower.at >= Lock(ChainOf(j))
      [] j = "btc_redeem" -> resend \/ fund["btc"] = "deep"
      [] j = "xbt_waiting" -> recorded /\ PreimageSeen

\* run_job up to its broadcast: what the chain says of the job's output.
JobLook ==
    /\ tower.pc = "jobs" /\ tower.left # {}
    /\ LET j == Job
           c == ChainOf(j)
           s == tower.snap[j]
           adopt == ~TxOut(c) /\ ~s.sent /\ phone_sent_redeem(j)
           resend == ~TxOut(c) /\ (s.sent \/ adopt)
       IN  \/ /\ ~TxOut(c) /\ ~SpendUnreadable(c) /\ SpendConfirmed(c)
              /\ tower' = [tower EXCEPT !.pc = "store", 
                                         !.next = [s EXCEPT !.done = TRUE, !.blind = ~Confirmed(c)]]
              /\ UNCHANGED jobs
           \/ /\ TxOut(c) \/ (~SpendUnreadable(c) /\ ~SpendConfirmed(c) /\ resend)
              /\ jobs' = IF adopt THEN [jobs EXCEPT ![j] = [s EXCEPT !.sent = TRUE]] ELSE jobs
              /\ LET snap == [tower EXCEPT !.snap[j].sent = @ \/ adopt]
                 IN  tower' = IF Due(j, resend) THEN [snap EXCEPT !.pc = "send"]
                              ELSE [snap EXCEPT !.left = @ \ {Job}]
           \/ /\ ~TxOut(c)
              /\ SpendUnreadable(c) \/ (~SpendConfirmed(c) /\ ~resend)
              /\ tower' = NextJob
              /\ UNCHANGED jobs
    /\ UNCHANGED <<now, chainVars, rate, phoneVars, budget>>

\* The broadcast of the picked variant, and that one of ours was sent.  The
\* feerate read may fail: then the dearest variant is sent.
JobSend ==
    /\ tower.pc = "send"
    /\ LET j == Job
           c == ChainOf(j)
           s == tower.snap[j]
       IN  \E fee \in {pick_variant(rate), pick_variant(UnknownRate)} :
             IF Takes(c, SpendOf(j), fee)
               THEN /\ spend' = Spent(c, SpendOf(j), fee)
                    /\ tower' = IF s.sent THEN NextJob
                                ELSE [tower EXCEPT !.pc = "store", !.next = [s EXCEPT !.sent = TRUE]]
               ELSE /\ spend' = spend
                    /\ tower' = NextJob
    /\ UNCHANGED <<now, fund, rate, jobs, phoneVars, budget>>

\* Store::put_watch of the pass's copy.
JobStore ==
    /\ tower.pc = "store"
    /\ jobs' = [jobs EXCEPT ![Job] = tower.next]
    /\ tower' = NextJob
    /\ UNCHANGED <<now, chainVars, rate, phoneVars, budget>>

TowerNext == TowerStart \/ JobLook \/ JobSend \/ JobStore \/ TowerEnd

Fault ==
    /\ budget.faults < MaxFaults
    /\ budget' = [budget EXCEPT !.faults = @ + 1]

\* The edge stops and starts again, in the middle of a pass.
Crash ==
    /\ Fault
    /\ tower.pc \in CrashAt
    /\ tower' = [IdleTower EXCEPT !.fresh = tower.fresh]
    /\ UNCHANGED <<now, chainVars, rate, jobs, phoneVars>>

-----------------------------------------------------------------------------
(* The phones                                                              *)

\* A funding (or its re-send): the participant's against a confirmed XBT HTLC.
Fund(r) ==
    LET c == IF r = "initiator" THEN "xbt" ELSE "btc"
    IN  /\ ~lost[r]
        /\ fund[c] = "absent"
        /\ r = "participant" => fund["xbt"] = "deep" /\ now <= FundLatest
        /\ fund' = [fund EXCEPT ![c] = "mempool"]
        /\ UNCHANGED <<now, spend, rate, jobs, phoneVars, tower, budget>>

\* afterFunding hands a spend to the watchtower; the edge saw the funding.
PostJob(j) ==
    /\ ~jobs[j].stored
    /\ CASE j = "xbt_refund"  -> ~lost["initiator"] /\ fund["xbt"] # "absent"
         [] j = "btc_refund"  -> ~lost["participant"] /\ fund["btc"] # "absent"
         [] j = "xbt_waiting" -> ~lost["participant"] /\ fund["btc"] # "absent"
         [] j = "btc_redeem"  -> ~lost["initiator"] /\ revealed /\ recorded
    /\ jobs' = [jobs EXCEPT ![j] = NewJob]
    /\ recorded' = (recorded \/ j = "btc_refund")
    /\ UNCHANGED <<now, chainVars, rate, lost, revealed, honest, tower, budget>>

\* The participant's `funded` message, which also records the funding.
PostFunded ==
    /\ ~recorded /\ ~lost["participant"] /\ fund["btc"] # "absent"
    /\ recorded' = TRUE
    /\ UNCHANGED <<now, chainVars, rate, jobs, lost, revealed, honest, tower, budget>>

\* The engine never starts a redeem later than this.
InMargin == now <= BtcLock - RedeemMargin

\* initiatorRedeem: the preimage goes public at the going rate.
PhoneRedeem(fee) ==
    /\ ~lost["initiator"] /\ ~revealed
    /\ fund["btc"] = "deep" /\ TxOut("btc")
    /\ honest => recorded /\ InMargin /\ fee = rate
    /\ spend' = Spent("btc", "redeem", fee)
    /\ revealed' = TRUE
    /\ UNCHANGED <<now, fund, rate, jobs, recorded, lost, honest, tower, budget>>

\* The participant redeems an XBT HTLC that is unspent, with the preimage it saw.
participantRedeem == ~lost["participant"] /\ PreimageSeen /\ TxOut("xbt")

\* The initiator sends its BTC redeem again, in place of what it sent before.
bumpRedeem == ~lost["initiator"]

\* A phone's own spend: a redeem, not below the going rate, or the owner's refund
\* past the locktime, sent again when the fees moved (refundIfDue, refundProgress).
PhoneSpend(c, kind, fee) ==
    /\ fee \in PhoneFees
    /\ IF kind = "refund" THEN ~lost[Owner(c)]
       ELSE revealed /\ fee >= rate /\ (IF c = "xbt" THEN participantRedeem ELSE bumpRedeem)
    /\ Takes(c, kind, fee)
    /\ spend' = Spent(c, kind, fee)
    /\ UNCHANGED <<now, fund, rate, jobs, phoneVars, tower, budget>>

PhoneLost(r) ==
    /\ Fault
    /\ ~lost[r]
    /\ lost' = [lost EXCEPT ![r] = TRUE]
    /\ UNCHANGED <<now, chainVars, rate, jobs, recorded, revealed, honest, tower>>

\* What a phone that still runs has handed over.
HandedOver(r) ==
    IF r = "initiator"
      THEN /\ fund["xbt"] # "absent" => jobs["xbt_refund"].stored
           /\ revealed => jobs["btc_redeem"].stored
      ELSE fund["btc"] # "absent" =>
             jobs["btc_refund"].stored /\ jobs["xbt_waiting"].stored /\ recorded

Phones ==
    \/ \E r \in Roles : Fund(r) \/ PhoneLost(r)
    \/ \E j \in JobIds : PostJob(j)
    \/ PostFunded
    \/ \E fee \in Fees : PhoneRedeem(fee)
    \/ \E c \in Chains, kind \in {"redeem", "refund"}, fee \in Fees : PhoneSpend(c, kind, fee)

-----------------------------------------------------------------------------
(* The chains, the fee market and the clock                                *)

MineFund(c) ==
    /\ fund[c] \in {"mempool", "mined"}
    /\ fund' = [fund EXCEPT ![c] = IF @ = "mempool" THEN "mined" ELSE "deep"]
    /\ UNCHANGED <<now, spend, rate, jobs, phoneVars, tower, budget>>

Minable(c) == Confirmed(c) /\ spend[c] # NoSpend /\ ~spend[c].mined /\ spend[c].fee >= rate

MineSpend(c) ==
    /\ Minable(c)
    /\ spend' = [spend EXCEPT ![c].mined = TRUE]
    /\ UNCHANGED <<now, fund, rate, jobs, phoneVars, tower, budget>>

Evicts ==
    /\ budget.evictions < MaxEvictions
    /\ budget' = [budget EXCEPT !.evictions = @ + 1]

EvictSpend(c) ==
    /\ Evicts
    /\ spend[c] # NoSpend /\ ~spend[c].mined
    /\ spend' = [spend EXCEPT ![c] = NoSpend]
    /\ UNCHANGED <<now, fund, rate, jobs, phoneVars, tower>>

EvictFund(c) ==
    /\ Evicts
    /\ c \in EvictableFunding /\ fund[c] = "mempool"
    /\ fund' = [fund EXCEPT ![c] = "absent"]
    /\ spend' = [spend EXCEPT ![c] = NoSpend]
    /\ UNCHANGED <<now, rate, jobs, phoneVars, tower>>

RateMoves ==
    /\ budget.rates < MaxRates
    /\ budget' = [budget EXCEPT !.rates = @ + 1]
    /\ rate' \in Fees \ {rate}
    /\ UNCHANGED <<now, chainVars, jobs, phoneVars, tower>>

\* A unit of time is long enough for a pass (TICK is a minute), for a phone
\* that runs to hand over, and for a miner to take what pays the rate (a
\* funding does, unless the run lets it be evicted).
Tick ==
    /\ now < MaxTime
    /\ tower.pc = "idle" /\ tower.fresh
    /\ \A c \in Chains : ~Minable(c) /\ (fund[c] = "mempool" => c \in EvictableFunding)
    /\ \A r \in Roles : lost[r] \/ HandedOver(r)
    /\ now' = now + 1
    /\ tower' = IdleTower
    /\ UNCHANGED <<chainVars, rate, jobs, phoneVars, budget>>

World ==
    \/ \E c \in Chains : MineFund(c) \/ MineSpend(c) \/ EvictSpend(c) \/ EvictFund(c)
    \/ RateMoves \/ Tick

\* A spend like the job's own waits to be mined below the dearest variant, and the job does
\* not take it for its own ("someone else's unconfirmed spend"): the watchtower will not
\* raise it.  A phone sent it, or the edge stopped between its broadcast and its store.
Unraised(j) ==
    /\ spend[ChainOf(j)].kind = SpendOf(j) /\ ~spend[ChainOf(j)].mined
    /\ \E f \in Fees : f > spend[ChainOf(j)].fee
    /\ ~jobs[j].sent
    /\ ~(tower.pc = "store" /\ Job = j /\ tower.next.sent)

\* The BTC redeem is taken over from the phone (phone_sent_redeem), these two are not.
Stranding == Unraised("btc_refund") \/ Unraised("xbt_waiting")

Step == TowerNext \/ Crash \/ Phones \/ World

Next == Step /\ stranded' = (stranded \/ Stranding')

Spec == Init /\ [][Next]_vars

\* The watchtower loops for ever, miners mine, time passes, and a phone that
\* runs hands its jobs over.
Fairness ==
    /\ WF_sysVars(TowerNext)
    /\ \A c \in Chains : WF_sysVars(MineFund(c)) /\ WF_sysVars(MineSpend(c))
    /\ SF_sysVars(Tick)
    /\ \A j \in JobIds : WF_sysVars(PostJob(j))
    /\ WF_sysVars(PostFunded)

FairSpec == Spec /\ Fairness

-----------------------------------------------------------------------------
(* Properties                                                              *)

\* If a copy w of job j says done, it does so rightly.
RightlyDone(j, w) == w.done => spend[ChainOf(j)].mined \/ (j = "xbt_refund" /\ w.blind)

\* "It is done only once a spend of its HTLC confirms" (run_job), but for what an XBT node
\* cannot tell apart: a job is given up only once a spend of its HTLC is mined, or it is the
\* initiator's refund and a pass found the XBT funding neither confirmed nor unspent (evicted,
\* say).  The participant's jobs and all of BTC are never given up that way.
DoneMeansSpent == \A j \in JobIds : RightlyDone(j, jobs[j])

\* An honest initiator that handed its jobs over never loses both legs: its XBT is
\* not redeemed while its BTC redeem lost to the participant's refund, however
\* the fees moved after the preimage became public.
InitiatorWhole ==
    honest /\ HandedOver("initiator") =>
      ~(/\ spend["xbt"].mined /\ spend["xbt"].kind = "redeem"
        /\ spend["btc"].mined /\ spend["btc"].kind = "refund")

\* A participant that handed its jobs over never loses both legs: once its BTC
\* is redeemed its XBT is not refunded, although its phone never runs again.
ParticipantWhole ==
    HandedOver("participant") =>
      ~(/\ spend["btc"].mined /\ spend["btc"].kind = "redeem"
        /\ spend["xbt"].mined /\ spend["xbt"].kind = "refund")

\* Nobody that handed its jobs over loses both legs, whatever the phones, the fees and the
\* stops of the edge do, unless a spend was once nobody's to raise (run_job, pick_variant,
\* phone_sent_redeem).
NobodyLosesBoth == ~stranded => InitiatorWhole /\ ParticipantWhole

\* Coins do not stay locked: a confirmed HTLC whose refund was handed over is
\* spent on chain in the end, whatever the fees did.
LegsSettle ==
    \A c \in Chains :
      (jobs[IF c = "xbt" THEN "xbt_refund" ELSE "btc_refund"].stored /\ Confirmed(c))
        ~> spend[c].mined

=============================================================================

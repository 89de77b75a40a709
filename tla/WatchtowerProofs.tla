-------------------------- MODULE WatchtowerProofs --------------------------
(***************************************************************************)
(* Watchtower for any locktimes, fees, clock and number of faults.  A watch*)
(* job is given up only once a spend of its HTLC has confirmed, but for the*)
(* initiator's refund of a funding the XBT nodes did not know.  And nobody *)
(* that handed its jobs over loses both legs unless a spend was nobody's to*)
(* raise, provided there is time enough for every change of the fee market *)
(* and every eviction (EnoughTime).                                        *)
(***************************************************************************)
EXTENDS Watchtower, Sums, TLAPS

\* The state has its type, and a pass that is about to send or to store has a job at hand.
Shape == TypeOK /\ (tower.pc \in {"send", "store"} => tower.left # {})

\* Nothing is spent of an output that is not known, nothing mined of one that is not.
SpendsKnown ==
    \A c \in Chains : /\ fund[c] = "absent" => spend[c] = NoSpend
                      /\ spend[c].mined => Confirmed(c)

\* The XBT funding is buried when the BTC one is broadcast, and so when the redeem that waits
\* for the preimage is handed over, also as a pass sees it.
XbtInv ==
    /\ fund["btc"] # "absent" => fund["xbt"] = "deep"
    /\ jobs["xbt_waiting"].stored \/ "xbt_waiting" \in tower.left => fund["xbt"] = "deep"

\* The store, the copy a pass works on and what it is about to write say done only rightly.
DoneInv ==
    /\ DoneMeansSpent
    /\ \A j \in JobIds : RightlyDone(j, tower.snap[j])
    /\ tower.pc = "store" => RightlyDone(Job, tower.next)

IInv == Shape /\ SpendsKnown /\ XbtInv /\ DoneInv

-----------------------------------------------------------------------------
(* What the steps have in common                                           *)

\* What no step of the argument reads.
RestOK ==
    /\ rate \in Fees
    /\ recorded \in BOOLEAN /\ revealed \in BOOLEAN /\ honest \in Initiators
    /\ lost \in [Roles -> BOOLEAN]
    /\ budget \in [rates : 0..MaxRates, evictions : 0..MaxEvictions, faults : 0..MaxFaults]

\* A pass has a job at hand while any is left (run_jobs).
LEMMA JobAtHand ==
    ASSUME NEW S \in SUBSET JobIds, S # {}
    PROVE  FirstOf(S) \in S /\ FirstOf(S) \in JobIds
<1>1. \A j \in JobIds : JobOrder[j] \in Nat
  BY DEF JobIds, JobOrder
<1>2. \E j \in S : \A k \in S : JobOrder[j] <= JobOrder[k]
  <2>1. CASE "btc_redeem" \in S
    <3>1. \A k \in S : JobOrder["btc_redeem"] <= JobOrder[k]
      BY DEF JobIds, JobOrder
    <3> QED
      BY <2>1, <3>1
  <2>2. CASE "btc_redeem" \notin S /\ "btc_refund" \in S
    <3>1. \A k \in S : JobOrder["btc_refund"] <= JobOrder[k]
      BY <2>2 DEF JobIds, JobOrder
    <3> QED
      BY <2>2, <3>1
  <2>3. CASE "btc_redeem" \notin S /\ "btc_refund" \notin S /\ "xbt_refund" \in S
    <3>1. \A k \in S : JobOrder["xbt_refund"] <= JobOrder[k]
      BY <2>3 DEF JobIds, JobOrder
    <3> QED
      BY <2>3, <3>1
  <2>4. CASE "btc_redeem" \notin S /\ "btc_refund" \notin S /\ "xbt_refund" \notin S
    <3>1. S = {"xbt_waiting"}
      BY <2>4 DEF JobIds
    <3>2. \A k \in S : JobOrder["xbt_waiting"] <= JobOrder[k]
      BY <3>1 DEF JobOrder
    <3> QED
      BY <3>1, <3>2
  <2> QED
    BY <2>1, <2>2, <2>3, <2>4
<1>3. FirstOf(S) \in S
  BY <1>2 DEF FirstOf
<1> QED
  BY <1>3

\* A job's chain is one of the two.
LEMMA JobChain ==
    ASSUME NEW j \in JobIds
    PROVE  ChainOf(j) \in Chains
BY DEF ChainOf, Chains, JobIds

\* While no mined spend is taken back, what is known to be done stays so.
LEMMA DoneKept ==
    ASSUME IInv, jobs' = jobs, tower' = tower,
           \A c \in Chains : spend[c].mined => spend'[c].mined
    PROVE  DoneInv'
<1>1. \A j \in JobIds : RightlyDone(j, jobs[j])'
  BY JobChain DEF IInv, DoneInv, DoneMeansSpent, RightlyDone
<1>2. \A j \in JobIds : RightlyDone(j, tower.snap[j])'
  BY JobChain DEF IInv, DoneInv, RightlyDone
<1>3. tower.pc = "store" => RightlyDone(Job, tower.next)'
  <2> SUFFICES ASSUME tower.pc = "store" PROVE RightlyDone(Job, tower.next)'
    OBVIOUS
  <2>1. Job \in JobIds
    BY JobAtHand DEF Job, IInv, Shape, TypeOK, TowerState
  <2>2. ChainOf(Job) \in Chains /\ Job' = Job
    BY <2>1, JobChain DEF Job
  <2> QED
    BY <2>2 DEF IInv, DoneInv, RightlyDone
<1> QED
  BY <1>1, <1>2, <1>3 DEF DoneInv, DoneMeansSpent

\* A step that leaves the chains and the clock alone.
LEMMA TowerKeeps ==
    ASSUME IInv, UNCHANGED <<now, fund, spend>>, Shape', DoneInv',
           jobs'["xbt_waiting"].stored \/ "xbt_waiting" \in tower'.left => fund["xbt"] = "deep"
    PROVE  IInv'
BY DEF IInv, SpendsKnown, XbtInv, Confirmed

\* A step that changes nothing the argument reads.
LEMMA NothingKeeps ==
    ASSUME IInv, UNCHANGED <<now, fund, spend, jobs, tower>>, RestOK'
    PROVE  IInv'
<1>1. Shape'
  BY DEF IInv, Shape, TypeOK, RestOK
<1>2. DoneInv'
  BY DoneKept DEF IInv
<1> QED
  BY <1>1, <1>2, TowerKeeps DEF IInv, XbtInv

\* One leg's spend changes: nothing mined is taken back, and only a known output is spent.
LEMMA SpendKeeps ==
    ASSUME IInv, NEW c \in Chains, NEW v \in SpendState,
           spend' = [spend EXCEPT ![c] = v], UNCHANGED <<now, fund, jobs>>,
           spend[c].mined => v.mined, v.mined => Confirmed(c),
           v # NoSpend => fund[c] # "absent",
           tower'.left \subseteq tower.left,
           Shape', DoneInv'
    PROVE  IInv'
<1>1. \A d \in Chains : spend'[d] = IF d = c THEN v ELSE spend[d]
  BY DEF IInv, Shape, TypeOK
<1>2. SpendsKnown'
  BY <1>1 DEF IInv, SpendsKnown, Confirmed
<1>3. "xbt_waiting" \in tower'.left => "xbt_waiting" \in tower.left
  OBVIOUS
<1> QED
  BY <1>2, <1>3 DEF IInv, XbtInv

\* ... with the watchtower and its store unchanged.
LEMMA SpendAlone ==
    ASSUME IInv, NEW c \in Chains, NEW v \in SpendState,
           spend' = [spend EXCEPT ![c] = v], UNCHANGED <<now, fund, jobs, tower>>, RestOK',
           spend[c].mined => v.mined, v.mined => Confirmed(c),
           v # NoSpend => fund[c] # "absent"
    PROVE  IInv'
<1>1. \A d \in Chains : spend'[d] = IF d = c THEN v ELSE spend[d]
  BY DEF IInv, Shape, TypeOK
<1>2. Shape'
  BY DEF IInv, Shape, TypeOK, RestOK
<1>3. \A d \in Chains : spend[d].mined => spend'[d].mined
  BY <1>1
<1>4. DoneInv'
  BY <1>3, DoneKept
<1>5. tower'.left \subseteq tower.left
  OBVIOUS
<1> QED
  BY <1>2, <1>4, <1>5, SpendKeeps

\* A spend a node takes, as it is in the mempool.
LEMMA TakenSpend ==
    ASSUME IInv, NEW c \in Chains, NEW kind \in {"redeem", "refund"}, NEW fee \in Fees,
           Takes(c, kind, fee)
    PROVE  /\ [kind |-> kind, fee |-> fee, mined |-> FALSE] \in SpendState
           /\ ~spend[c].mined /\ fund[c] # "absent"
<1>1. [kind |-> kind, fee |-> fee, mined |-> FALSE] \in SpendState
  BY DEF SpendState
<1>2. ~spend[c].mined /\ fund[c] # "absent"
  BY DEF Takes, NoSpend
<1> QED
  BY <1>1, <1>2

-----------------------------------------------------------------------------
(* Fees                                                                    *)

\* There are a cheapest and a dearest variant (WatchJob.variants is not empty).
LEMMA CheapestAndDearest ==
    ASSUME NEW S \in SUBSET Fees, S # {}
    PROVE  /\ (CHOOSE f \in S : \A g \in S : f <= g) \in S
           /\ (CHOOSE f \in S : \A g \in S : g <= f) \in S
<1>1. S \in SUBSET Nat /\ IsFiniteSet(S)
  BY WatchtowerConstants, FS_Subset
<1>2. \E f \in S : \A g \in S : f <= g
  BY <1>1, LeastNatural
<1>3. \E f \in S : \A g \in S : g <= f
  BY <1>1, GreatestNatural
<1> QED
  BY <1>2, <1>3

\* What is sent is one of the variants, whatever the rate read (pick_variant).
LEMMA PickedIsVariant ==
    ASSUME NEW r
    PROVE  pick_variant(r) \in Fees
<1> DEFINE meets == {f \in Fees : f >= r}
<1>1. Fees # {} /\ Fees \in SUBSET Fees /\ meets \in SUBSET Fees
  BY WatchtowerConstants
<1>2. CASE meets # {}
  <2>1. (CHOOSE f \in meets : \A g \in meets : f <= g) \in meets
    BY <1>1, <1>2, CheapestAndDearest
  <2> QED
    BY <1>1, <1>2, <2>1 DEF pick_variant
<1>3. CASE meets = {}
  <2>1. (CHOOSE f \in Fees : \A g \in Fees : g <= f) \in Fees
    BY <1>1, CheapestAndDearest
  <2> QED
    BY <1>3, <2>1 DEF pick_variant
<1> QED
  BY <1>2, <1>3

-----------------------------------------------------------------------------
(* The watchtower's steps                                                  *)

\* Initially nothing is spent and nothing is stored.
LEMMA InitInv ==
    ASSUME Init
    PROVE  IInv
<1>1. rate \in Fees
  <2>1. Fees \in SUBSET Fees /\ Fees # {}
    BY WatchtowerConstants
  <2>2. (CHOOSE f \in Fees : \A g \in Fees : f <= g) \in Fees
    BY <2>1, CheapestAndDearest
  <2> QED
    BY <2>2 DEF Init
<1>2. IdleTower \in TowerState /\ NoJob \in WatchJob /\ 0 \in Times
  BY WatchtowerConstants DEF IdleTower, TowerState, WatchJob, NoJob, Times
<1>3. NoSpend \in SpendState
  BY DEF NoSpend, SpendState
<1>4. budget \in [rates : 0..MaxRates, evictions : 0..MaxEvictions, faults : 0..MaxFaults]
  BY WatchtowerConstants DEF Init
<1>5. TypeOK
  BY <1>1, <1>2, <1>3, <1>4 DEF Init, TypeOK
<1>6. tower.pc = "idle" /\ tower.snap = [j \in JobIds |-> NoJob]
  BY DEF Init, IdleTower
<1>7. Shape
  BY <1>5, <1>6 DEF Shape
<1>8. SpendsKnown /\ XbtInv
  <2>1. tower.left = {} /\ jobs["xbt_waiting"] = NoJob
    BY DEF Init, IdleTower, JobIds
  <2> QED
    BY <2>1 DEF Init, SpendsKnown, XbtInv, NoSpend, NoJob, Chains
<1>9. DoneInv
  BY <1>6 DEF Init, DoneInv, DoneMeansSpent, RightlyDone, NoJob
<1> QED
  BY <1>7, <1>8, <1>9 DEF IInv

\* The pass reads the clock and the jobs.
LEMMA TowerStartInv ==
    ASSUME IInv, TowerStart
    PROVE  IInv'
<1>1. tower' = [tower EXCEPT !.pc = "jobs", !.at = now, !.snap = jobs,
                   !.left = {j \in JobIds : jobs[j].stored /\ ~jobs[j].done}]
      /\ UNCHANGED <<now, fund, spend, rate, jobs, recorded, lost, revealed, honest, budget>>
  BY DEF TowerStart, chainVars, phoneVars
<1>2. /\ tower' \in TowerState /\ tower'.pc = "jobs" /\ tower'.snap = jobs
  BY <1>1 DEF IInv, Shape, TypeOK, TowerState
<1>3. Shape'
  BY <1>1, <1>2 DEF IInv, Shape, TypeOK
<1>4. DoneInv'
  BY <1>1, <1>2 DEF IInv, DoneInv, DoneMeansSpent, RightlyDone
<1>5. "xbt_waiting" \in tower'.left => jobs["xbt_waiting"].stored
  BY <1>1 DEF IInv, Shape, TypeOK, TowerState
<1>6. jobs'["xbt_waiting"].stored \/ "xbt_waiting" \in tower'.left => fund["xbt"] = "deep"
  BY <1>1, <1>5 DEF IInv, XbtInv
<1> QED
  BY <1>1, <1>3, <1>4, <1>6, TowerKeeps

\* The pass ends, or the edge stops in it: nothing is left of the pass.
LEMMA TowerIdleInv ==
    ASSUME IInv, NEW b \in BOOLEAN, tower' = [IdleTower EXCEPT !.fresh = b],
           budget' \in [rates : 0..MaxRates, evictions : 0..MaxEvictions, faults : 0..MaxFaults],
           UNCHANGED <<now, fund, spend, rate, jobs, recorded, lost, revealed, honest>>
    PROVE  IInv'
<1>1. /\ tower' \in TowerState /\ tower'.pc = "idle" /\ tower'.left = {}
      /\ tower'.snap = [j \in JobIds |-> NoJob]
  <2>1. IdleTower \in TowerState
    BY WatchtowerConstants DEF IdleTower, TowerState, WatchJob, NoJob, Times
  <2>2. tower' \in TowerState
    BY <2>1 DEF TowerState
  <2> QED
    BY <2>2 DEF IdleTower
<1>2. Shape'
  BY <1>1 DEF IInv, Shape, TypeOK
<1>3. DoneInv'
  BY <1>1 DEF IInv, DoneInv, DoneMeansSpent, RightlyDone, NoJob
<1>4. jobs'["xbt_waiting"].stored \/ "xbt_waiting" \in tower'.left => fund["xbt"] = "deep"
  BY <1>1 DEF IInv, XbtInv
<1> QED
  BY <1>2, <1>3, <1>4, TowerKeeps

\* A step of a pass that leaves the chains alone and marks nothing done that is not spent.
LEMMA PassStep ==
    ASSUME IInv, UNCHANGED <<now, fund, spend>>, RestOK',
           jobs' \in [JobIds -> WatchJob], tower' \in TowerState,
           \A j \in JobIds : RightlyDone(j, jobs'[j]) /\ RightlyDone(j, tower'.snap[j]),
           tower'.pc \in {"send", "store"} => tower'.left # {},
           tower'.pc = "store" => RightlyDone(Job', tower'.next),
           jobs'["xbt_waiting"].stored \/ "xbt_waiting" \in tower'.left => fund["xbt"] = "deep"
    PROVE  IInv'
<1>1. Shape'
  BY DEF IInv, Shape, TypeOK, RestOK
<1>2. DoneInv'
  BY DEF DoneInv, DoneMeansSpent, RightlyDone
<1> QED
  BY <1>1, <1>2, TowerKeeps

\* What the chains and phones are worth while only the pass moves.
LEMMA RestKept ==
    ASSUME IInv, UNCHANGED <<rate, recorded, lost, revealed, honest, budget>>
    PROVE  RestOK'
BY DEF IInv, Shape, TypeOK, RestOK

\* The pass goes on to the next job.
LEMMA NextJobInv ==
    ASSUME IInv, UNCHANGED <<now, fund, spend, rate, recorded, lost, revealed, honest, budget>>,
           tower' = NextJob, jobs' \in [JobIds -> WatchJob],
           \A j \in JobIds : RightlyDone(j, jobs'[j]),
           jobs'["xbt_waiting"].stored => fund["xbt"] = "deep"
    PROVE  IInv'
<1>1. tower \in TowerState /\ NoJob \in WatchJob
  BY DEF IInv, Shape, TypeOK, WatchJob, NoJob
<1>2. /\ tower' \in TowerState /\ tower'.pc = "jobs" /\ tower'.snap = tower.snap
      /\ tower'.left \subseteq tower.left
  BY <1>1 DEF NextJob, TowerState
<1>3. RestOK'
  BY RestKept
<1>4. \A j \in JobIds : RightlyDone(j, jobs'[j]) /\ RightlyDone(j, tower'.snap[j])
  BY <1>2 DEF IInv, DoneInv
<1>5. tower'.pc \notin {"send", "store"} /\ tower'.pc # "store"
  BY <1>2
<1>6. jobs'["xbt_waiting"].stored \/ "xbt_waiting" \in tower'.left => fund["xbt"] = "deep"
  BY <1>2 DEF IInv, XbtInv
<1> QED
  BY <1>2, <1>3, <1>4, <1>5, <1>6, PassStep

\* The spend of an output that the chain calls confirmed is mined: BTC answers for the spend
\* itself, XBT for an output that was confirmed.
LEMMA ConfirmedIsMined ==
    ASSUME NEW c \in Chains, SpendConfirmed(c)
    PROVE  spend[c].mined \/ (c = "xbt" /\ ~Confirmed(c))
BY DEF SpendConfirmed, Chains

\* run_job up to its broadcast.
LEMMA JobLookInv ==
    ASSUME IInv, JobLook
    PROVE  IInv'
<1> DEFINE j == Job
           c == ChainOf(j)
           s == tower.snap[j]
           adopt == ~TxOut(c) /\ ~s.sent /\ phone_sent_redeem(j)
           resend == ~TxOut(c) /\ (s.sent \/ adopt)
           snap == [tower EXCEPT !.snap[j].sent = @ \/ adopt]
<1>1. /\ tower.pc = "jobs" /\ tower.left # {}
      /\ UNCHANGED <<now, fund, spend, rate, recorded, lost, revealed, honest, budget>>
  BY DEF JobLook, chainVars, phoneVars
<1>2. tower \in TowerState /\ jobs \in [JobIds -> WatchJob] /\ tower.left \in SUBSET JobIds
  BY DEF IInv, Shape, TypeOK, TowerState
<1>3. j \in tower.left /\ j \in JobIds
  BY <1>1, <1>2, JobAtHand DEF Job
<1>4. c \in Chains /\ s \in WatchJob
  BY <1>2, <1>3, JobChain DEF TowerState
<1>5. \A k \in JobIds : RightlyDone(k, jobs[k]) /\ RightlyDone(k, tower.snap[k])
  BY DEF IInv, DoneInv, DoneMeansSpent
<1>6. RestOK'
  BY <1>1, RestKept
<1>7. \/ /\ ~TxOut(c) /\ ~SpendUnreadable(c) /\ SpendConfirmed(c)
         /\ tower' = [tower EXCEPT !.pc = "store",
                                   !.next = [s EXCEPT !.done = TRUE, !.blind = ~Confirmed(c)]]
         /\ UNCHANGED jobs
      \/ /\ jobs' = IF adopt THEN [jobs EXCEPT ![j] = [s EXCEPT !.sent = TRUE]] ELSE jobs
         /\ tower' = IF Due(j, resend) THEN [snap EXCEPT !.pc = "send"]
                     ELSE [snap EXCEPT !.left = @ \ {Job}]
      \/ tower' = NextJob /\ UNCHANGED jobs
  BY DEF JobLook
<1> HIDE DEF j, c, s, adopt, resend
<1>8. ASSUME SpendConfirmed(c), UNCHANGED jobs,
             tower' = [tower EXCEPT !.pc = "store",
                                    !.next = [s EXCEPT !.done = TRUE, !.blind = ~Confirmed(c)]]
      PROVE  IInv'
  <2>0. Confirmed(c) \in BOOLEAN
    BY DEF Confirmed
  <2>1. /\ [s EXCEPT !.done = TRUE, !.blind = ~Confirmed(c)] \in WatchJob
        /\ [s EXCEPT !.done = TRUE, !.blind = ~Confirmed(c)].blind = ~Confirmed(c)
    BY <1>4, <2>0 DEF WatchJob
  <2>2. /\ tower' \in TowerState /\ tower'.pc = "store"
        /\ tower'.snap = tower.snap /\ tower'.left = tower.left
        /\ tower'.next = [s EXCEPT !.done = TRUE, !.blind = ~Confirmed(c)]
    BY <1>2, <1>8, <2>1 DEF TowerState
  <2>3. spend[c].mined \/ (c = "xbt" /\ ~Confirmed(c))
    BY <1>4, <1>8, ConfirmedIsMined
  <2>4. Job' = j
    BY <2>2 DEF Job, j
  <2>5. jobs' \in [JobIds -> WatchJob]
    BY <1>2, <1>8
  <2>6. \A k \in JobIds : RightlyDone(k, jobs'[k]) /\ RightlyDone(k, tower'.snap[k])
    BY <1>5, <1>8, <2>2
  <2>7. RightlyDone(j, tower'.next)
    <3>1. c = "xbt" => j \in {"xbt_refund", "xbt_waiting"}
      BY <1>3 DEF c, ChainOf, JobIds
    <3>2. j = "xbt_waiting" => Confirmed("xbt")
      BY <1>3 DEF IInv, XbtInv, Confirmed
    <3>3. c = "xbt" /\ ~Confirmed(c) => j = "xbt_refund" /\ tower'.next.blind
      BY <2>1, <2>2, <3>1, <3>2
    <3>4. c = ChainOf(j)
      BY DEF c
    <3> QED
      BY <2>3, <3>3, <3>4 DEF RightlyDone
  <2>8. tower'.left # {} /\ RightlyDone(Job', tower'.next)
    BY <1>1, <2>2, <2>4, <2>7
  <2>9. jobs'["xbt_waiting"].stored \/ "xbt_waiting" \in tower'.left => fund["xbt"] = "deep"
    BY <1>8, <2>2 DEF IInv, XbtInv
  <2> QED
    BY <1>1, <1>6, <2>2, <2>5, <2>6, <2>8, <2>9, PassStep
<1>9. ASSUME jobs' = IF adopt THEN [jobs EXCEPT ![j] = [s EXCEPT !.sent = TRUE]] ELSE jobs,
             tower' = IF Due(j, resend) THEN [snap EXCEPT !.pc = "send"]
                      ELSE [snap EXCEPT !.left = @ \ {Job}]
      PROVE  IInv'
  <2> DEFINE v == [s EXCEPT !.sent = s.sent \/ adopt]
  <2>0. adopt \in BOOLEAN
    BY DEF adopt
  <2>1. /\ v \in WatchJob /\ v.done = s.done /\ v.blind = s.blind /\ v.stored = s.stored
        /\ [s EXCEPT !.sent = TRUE] \in WatchJob
        /\ [s EXCEPT !.sent = TRUE].done = s.done
        /\ [s EXCEPT !.sent = TRUE].blind = s.blind
    BY <1>4, <2>0 DEF WatchJob
  <2>2. snap = [tower EXCEPT !.snap = [tower.snap EXCEPT ![j] = v]]
    BY <1>2, <1>3 DEF s, TowerState
  <2>3. [tower.snap EXCEPT ![j] = v] \in [JobIds -> WatchJob]
    BY <1>2, <1>3, <2>1 DEF TowerState
  <2> HIDE DEF v, snap
  <2>4. snap \in TowerState /\ snap.left = tower.left
        /\ snap.snap = [tower.snap EXCEPT ![j] = v] /\ snap.pc = "jobs"
    BY <1>1, <1>2, <2>2, <2>3 DEF TowerState
  <2>5. \A k \in JobIds : /\ snap.snap[k].done = tower.snap[k].done
                          /\ snap.snap[k].blind = tower.snap[k].blind
    BY <1>2, <1>3, <2>1, <2>4 DEF TowerState, s
  <2>6. jobs' \in [JobIds -> WatchJob]
        /\ \A k \in JobIds : \/ jobs'[k] = jobs[k]
                              \/ /\ k = j /\ jobs'[k].done = tower.snap[k].done
                                 /\ jobs'[k].blind = tower.snap[k].blind
    BY <1>2, <1>3, <1>9, <2>1 DEF s
  <2>61. \A k \in JobIds : RightlyDone(k, jobs'[k]) /\ RightlyDone(k, snap.snap[k])
    BY <1>5, <2>5, <2>6 DEF RightlyDone
  <2>62. jobs'["xbt_waiting"].stored \/ "xbt_waiting" \in tower.left => fund["xbt"] = "deep"
    BY <1>3, <2>6 DEF IInv, XbtInv, JobIds
  <2>7. CASE Due(j, resend)
    <3>1. tower' = [snap EXCEPT !.pc = "send"]
      BY <1>9, <2>7
    <3>2. tower' \in TowerState /\ tower'.pc = "send" /\ tower'.snap = snap.snap
          /\ tower'.left = tower.left
      BY <2>4, <3>1 DEF TowerState
    <3>3. \A k \in JobIds : RightlyDone(k, jobs'[k]) /\ RightlyDone(k, tower'.snap[k])
      BY <2>61, <3>2
    <3>4. tower'.left # {} /\ tower'.pc # "store"
      BY <1>1, <3>2
    <3>5. jobs'["xbt_waiting"].stored \/ "xbt_waiting" \in tower'.left => fund["xbt"] = "deep"
      BY <2>62, <3>2
    <3> QED
      BY <1>1, <1>6, <2>6, <3>2, <3>3, <3>4, <3>5, PassStep
  <2>8. CASE ~Due(j, resend)
    <3>1. tower' = [snap EXCEPT !.left = snap.left \ {Job}]
      BY <1>9, <2>8
    <3>2. /\ tower' \in TowerState /\ tower'.pc = "jobs" /\ tower'.snap = snap.snap
          /\ tower'.left \subseteq tower.left
      BY <2>4, <3>1 DEF TowerState
    <3>3. \A k \in JobIds : RightlyDone(k, jobs'[k]) /\ RightlyDone(k, tower'.snap[k])
      BY <2>61, <3>2
    <3>4. tower'.pc \notin {"send", "store"} /\ tower'.pc # "store"
      BY <3>2
    <3>5. jobs'["xbt_waiting"].stored \/ "xbt_waiting" \in tower'.left => fund["xbt"] = "deep"
      BY <2>62, <3>2
    <3> QED
      BY <1>1, <1>6, <2>6, <3>2, <3>3, <3>4, <3>5, PassStep
  <2> QED
    BY <2>7, <2>8
<1>10. ASSUME tower' = NextJob, UNCHANGED jobs
       PROVE  IInv'
  <2>1. jobs'["xbt_waiting"].stored => fund["xbt"] = "deep"
    BY <1>10 DEF IInv, XbtInv
  <2> QED
    BY <1>1, <1>2, <1>5, <1>10, <2>1, NextJobInv
<1> QED
  BY <1>7, <1>8, <1>9, <1>10

\* The broadcast of the picked variant.
LEMMA JobSendInv ==
    ASSUME IInv, JobSend
    PROVE  IInv'
<1> DEFINE j == Job
           c == ChainOf(j)
           s == tower.snap[j]
<1>1. /\ tower.pc = "send"
      /\ UNCHANGED <<now, fund, rate, jobs, recorded, lost, revealed, honest, budget>>
  BY DEF JobSend, phoneVars
<1>2. /\ tower \in TowerState /\ jobs \in [JobIds -> WatchJob]
      /\ tower.left \in SUBSET JobIds /\ tower.left # {}
  BY <1>1 DEF IInv, Shape, TypeOK, TowerState
<1>3. j \in JobIds
  BY <1>2, JobAtHand DEF Job
<1>4. c \in Chains /\ s \in WatchJob /\ SpendOf(j) \in {"redeem", "refund"}
  BY <1>2, <1>3, JobChain DEF TowerState, SpendOf
<1>5. PICK fee \in {pick_variant(rate), pick_variant(UnknownRate)} :
          \/ /\ Takes(c, SpendOf(j), fee)
             /\ spend' = Spent(c, SpendOf(j), fee)
             /\ tower' = IF s.sent THEN NextJob
                         ELSE [tower EXCEPT !.pc = "store", !.next = [s EXCEPT !.sent = TRUE]]
          \/ spend' = spend /\ tower' = NextJob
  BY DEF JobSend
<1>6. fee \in Fees
  BY <1>5, PickedIsVariant
<1>7. \A k \in JobIds : RightlyDone(k, jobs[k]) /\ RightlyDone(k, tower.snap[k])
  BY DEF IInv, DoneInv, DoneMeansSpent
<1>8. jobs["xbt_waiting"].stored => fund["xbt"] = "deep"
  BY DEF IInv, XbtInv
<1> HIDE DEF j, c, s
<1>9. CASE spend' = spend /\ tower' = NextJob
  BY <1>1, <1>2, <1>7, <1>8, <1>9, NextJobInv
<1>10. CASE /\ Takes(c, SpendOf(j), fee)
            /\ spend' = Spent(c, SpendOf(j), fee)
            /\ tower' = IF s.sent THEN NextJob
                        ELSE [tower EXCEPT !.pc = "store", !.next = [s EXCEPT !.sent = TRUE]]
  <2> DEFINE v == [kind |-> SpendOf(j), fee |-> fee, mined |-> FALSE]
  <2>1. v \in SpendState /\ ~spend[c].mined /\ fund[c] # "absent"
    BY <1>4, <1>6, <1>10, TakenSpend
  <2>2. spend' = [spend EXCEPT ![c] = v]
    BY <1>10 DEF Spent
  <2>3. spend \in [Chains -> SpendState] /\ spend' \in [Chains -> SpendState]
    BY <1>4, <2>1, <2>2 DEF IInv, Shape, TypeOK
  <2>4. \A d \in Chains : spend[d].mined => spend'[d].mined
    BY <1>4, <2>1, <2>2, <2>3
  <2>5. [s EXCEPT !.sent = TRUE] \in WatchJob /\ [s EXCEPT !.sent = TRUE].done = s.done
        /\ [s EXCEPT !.sent = TRUE].blind = s.blind /\ NoJob \in WatchJob
    BY <1>4 DEF WatchJob, NoJob
  <2>6. /\ tower' \in TowerState /\ tower'.snap = tower.snap /\ tower'.left \subseteq tower.left
        /\ \/ tower'.pc = "jobs"
           \/ /\ tower'.pc = "store" /\ tower'.left = tower.left
              /\ tower'.next = [s EXCEPT !.sent = TRUE]
    BY <1>2, <1>10, <2>5 DEF TowerState, NextJob
  <2>7. Shape'
    BY <1>1, <1>2, <2>3, <2>6 DEF IInv, Shape, TypeOK
  <2>8. DoneInv'
    <3>1. \A k \in JobIds : RightlyDone(k, jobs[k])' /\ RightlyDone(k, tower.snap[k])'
      BY <1>1, <1>7, <2>4, <2>6, JobChain DEF RightlyDone
    <3>2. tower'.pc = "store" => RightlyDone(Job, tower.next)'
      <4> SUFFICES ASSUME tower'.pc = "store" PROVE RightlyDone(Job, tower.next)'
        OBVIOUS
      <4>1. Job' = j /\ tower'.next.done = s.done /\ tower'.next.blind = s.blind
        BY <2>5, <2>6 DEF Job, j
      <4>2. RightlyDone(j, s) /\ ChainOf(j) = c
        BY <1>3, <1>7 DEF s, c
      <4> QED
        BY <1>4, <2>4, <4>1, <4>2 DEF RightlyDone
    <3> QED
      BY <3>1, <3>2 DEF DoneInv, DoneMeansSpent
  <2>10. ~v.mined /\ v # NoSpend
    BY <1>4 DEF NoSpend
  <2> HIDE DEF v
  <2> QED
    BY <1>1, <1>4, <2>1, <2>2, <2>6, <2>7, <2>8, <2>10, SpendKeeps
<1> QED
  BY <1>5, <1>9, <1>10

\* put_watch of the pass's copy.
LEMMA JobStoreInv ==
    ASSUME IInv, JobStore
    PROVE  IInv'
<1>1. /\ tower.pc = "store" /\ jobs' = [jobs EXCEPT ![Job] = tower.next] /\ tower' = NextJob
      /\ UNCHANGED <<now, fund, spend, rate, recorded, lost, revealed, honest, budget>>
  BY DEF JobStore, chainVars, phoneVars
<1>2. /\ tower \in TowerState /\ jobs \in [JobIds -> WatchJob] /\ tower.next \in WatchJob
      /\ tower.left \in SUBSET JobIds /\ tower.left # {}
  BY <1>1 DEF IInv, Shape, TypeOK, TowerState
<1>3. Job \in JobIds
  BY <1>2, JobAtHand DEF Job
<1>4. jobs' \in [JobIds -> WatchJob]
  BY <1>1, <1>2, <1>3
<1>5. \A k \in JobIds : RightlyDone(k, jobs'[k])
  BY <1>1, <1>2, <1>3 DEF IInv, DoneInv, DoneMeansSpent
<1>6. jobs'["xbt_waiting"].stored => fund["xbt"] = "deep"
  <2>1. CASE Job = "xbt_waiting"
    BY <1>2, <2>1, JobAtHand DEF IInv, XbtInv, Job
  <2>2. CASE Job # "xbt_waiting"
    BY <1>1, <1>2, <2>2 DEF IInv, XbtInv, JobIds
  <2> QED
    BY <2>1, <2>2
<1> QED
  BY <1>1, <1>4, <1>5, <1>6, NextJobInv

\* The pass ends.
LEMMA TowerEndInv ==
    ASSUME IInv, TowerEnd
    PROVE  IInv'
<1>1. (tower.fresh \/ tower.at = now) \in BOOLEAN
  BY DEF IInv, Shape, TypeOK, TowerState
<1>2. /\ tower' = [IdleTower EXCEPT !.fresh = tower.fresh \/ tower.at = now]
      /\ UNCHANGED <<now, fund, spend, rate, jobs, recorded, lost, revealed, honest, budget>>
  BY DEF TowerEnd, chainVars, phoneVars
<1>3. budget' \in [rates : 0..MaxRates, evictions : 0..MaxEvictions, faults : 0..MaxFaults]
  BY <1>2 DEF IInv, Shape, TypeOK
<1> QED
  BY <1>1, <1>2, <1>3, TowerIdleInv

\* A fault is counted.
LEMMA FaultCounted ==
    ASSUME IInv, Fault
    PROVE  budget' \in [rates : 0..MaxRates, evictions : 0..MaxEvictions, faults : 0..MaxFaults]
<1>1. budget \in [rates : 0..MaxRates, evictions : 0..MaxEvictions, faults : 0..MaxFaults]
  BY DEF IInv, Shape, TypeOK
<1>2. budget.faults + 1 \in 0..MaxFaults
  BY <1>1, WatchtowerConstants DEF Fault
<1> QED
  BY <1>1, <1>2 DEF Fault

\* The edge stops and starts again.
LEMMA CrashInv ==
    ASSUME IInv, Crash
    PROVE  IInv'
<1>1. tower.fresh \in BOOLEAN
  BY DEF IInv, Shape, TypeOK, TowerState
<1>2. /\ tower' = [IdleTower EXCEPT !.fresh = tower.fresh] /\ Fault
      /\ UNCHANGED <<now, fund, spend, rate, jobs, recorded, lost, revealed, honest>>
  BY DEF Crash, chainVars, phoneVars
<1> QED
  BY <1>1, <1>2, FaultCounted, TowerIdleInv

-----------------------------------------------------------------------------
(* The phones' steps                                                       *)

\* A funding is broadcast; the participant's only against a buried XBT HTLC.
LEMMA FundInv ==
    ASSUME IInv, NEW r \in Roles, Fund(r)
    PROVE  IInv'
<1> DEFINE c == IF r = "initiator" THEN "xbt" ELSE "btc"
<1>1. /\ fund[c] = "absent" /\ fund' = [fund EXCEPT ![c] = "mempool"]
      /\ r = "participant" => fund["xbt"] = "deep"
      /\ UNCHANGED <<now, spend, rate, jobs, recorded, lost, revealed, honest, tower, budget>>
  BY DEF Fund, phoneVars
<1>2. c \in Chains /\ (c = "btc" => fund["xbt"] = "deep")
  BY <1>1 DEF Roles, Chains
<1>3. \A d \in Chains : fund'[d] = IF d = c THEN "mempool" ELSE fund[d]
  BY <1>1, <1>2 DEF IInv, Shape, TypeOK
<1>4. "xbt" \in Chains /\ "btc" \in Chains
  BY DEF Chains
<1>5. Shape'
  BY <1>1, <1>2 DEF IInv, Shape, TypeOK
<1>6. DoneInv'
  BY <1>1, DoneKept
<1>7. SpendsKnown'
  BY <1>1, <1>2, <1>3 DEF IInv, SpendsKnown, Confirmed, NoSpend
<1>8. fund["xbt"] = "deep" => fund'["xbt"] = "deep"
  BY <1>1, <1>3, <1>4
<1>9. XbtInv'
  BY <1>1, <1>2, <1>3, <1>4, <1>8 DEF IInv, XbtInv
<1> QED
  BY <1>5, <1>6, <1>7, <1>9 DEF IInv

\* A spend is handed to the watchtower.
LEMMA PostJobInv ==
    ASSUME IInv, NEW j \in JobIds, PostJob(j)
    PROVE  IInv'
<1>1. /\ jobs' = [jobs EXCEPT ![j] = NewJob] /\ recorded' \in BOOLEAN
      /\ UNCHANGED <<now, fund, spend, rate, lost, revealed, honest, tower, budget>>
  BY DEF PostJob, chainVars, IInv, Shape, TypeOK
<1>2. NewJob \in WatchJob /\ ~NewJob.done
  BY DEF NewJob, NoJob, WatchJob
<1>3. /\ jobs' \in [JobIds -> WatchJob]
      /\ \A k \in JobIds : jobs'[k] = jobs[k] \/ (k = j /\ ~jobs'[k].done)
  BY <1>1, <1>2 DEF IInv, Shape, TypeOK
<1>4. RestOK'
  BY <1>1 DEF IInv, Shape, TypeOK, RestOK
<1>5. tower' = tower /\ Job' = Job /\ tower \in TowerState
  BY <1>1 DEF Job, IInv, Shape, TypeOK
<1>6. \A k \in JobIds : RightlyDone(k, jobs'[k]) /\ RightlyDone(k, tower'.snap[k])
  BY <1>3, <1>5 DEF IInv, DoneInv, DoneMeansSpent, RightlyDone
<1>7. j = "xbt_waiting" => fund["xbt"] = "deep"
  BY DEF PostJob, IInv, XbtInv
<1>8. /\ tower'.pc \in {"send", "store"} => tower'.left # {}
      /\ tower'.pc = "store" => RightlyDone(Job', tower'.next)
      /\ jobs'["xbt_waiting"].stored \/ "xbt_waiting" \in tower'.left => fund["xbt"] = "deep"
  BY <1>3, <1>5, <1>7 DEF IInv, Shape, DoneInv, XbtInv, JobIds
<1> QED
  BY <1>1, <1>3, <1>4, <1>5, <1>6, <1>8, PassStep

\* The participant's funded message; a phone is lost; the rate moves.
LEMMA AsideInv ==
    ASSUME IInv, PostFunded \/ (\E r \in Roles : PhoneLost(r)) \/ RateMoves
    PROVE  IInv'
<1>1. CASE PostFunded
  <2>1. RestOK' /\ UNCHANGED <<now, fund, spend, jobs, tower>>
    BY <1>1 DEF PostFunded, chainVars, IInv, Shape, TypeOK, RestOK
  <2> QED
    BY <2>1, NothingKeeps
<1>2. CASE \E r \in Roles : PhoneLost(r)
  <2>1. PICK r \in Roles : PhoneLost(r)
    BY <1>2
  <2>2. /\ Fault /\ lost' = [lost EXCEPT ![r] = TRUE]
        /\ UNCHANGED <<now, fund, spend, jobs, tower, rate, recorded, revealed, honest>>
    BY <2>1 DEF PhoneLost, chainVars
  <2>3. RestOK'
    BY <2>2, FaultCounted DEF IInv, Shape, TypeOK, RestOK
  <2> QED
    BY <2>2, <2>3, NothingKeeps
<1>3. CASE RateMoves
  <2>1. /\ budget.rates < MaxRates /\ budget' = [budget EXCEPT !.rates = @ + 1]
        /\ rate' \in Fees
        /\ UNCHANGED <<now, fund, spend, jobs, tower, recorded, lost, revealed, honest>>
    BY <1>3 DEF RateMoves, chainVars, phoneVars
  <2>2. budget \in [rates : 0..MaxRates, evictions : 0..MaxEvictions, faults : 0..MaxFaults]
    BY DEF IInv, Shape, TypeOK
  <2>3. budget.rates + 1 \in 0..MaxRates
    BY <2>1, <2>2, WatchtowerConstants
  <2>4. RestOK'
    BY <2>1, <2>2, <2>3 DEF IInv, Shape, TypeOK, RestOK
  <2> QED
    BY <2>1, <2>4, NothingKeeps
<1> QED
  BY <1>1, <1>2, <1>3

\* The preimage goes public.
LEMMA PhoneRedeemInv ==
    ASSUME IInv, NEW fee \in Fees, PhoneRedeem(fee)
    PROVE  IInv'
<1> DEFINE v == [kind |-> "redeem", fee |-> fee, mined |-> FALSE]
<1>1. /\ fund["btc"] = "deep" /\ spend["btc"] = NoSpend
      /\ spend' = [spend EXCEPT !["btc"] = v] /\ revealed' = TRUE
      /\ UNCHANGED <<now, fund, rate, jobs, recorded, lost, honest, tower, budget>>
  BY DEF PhoneRedeem, TxOut, Spent
<1>2. RestOK'
  BY <1>1 DEF IInv, Shape, TypeOK, RestOK
<1>3. v \in SpendState /\ ~v.mined /\ "btc" \in Chains /\ ~NoSpend.mined
  BY DEF SpendState, Chains, NoSpend
<1> HIDE DEF v
<1> QED
  BY <1>1, <1>2, <1>3, SpendAlone

\* A phone's own spend, its node willing.
LEMMA PhoneSpendInv ==
    ASSUME IInv, NEW c \in Chains, NEW kind \in {"redeem", "refund"},
           NEW fee \in Fees, PhoneSpend(c, kind, fee)
    PROVE  IInv'
<1> DEFINE v == [kind |-> kind, fee |-> fee, mined |-> FALSE]
<1>1. /\ Takes(c, kind, fee) /\ spend' = [spend EXCEPT ![c] = v]
      /\ UNCHANGED <<now, fund, rate, jobs, recorded, lost, revealed, honest, tower, budget>>
  BY DEF PhoneSpend, Spent, phoneVars
<1>2. v \in SpendState /\ ~spend[c].mined /\ fund[c] # "absent"
  BY <1>1, TakenSpend
<1>3. RestOK'
  BY <1>1, RestKept
<1>4. ~v.mined
  OBVIOUS
<1> HIDE DEF v
<1> QED
  BY <1>1, <1>2, <1>3, <1>4, SpendAlone

-----------------------------------------------------------------------------
(* The chains' steps and the clock                                         *)

\* A funding is mined, or buried.
LEMMA MineFundInv ==
    ASSUME IInv, NEW c \in Chains, MineFund(c)
    PROVE  IInv'
<1> DEFINE v == IF fund[c] = "mempool" THEN "mined" ELSE "deep"
<1>1. /\ fund[c] \in {"mempool", "mined"} /\ fund' = [fund EXCEPT ![c] = v]
      /\ UNCHANGED <<now, spend, rate, jobs, recorded, lost, revealed, honest, tower, budget>>
  BY DEF MineFund, phoneVars
<1>2. \A d \in Chains : fund'[d] = IF d = c THEN v ELSE fund[d]
  BY <1>1 DEF IInv, Shape, TypeOK
<1>3. "xbt" \in Chains /\ "btc" \in Chains
  BY DEF Chains
<1>4. Shape'
  BY <1>1 DEF IInv, Shape, TypeOK
<1>5. DoneInv'
  BY <1>1, DoneKept
<1>6. \A d \in Chains : /\ Confirmed(d) => Confirmed(d)'
                        /\ fund[d] = "absent" <=> fund'[d] = "absent"
                        /\ fund[d] = "deep" => fund'[d] = "deep"
  BY <1>1, <1>2 DEF Confirmed
<1>7. SpendsKnown'
  BY <1>1, <1>6 DEF IInv, SpendsKnown
<1>8. XbtInv'
  BY <1>1, <1>3, <1>6 DEF IInv, XbtInv
<1> QED
  BY <1>4, <1>5, <1>7, <1>8 DEF IInv

\* A spend that pays the rate is mined.
LEMMA MineSpendInv ==
    ASSUME IInv, NEW c \in Chains, MineSpend(c)
    PROVE  IInv'
<1> DEFINE v == [spend[c] EXCEPT !.mined = TRUE]
<1>1. /\ Confirmed(c) /\ spend[c] # NoSpend /\ spend' = [spend EXCEPT ![c] = v]
      /\ UNCHANGED <<now, fund, rate, jobs, recorded, lost, revealed, honest, tower, budget>>
  BY DEF MineSpend, Minable, phoneVars, IInv, Shape, TypeOK
<1>2. v \in SpendState /\ v.mined
  BY DEF IInv, Shape, TypeOK, SpendState
<1>3. RestOK'
  BY <1>1, RestKept
<1>4. fund[c] # "absent"
  BY <1>1 DEF Confirmed
<1> HIDE DEF v
<1> QED
  BY <1>1, <1>2, <1>3, <1>4, SpendAlone

\* An eviction is counted.
LEMMA EvictionCounted ==
    ASSUME IInv, Evicts
    PROVE  budget' \in [rates : 0..MaxRates, evictions : 0..MaxEvictions, faults : 0..MaxFaults]
<1>1. budget \in [rates : 0..MaxRates, evictions : 0..MaxEvictions, faults : 0..MaxFaults]
  BY DEF IInv, Shape, TypeOK
<1>2. budget.evictions + 1 \in 0..MaxEvictions
  BY <1>1, WatchtowerConstants DEF Evicts
<1> QED
  BY <1>1, <1>2 DEF Evicts

\* An unmined spend falls out of the mempool.
LEMMA EvictSpendInv ==
    ASSUME IInv, NEW c \in Chains, EvictSpend(c)
    PROVE  IInv'
<1>1. /\ Evicts /\ ~spend[c].mined /\ spend' = [spend EXCEPT ![c] = NoSpend]
      /\ UNCHANGED <<now, fund, rate, jobs, recorded, lost, revealed, honest, tower>>
  BY DEF EvictSpend, phoneVars
<1>2. NoSpend \in SpendState /\ ~NoSpend.mined
  BY DEF NoSpend, SpendState
<1>3. RestOK'
  BY <1>1, EvictionCounted DEF IInv, Shape, TypeOK, RestOK
<1> QED
  BY <1>1, <1>2, <1>3, SpendAlone

\* So does a funding, with what spends it.
LEMMA EvictFundInv ==
    ASSUME IInv, NEW c \in Chains, EvictFund(c)
    PROVE  IInv'
<1>1. /\ Evicts /\ fund[c] = "mempool"
      /\ fund' = [fund EXCEPT ![c] = "absent"] /\ spend' = [spend EXCEPT ![c] = NoSpend]
      /\ UNCHANGED <<now, rate, jobs, recorded, lost, revealed, honest, tower>>
  BY DEF EvictFund, phoneVars
<1>2. \A d \in Chains : /\ fund'[d] = IF d = c THEN "absent" ELSE fund[d]
                        /\ spend'[d] = IF d = c THEN NoSpend ELSE spend[d]
  BY <1>1 DEF IInv, Shape, TypeOK
<1>3. "xbt" \in Chains /\ "btc" \in Chains /\ NoSpend \in SpendState /\ ~NoSpend.mined
  BY DEF Chains, NoSpend, SpendState
<1>4. Shape'
  BY <1>1, <1>3, EvictionCounted DEF IInv, Shape, TypeOK
<1>5. ~spend[c].mined
  BY <1>1 DEF IInv, SpendsKnown, Confirmed
<1>6. \A d \in Chains : spend[d].mined => spend'[d].mined
  BY <1>2, <1>5
<1>7. DoneInv'
  BY <1>1, <1>6, DoneKept
<1>8. SpendsKnown'
  BY <1>2, <1>3 DEF IInv, SpendsKnown, Confirmed
<1>9. XbtInv'
  <2>1. fund["xbt"] = "deep" => fund'["xbt"] = "deep"
    BY <1>1, <1>2, <1>3
  <2>2. fund'["btc"] # "absent" => fund["btc"] # "absent"
    BY <1>2, <1>3
  <2> QED
    BY <1>1, <2>1, <2>2 DEF IInv, XbtInv
<1> QED
  BY <1>4, <1>7, <1>8, <1>9 DEF IInv

\* Time passes.
LEMMA TickInv ==
    ASSUME IInv, Tick
    PROVE  IInv'
<1>1. /\ now < MaxTime /\ now' = now + 1 /\ tower' = IdleTower
      /\ UNCHANGED <<fund, spend, rate, jobs, recorded, lost, revealed, honest, budget>>
  BY DEF Tick, chainVars, phoneVars
<1>2. /\ tower' \in TowerState /\ tower'.pc = "idle" /\ tower'.left = {}
      /\ tower'.snap = [j \in JobIds |-> NoJob]
  BY <1>1, WatchtowerConstants DEF IdleTower, TowerState, WatchJob, NoJob, Times
<1>3. now' \in Times
  BY <1>1, WatchtowerConstants DEF IInv, Shape, TypeOK, Times
<1>4. Shape'
  BY <1>1, <1>2, <1>3 DEF IInv, Shape, TypeOK
<1>5. DoneInv'
  BY <1>1, <1>2 DEF IInv, DoneInv, DoneMeansSpent, RightlyDone, NoJob
<1>6. SpendsKnown' /\ XbtInv'
  BY <1>1, <1>2 DEF IInv, SpendsKnown, XbtInv, Confirmed
<1> QED
  BY <1>4, <1>5, <1>6 DEF IInv

-----------------------------------------------------------------------------
(* Theorems                                                                *)

\* Every step keeps the inductive invariant.
LEMMA StepInv ==
    ASSUME IInv, [Next]_vars
    PROVE  IInv'
<1>1. CASE TowerNext
  BY <1>1, TowerStartInv, JobLookInv, JobSendInv, JobStoreInv, TowerEndInv DEF TowerNext
<1>2. CASE Crash
  BY <1>2, CrashInv
<1>3. CASE Phones
  BY <1>3, FundInv, AsideInv, PostJobInv, PhoneRedeemInv, PhoneSpendInv DEF Phones
<1>4. CASE World
  BY <1>4, MineFundInv, MineSpendInv, EvictSpendInv, EvictFundInv, AsideInv, TickInv DEF World
<1>5. CASE UNCHANGED vars
  <2>1. UNCHANGED <<now, fund, spend, jobs, tower>> /\ RestOK'
    BY <1>5 DEF vars, IInv, Shape, TypeOK, RestOK
  <2> QED
    BY <2>1, NothingKeeps
<1> QED
  BY <1>1, <1>2, <1>3, <1>4, <1>5 DEF Next, Step

\* Invariance: the inductive invariant holds in every reachable state.
THEOREM Invariance == Spec => []IInv
<1>1. Init => IInv
  BY InitInv
<1>2. IInv /\ [Next]_vars => IInv'
  BY StepInv
<1> QED
  BY <1>1, <1>2, PTL DEF Spec

\* DoneMeansSpent for every instance: whatever the phones, the fee market, evictions of spends
\* and fundings, stops of the edge and stale copies of a job do, run_job gives a job up only
\* when a spend of its HTLC is mined, or blindly and then only the initiator's refund.
THEOREM NoJobGivenUp == Spec => []DoneMeansSpent
<1>1. IInv => DoneMeansSpent
  BY DEF IInv, DoneInv
<1> QED
  BY <1>1, Invariance, PTL

-----------------------------------------------------------------------------
(* Nobody loses both legs                                                  *)

\* There is time enough: fewer rate changes and evictions than units of time before the
\* BTC locktime from the last redeem on, and between the two locktimes with one to spare
\* on either side; BTC is funded before its locktime, and its funding gets mined.
EnoughTime ==
    /\ RedeemMargin > MaxRates + MaxEvictions
    /\ XbtLock >= BtcLock + MaxRates + MaxEvictions + 2
    /\ FundLatest < BtcLock
    /\ "btc" \notin EvictableFunding

\* How often the fee market or a mempool got in the way.
Upsets == budget.rates + budget.evictions

Dearest(f) == \A g \in Fees : g <= f

\* A pass is of one instant, and its copies of the jobs it has not come to are the stored ones.
PassInv ==
    /\ tower.pc # "idle" => tower.at = now
    /\ \A j \in tower.left : jobs[j].stored /\ tower.snap[j] = jobs[j]
    /\ tower.pc = "store" => tower.next.stored /\ (jobs[Job].sent => tower.next.sent)
    /\ \A j \in JobIds : jobs[j].sent => jobs[j].stored

\* What is on the chains: refunds past their locktimes only, redeems once the preimage is public.
LegsInv ==
    /\ \A c \in Chains : spend[c] # NoSpend => spend[c].kind \in {"redeem", "refund"}
    /\ \A c \in Chains : spend[c].kind = "refund" => now >= Lock(c)
    /\ \A c \in Chains : spend[c].kind = "redeem" => revealed
    /\ jobs["btc_redeem"].stored => revealed
    /\ tower.pc = "send" /\ Job = "xbt_waiting" => revealed
    /\ revealed => fund["btc"] = "deep"
    /\ now > FundLatest /\ fund["btc"] # "absent" => Confirmed("btc")

\* A spend of the job's kind that waits to be mined pays the dearest rate, or the job knows it
\* for its own.
Knows(j) ==
    spend[ChainOf(j)].kind = SpendOf(j) /\ ~spend[ChainOf(j)].mined =>
        \/ Dearest(spend[ChainOf(j)].fee)
        \/ jobs[j].sent
        \/ tower.pc = "store" /\ Job = j /\ tower.next.sent

SentInv == Knows("btc_refund") /\ Knows("xbt_waiting")

\* The pass of this instant will look at the job.
Ahead(j) == tower.pc # "idle" => j \in tower.left /\ ~(tower.pc = "store" /\ Job = j)

\* An initiator that keeps the margin: from the preimage on, each unit of time without an
\* upset mines the redeem.
Committed == honest /\ revealed /\ (lost["initiator"] => jobs["btc_redeem"].stored)

RedeemComing == jobs["btc_redeem"].stored /\ ~tower.fresh /\ Ahead("btc_redeem")

RedeemDue ==
    /\ ~spend["btc"].mined
    /\ now <= BtcLock - RedeemMargin + Upsets
    /\ now = BtcLock - RedeemMargin + Upsets => Minable("btc") \/ RedeemComing

InitiatorInv == Committed => RedeemDue \/ (spend["btc"].mined /\ spend["btc"].kind = "redeem")

\* A participant that handed over: from the BTC locktime on, each unit of time without an
\* upset settles the BTC leg or shows the preimage, and the next one mines the XBT redeem.
Handed == fund["btc"] # "absent" /\ jobs["btc_refund"].stored /\ jobs["xbt_waiting"].stored /\ recorded

Resolved == \/ spend["btc"].mined /\ spend["btc"].kind = "refund"
            \/ spend["xbt"].mined /\ spend["xbt"].kind = "redeem"

\* The pass will send the refund, or left it for a redeem that shows the preimage.
SettleComing ==
    /\ ~tower.fresh /\ Ahead("xbt_waiting")
    /\ \/ Ahead("btc_refund")
       \/ PreimageSeen /\ ~jobs["btc_refund"].sent /\ ~(tower.pc = "store" /\ Job = "btc_refund")

SettleDue ==
    /\ ~spend["btc"].mined
    /\ now <= BtcLock + Upsets
    /\ now = BtcLock + Upsets => Minable("btc") \/ Minable("xbt") \/ SettleComing

ClaimDue ==
    /\ spend["btc"].mined
    /\ now <= BtcLock + 1 + Upsets
    /\ now = BtcLock + 1 + Upsets => Minable("xbt") \/ (~tower.fresh /\ Ahead("xbt_waiting"))

ParticipantInv ==
    /\ now > FundLatest /\ fund["btc"] # "absent" => Handed \/ lost["participant"]
    /\ Handed => Resolved \/ SettleDue \/ ClaimDue

WholeInv == PassInv /\ LegsInv /\ SentInv /\ InitiatorInv /\ ParticipantInv

\* What the steps below need of the types.
LEMMA WholeTypes ==
    ASSUME IInv, EnoughTime
    PROVE  /\ now \in Nat /\ rate \in Fees /\ Fees \in SUBSET Nat /\ BtcLock \in Nat /\ XbtLock \in Nat
           /\ FundLatest \in Nat /\ RedeemMargin \in Nat
           /\ jobs \in [JobIds -> WatchJob] /\ spend \in [Chains -> SpendState] /\ tower \in TowerState
           /\ tower.left \in SUBSET JobIds /\ "btc" \in Chains /\ "xbt" \in Chains
           /\ Upsets \in Nat /\ BtcLock - RedeemMargin + Upsets < BtcLock /\ BtcLock + 1 + Upsets < XbtLock
<1>1. now \in Nat /\ rate \in Fees
  BY DEF IInv, Shape, TypeOK, Times
<1>2. budget \in [rates : 0..MaxRates, evictions : 0..MaxEvictions, faults : 0..MaxFaults]
  BY DEF IInv, Shape, TypeOK
<1>3. budget.rates \in 0..MaxRates /\ budget.evictions \in 0..MaxEvictions
  BY <1>2
<1>4. Upsets \in Nat /\ Upsets <= MaxRates + MaxEvictions
  BY <1>3, WatchtowerConstants DEF Upsets
<1>5. BtcLock - RedeemMargin + Upsets < BtcLock /\ BtcLock + 1 + Upsets < XbtLock
  BY <1>4, WatchtowerConstants DEF EnoughTime
<1>6. tower \in TowerState /\ jobs \in [JobIds -> WatchJob] /\ spend \in [Chains -> SpendState]
  BY DEF IInv, Shape, TypeOK
<1>7. tower.left \in SUBSET JobIds
  BY <1>6 DEF TowerState
<1> QED
  BY <1>1, <1>4, <1>5, <1>6, <1>7, WatchtowerConstants DEF Chains

\* Jobs are run in the order of their keys (run_jobs).
LEMMA FirstIs ==
    ASSUME NEW S \in SUBSET JobIds
    PROVE  /\ "btc_redeem" \in S => FirstOf(S) = "btc_redeem"
           /\ S # {} /\ FirstOf(S) = "xbt_waiting" => S = {"xbt_waiting"}
           /\ "btc_refund" \in S => FirstOf(S) \in {"btc_redeem", "btc_refund"}
<1>1. \A j \in JobIds : JobOrder[j] \in Nat
  BY DEF JobIds, JobOrder
<1>2. S # {} => FirstOf(S) \in S /\ \A k \in S : JobOrder[FirstOf(S)] <= JobOrder[k]
  <2> SUFFICES ASSUME S # {} PROVE \E j \in S : \A k \in S : JobOrder[j] <= JobOrder[k]
    BY DEF FirstOf
  <2>1. PICK x \in {JobOrder[j] : j \in S} : \A y \in {JobOrder[j] : j \in S} : x <= y
    <3>1. {JobOrder[j] : j \in S} \in SUBSET Nat /\ {JobOrder[j] : j \in S} # {}
      BY <1>1
    <3> QED
      BY <3>1, LeastNatural
  <2> QED
    BY <2>1
<1>3. PICK f : f = FirstOf(S)
  OBVIOUS
<1>4. /\ JobOrder["btc_redeem"] = 1 /\ JobOrder["btc_refund"] = 2
      /\ JobOrder["xbt_refund"] = 3 /\ JobOrder["xbt_waiting"] = 4
  BY DEF JobOrder
<1>5. f \in S => f \in {"btc_redeem", "btc_refund", "xbt_refund", "xbt_waiting"}
  BY DEF JobIds
<1>6. "btc_redeem" \in S => f = "btc_redeem"
  BY <1>2, <1>3, <1>4, <1>5
<1>7. "btc_refund" \in S => f \in {"btc_redeem", "btc_refund"}
  BY <1>2, <1>3, <1>4, <1>5
<1>8. S # {} /\ f = "xbt_waiting" => S = {"xbt_waiting"}
  <2> SUFFICES ASSUME S # {}, f = "xbt_waiting" PROVE S = {"xbt_waiting"}
    OBVIOUS
  <2>1. \A k \in S : 4 <= JobOrder[k]
    BY <1>2, <1>3, <1>4
  <2>2. \A k \in S : k = "xbt_waiting"
    BY <1>4, <2>1 DEF JobIds
  <2> QED
    BY <1>2, <1>3, <2>2
<1> QED
  BY <1>3, <1>6, <1>7, <1>8

\* The variant picked pays the going rate, the one picked for want of a rate the dearest
\* (pick_variant).
LEMMA PickedPays ==
    ASSUME NEW r \in Fees, NEW fee \in {pick_variant(r), pick_variant(UnknownRate)}
    PROVE  fee \in Fees /\ fee >= r
<1>1. Fees \in SUBSET Nat /\ Fees # {} /\ IsFiniteSet(Fees)
  BY WatchtowerConstants
<1>2. PICK m : m = CHOOSE f \in Fees : \A g \in Fees : g <= f
  OBVIOUS
<1>3. m \in Fees /\ \A g \in Fees : g <= m
  BY <1>1, <1>2, GreatestNatural
<1>4. CASE fee = pick_variant(r)
  <2> DEFINE meets == {f \in Fees : f >= r}
  <2>1. r \in meets /\ meets \in SUBSET Fees
    BY <1>1
  <2>2. (CHOOSE f \in meets : \A g \in meets : f <= g) \in meets
    BY <2>1, CheapestAndDearest
  <2> QED
    BY <1>4, <2>1, <2>2 DEF pick_variant
<1>5. CASE fee = pick_variant(UnknownRate)
  <2> DEFINE meets == {f \in Fees : f >= UnknownRate}
  <2>1. UnknownRate = 1 + m
    BY <1>2 DEF UnknownRate
  <2>2. meets = {}
    <3> SUFFICES ASSUME NEW f \in Fees, f >= UnknownRate PROVE FALSE
      OBVIOUS
    <3>1. f \in Nat /\ m \in Nat /\ f <= m
      BY <1>1, <1>3
    <3> QED
      BY <2>1, <3>1
  <2>3. fee = m
    BY <1>2, <1>5, <2>2 DEF pick_variant
  <2> QED
    BY <1>1, <1>3, <2>3
<1> QED
  BY <1>4, <1>5

-----------------------------------------------------------------------------
(* What the steps have in common                                           *)

\* A participant that has just handed over has time left.
LEMMA EarlyHanded ==
    ASSUME EnoughTime, now' \in Nat, Upsets' \in Nat, now' <= FundLatest
    PROVE  SettleDue' \/ ClaimDue'
<1>1. BtcLock \in Nat /\ FundLatest \in Nat /\ FundLatest < BtcLock
  BY WatchtowerConstants DEF EnoughTime
<1>2. PICK n \in Nat, k \in Nat : n = now' /\ k = Upsets' /\ n <= FundLatest
  OBVIOUS
<1>3. n < BtcLock
  BY <1>1, <1>2
<1>4. n < BtcLock + k
  BY <1>1, <1>3
<1>5. n <= BtcLock + k /\ n # BtcLock + k
  BY <1>1, <1>4
<1>6. n <= BtcLock + 1 + k /\ n # BtcLock + 1 + k
  BY <1>1, <1>4
<1>7. ~spend'["btc"].mined => SettleDue'
  BY <1>2, <1>5 DEF SettleDue
<1>8. spend'["btc"].mined => ClaimDue'
  BY <1>2, <1>6 DEF ClaimDue
<1> QED
  BY <1>7, <1>8

\* What can be mined stays so while neither it nor the rate changes.
LEMMA MinableKept ==
    ASSUME NEW c, UNCHANGED rate, spend'[c] = spend[c], Confirmed(c) => Confirmed(c)', Minable(c)
    PROVE  Minable(c)'
BY DEF Minable

\* The initiator's part of a step that leaves the BTC spend alone.
LEMMA InitiatorSame ==
    ASSUME InitiatorInv, UNCHANGED <<now, rate, honest, revealed>>, Upsets' = Upsets,
           spend'["btc"] = spend["btc"], Confirmed("btc") => Confirmed("btc")',
           Committed' => Committed,
           Committed /\ RedeemDue /\ RedeemComing => Minable("btc") \/ RedeemComing'
    PROVE  InitiatorInv'
<1>1. Minable("btc") => Minable("btc")'
  BY MinableKept
<1> QED
  BY <1>1 DEF InitiatorInv, RedeemDue

\* The participant's part of a step that leaves both spends alone.
LEMMA ParticipantSame ==
    ASSUME IInv, EnoughTime, ParticipantInv, UNCHANGED <<now, rate, spend>>, Upsets' = Upsets,
           Confirmed("btc") => Confirmed("btc")', Confirmed("xbt") => Confirmed("xbt")',
           now > FundLatest /\ fund'["btc"] # "absent" => Handed' \/ lost'["participant"],
           Handed' => Handed \/ now <= FundLatest,
           Handed /\ ~Resolved /\ SettleDue /\ now = BtcLock + Upsets /\ SettleComing
               => Minable("btc") \/ Minable("xbt") \/ SettleComing',
           Handed /\ ~Resolved /\ ClaimDue /\ now = BtcLock + 1 + Upsets /\ ~tower.fresh /\ Ahead("xbt_waiting")
               => Minable("xbt") \/ (~tower'.fresh /\ Ahead("xbt_waiting")')
    PROVE  ParticipantInv'
<1>1. (Minable("btc") => Minable("btc")') /\ (Minable("xbt") => Minable("xbt")')
  BY MinableKept
<1>2. Resolved => Resolved'
  BY DEF Resolved
<1>3. Handed /\ ~Resolved /\ SettleDue => SettleDue'
  BY <1>1 DEF SettleDue
<1>4. Handed /\ ~Resolved /\ ClaimDue => ClaimDue'
  BY <1>1 DEF ClaimDue
<1>5. now <= FundLatest => SettleDue' \/ ClaimDue'
  BY EarlyHanded, WholeTypes
<1> QED
  BY <1>2, <1>3, <1>4, <1>5 DEF ParticipantInv

\* An upset buys a unit of time; it unmines nothing.
LEMMA UpsetKeeps ==
    ASSUME IInv, EnoughTime, WholeInv, UNCHANGED <<now, jobs, recorded, lost, revealed, honest>>,
           fund'["btc"] = fund["btc"], Upsets' = Upsets + 1,
           \A c \in Chains : spend'[c] = spend[c] \/ (~spend[c].mined /\ ~spend'[c].mined)
    PROVE  InitiatorInv' /\ ParticipantInv'
<1>1. /\ now \in Nat /\ BtcLock \in Nat /\ RedeemMargin \in Nat /\ Upsets \in Nat
      /\ "btc" \in Chains /\ "xbt" \in Chains
  BY WholeTypes
<1>2. RedeemDue => RedeemDue'
  BY <1>1 DEF RedeemDue
<1>3. InitiatorInv'
  BY <1>1, <1>2 DEF WholeInv, InitiatorInv, Committed, RedeemDue
<1>4. (SettleDue => SettleDue') /\ (ClaimDue => ClaimDue') /\ (Resolved => Resolved')
  BY <1>1 DEF SettleDue, ClaimDue, Resolved
<1>5. ParticipantInv'
  BY <1>4 DEF WholeInv, ParticipantInv, Handed
<1> QED
  BY <1>3, <1>5

\* A step that is neither the pass's nor the chains': a phone is lost, or says it funded.
LEMMA AsideWhole ==
    ASSUME IInv, EnoughTime, WholeInv,
           UNCHANGED <<now, fund, spend, rate, jobs, tower, revealed, honest>>, Upsets' = Upsets,
           recorded => recorded', lost["initiator"] => lost'["initiator"],
           lost["participant"] => lost'["participant"],
           recorded' => recorded \/ ~lost["participant"]
    PROVE  WholeInv'
<1>1. PassInv' /\ LegsInv' /\ SentInv'
  BY DEF WholeInv, PassInv, LegsInv, SentInv, Knows, Job, Confirmed, Lock, Dearest
<1>2. Handed => Handed'
  BY DEF Handed
<1>3. Handed' => Handed \/ now <= FundLatest
  BY WholeTypes DEF Handed, WholeInv, ParticipantInv
<1>4. Ahead("btc_redeem")' = Ahead("btc_redeem") /\ Ahead("xbt_waiting")' = Ahead("xbt_waiting")
      /\ Ahead("btc_refund")' = Ahead("btc_refund")
  BY DEF Ahead, Job
<1>5. RedeemComing => RedeemComing'
  BY <1>4 DEF RedeemComing
<1>6. SettleComing => SettleComing'
  BY <1>4 DEF SettleComing, PreimageSeen, Job
<1>7. Committed' => Committed
  BY DEF Committed
<1>8. InitiatorInv'
  BY <1>5, <1>7, InitiatorSame DEF WholeInv, Confirmed
<1>9. now > FundLatest /\ fund'["btc"] # "absent" => Handed' \/ lost'["participant"]
  BY <1>2 DEF WholeInv, ParticipantInv
<1>10. ParticipantInv'
  BY <1>3, <1>4, <1>6, <1>9, ParticipantSame DEF WholeInv, Confirmed
<1> QED
  BY <1>1, <1>8, <1>10 DEF WholeInv

\* A step of the pass that leaves the chains alone.
LEMMA PassWhole ==
    ASSUME IInv, EnoughTime, WholeInv, PassInv', SentInv', Upsets' = Upsets,
           UNCHANGED <<now, fund, spend, rate, recorded, lost, revealed, honest>>,
           \A j \in JobIds : jobs'[j].stored = jobs[j].stored,
           tower'.pc = "send" /\ Job' = "xbt_waiting" => revealed,
           Committed /\ RedeemDue /\ RedeemComing
               => Minable("btc") \/ (~tower'.fresh /\ Ahead("btc_redeem")'),
           Handed /\ ~Resolved /\ SettleDue /\ now = BtcLock + Upsets /\ SettleComing
               => Minable("btc") \/ Minable("xbt") \/ SettleComing',
           Handed /\ ~Resolved /\ ClaimDue /\ now = BtcLock + 1 + Upsets /\ ~tower.fresh /\ Ahead("xbt_waiting")
               => Minable("xbt") \/ (~tower'.fresh /\ Ahead("xbt_waiting")')
    PROVE  WholeInv'
<1>1. "btc_redeem" \in JobIds /\ "btc_refund" \in JobIds /\ "xbt_waiting" \in JobIds
  BY DEF JobIds
<1>2. LegsInv'
  BY <1>1 DEF WholeInv, LegsInv, Confirmed, Lock
<1>5. Committed' => Committed
  BY <1>1 DEF Committed
<1>6. Committed /\ RedeemDue /\ RedeemComing => Minable("btc") \/ RedeemComing'
  BY <1>1 DEF RedeemComing
<1>7. InitiatorInv'
  BY <1>5, <1>6, InitiatorSame DEF WholeInv, Confirmed
<1>8. Handed' = Handed
  BY <1>1 DEF Handed
<1>9. now > FundLatest /\ fund'["btc"] # "absent" => Handed' \/ lost'["participant"]
  BY <1>8 DEF WholeInv, ParticipantInv
<1>10. ParticipantInv'
  BY <1>8, <1>9, ParticipantSame DEF WholeInv, Confirmed
<1> QED
  BY <1>2, <1>7, <1>10 DEF WholeInv

\* A step of the pass that keeps what it knows of the spends, which it leaves alone.
LEMMA KnowsKept ==
    ASSUME SentInv, UNCHANGED spend, \A j \in JobIds : jobs[j].sent => jobs'[j].sent,
           tower.pc = "store" /\ tower.next.sent => jobs'[Job].sent
    PROVE  SentInv'
<1>1. ASSUME NEW j \in JobIds, Knows(j) PROVE Knows(j)'
  BY <1>1 DEF Knows, Dearest
<1> QED
  BY <1>1 DEF SentInv, JobIds

\* While nobody has lost, the XBT leg cannot be refunded yet: a spend of it is the redeem.
LEMMA XbtRedeemed ==
    ASSUME IInv, EnoughTime, LegsInv, now <= BtcLock + 1 + Upsets, spend["xbt"] # NoSpend
    PROVE  spend["xbt"].kind = "redeem" /\ (spend["xbt"].mined => Resolved)
<1>1. ~(now >= XbtLock)
  BY WholeTypes
<1>2. "xbt" \in Chains /\ Lock("xbt") = XbtLock
  BY DEF Chains, Lock
<1> QED
  BY <1>1, <1>2 DEF LegsInv, Resolved

\* ... nor the BTC leg, while an initiator's redeem is due.
LEMMA BtcRedeemed ==
    ASSUME IInv, EnoughTime, LegsInv, RedeemDue, spend["btc"] # NoSpend
    PROVE  spend["btc"].kind = "redeem"
<1>1. ~(now >= BtcLock)
  BY WholeTypes DEF RedeemDue
<1>2. "btc" \in Chains /\ Lock("btc") = BtcLock
  BY DEF Chains, Lock
<1> QED
  BY <1>1, <1>2 DEF LegsInv

\* The bounds in the clock's words.
LEMMA SettleClock ==
    ASSUME IInv, EnoughTime, SettleDue
    PROVE  now <= BtcLock + 1 + Upsets
BY WholeTypes DEF SettleDue

\* A pass starts: jobs handed over and not done are ahead.
LEMMA TowerStartWhole ==
    ASSUME IInv, EnoughTime, WholeInv, TowerStart
    PROVE  WholeInv'
<1>1. /\ tower.pc = "idle"
      /\ tower' = [tower EXCEPT !.pc = "jobs", !.at = now, !.snap = jobs,
                      !.left = {j \in JobIds : jobs[j].stored /\ ~jobs[j].done}]
      /\ UNCHANGED <<now, fund, spend, rate, jobs, recorded, lost, revealed, honest, budget>>
  BY DEF TowerStart, chainVars, phoneVars
<1>2. /\ tower'.pc = "jobs" /\ tower'.at = now /\ tower'.snap = jobs /\ tower'.fresh = tower.fresh
      /\ tower'.left = {j \in JobIds : jobs[j].stored /\ ~jobs[j].done}
  BY <1>1, WholeTypes DEF TowerState
<1>3. PassInv'
  BY <1>1, <1>2 DEF WholeInv, PassInv
<1>4. Upsets' = Upsets
  BY <1>1 DEF Upsets
<1>5. ASSUME NEW j \in JobIds, jobs[j].stored, ~spend[ChainOf(j)].mined, j # "xbt_refund" PROVE Ahead(j)'
  <2>1. ~jobs[j].done
    BY <1>5 DEF IInv, DoneInv, DoneMeansSpent, RightlyDone
  <2> QED
    BY <1>2, <1>5, <2>1 DEF Ahead
<1>6. /\ "btc_redeem" \in JobIds /\ "btc_refund" \in JobIds /\ "xbt_waiting" \in JobIds
      /\ ChainOf("btc_redeem") = "btc" /\ ChainOf("btc_refund") = "btc" /\ ChainOf("xbt_waiting") = "xbt"
  BY DEF JobIds, ChainOf
<1>7. Committed /\ RedeemDue /\ RedeemComing => ~tower'.fresh /\ Ahead("btc_redeem")'
  BY <1>2, <1>5, <1>6 DEF RedeemComing, RedeemDue
<1>8. ~Resolved /\ now <= BtcLock + 1 + Upsets => ~spend["xbt"].mined
  BY XbtRedeemed DEF WholeInv, NoSpend
<1>9. Handed /\ ~Resolved /\ SettleDue /\ SettleComing => SettleComing'
  BY <1>2, <1>5, <1>6, <1>8, SettleClock DEF Handed, SettleComing, SettleDue
<1>10. Handed /\ ~Resolved /\ ClaimDue /\ ~tower.fresh => ~tower'.fresh /\ Ahead("xbt_waiting")'
  BY <1>2, <1>5, <1>6, <1>8 DEF Handed, ClaimDue
<1>11. SentInv'
  BY <1>1, KnowsKept DEF WholeInv
<1> QED
  BY <1>1, <1>2, <1>3, <1>4, <1>7, <1>9, <1>10, <1>11, PassWhole

\* A pass ends, or the edge stops in it: nothing was ahead, or all is again.
LEMMA TowerIdleWhole ==
    ASSUME IInv, EnoughTime, WholeInv, NEW b, tower' = [IdleTower EXCEPT !.fresh = b], Upsets' = Upsets,
           UNCHANGED <<now, fund, spend, rate, jobs, recorded, lost, revealed, honest>>,
           SentInv', b => tower.fresh \/ (tower.pc = "jobs" /\ tower.left = {})
    PROVE  WholeInv'
<1>1. tower'.pc = "idle" /\ tower'.left = {} /\ tower'.fresh = b
  BY DEF IdleTower
<1>2. PassInv'
  BY <1>1 DEF WholeInv, PassInv
<1>3. \A j : Ahead(j)'
  BY <1>1 DEF Ahead
<1>4. ASSUME NEW j, Ahead(j), ~tower.fresh PROVE ~b
  BY <1>4 DEF Ahead
<1>5. Committed /\ RedeemDue /\ RedeemComing => ~tower'.fresh /\ Ahead("btc_redeem")'
  BY <1>1, <1>3, <1>4 DEF RedeemComing
<1>6. SettleComing => SettleComing'
  BY <1>1, <1>3, <1>4 DEF SettleComing
<1>7. ~tower.fresh /\ Ahead("xbt_waiting") => ~tower'.fresh /\ Ahead("xbt_waiting")'
  BY <1>1, <1>3, <1>4
<1> QED
  BY <1>1, <1>2, <1>5, <1>6, <1>7, PassWhole

\* The pass ends.
LEMMA TowerEndWhole ==
    ASSUME IInv, EnoughTime, WholeInv, TowerEnd
    PROVE  WholeInv'
<1>1. PICK b : b = (tower.fresh \/ tower.at = now)
  OBVIOUS
<1>2. /\ tower' = [IdleTower EXCEPT !.fresh = b] /\ tower.pc = "jobs" /\ tower.left = {}
      /\ UNCHANGED <<now, fund, spend, rate, jobs, recorded, lost, revealed, honest, budget>>
  BY <1>1 DEF TowerEnd, chainVars, phoneVars
<1>3. SentInv' /\ Upsets' = Upsets
  BY <1>2, KnowsKept DEF WholeInv, Upsets
<1> QED
  BY <1>2, <1>3, TowerIdleWhole

\* The edge stops; between a broadcast and its store it loses that the spend is its own.
LEMMA CrashWhole ==
    ASSUME IInv, EnoughTime, WholeInv, SentInv', Crash
    PROVE  WholeInv'
<1>1. PICK b : b = tower.fresh
  OBVIOUS
<1>2. /\ tower' = [IdleTower EXCEPT !.fresh = b]
      /\ budget' = [budget EXCEPT !.faults = @ + 1]
      /\ UNCHANGED <<now, fund, spend, rate, jobs, recorded, lost, revealed, honest>>
  BY <1>1 DEF Crash, Fault, chainVars, phoneVars
<1>3. Upsets' = Upsets
  BY <1>2 DEF Upsets, IInv, Shape, TypeOK
<1> QED
  BY <1>1, <1>2, <1>3, TowerIdleWhole

\* put_watch of the pass's copy.
LEMMA JobStoreWhole ==
    ASSUME IInv, EnoughTime, WholeInv, JobStore
    PROVE  WholeInv'
<1>1. /\ tower.pc = "store" /\ jobs' = [jobs EXCEPT ![Job] = tower.next] /\ tower' = NextJob
      /\ UNCHANGED <<now, fund, spend, rate, recorded, lost, revealed, honest, budget>>
  BY DEF JobStore, chainVars, phoneVars
<1>2. PICK j : j = Job
  OBVIOUS
<1>3. /\ tower \in TowerState /\ jobs \in [JobIds -> WatchJob] /\ tower.left \in SUBSET JobIds
      /\ tower.left # {}
  BY <1>1, WholeTypes DEF IInv, Shape
<1>4. j \in tower.left /\ j \in JobIds
  BY <1>2, <1>3, JobAtHand DEF Job
<1>5. /\ tower'.pc = "jobs" /\ tower'.left = tower.left \ {j} /\ tower'.snap = tower.snap
      /\ tower'.at = tower.at /\ tower'.fresh = tower.fresh
  BY <1>1, <1>2, <1>3 DEF NextJob, TowerState
<1>6. \A k \in JobIds : jobs'[k] = IF k = j THEN tower.next ELSE jobs[k]
  BY <1>1, <1>2, <1>3, <1>4
<1>7. tower.next.stored /\ (jobs[j].sent => tower.next.sent) /\ jobs[j].stored
  BY <1>1, <1>2, <1>4 DEF WholeInv, PassInv
<1>8. PassInv'
  <2>1. \A k \in tower'.left : jobs'[k].stored /\ tower'.snap[k] = jobs'[k]
    BY <1>3, <1>5, <1>6 DEF WholeInv, PassInv
  <2>2. \A k \in JobIds : jobs'[k].sent => jobs'[k].stored
    BY <1>6, <1>7 DEF WholeInv, PassInv
  <2> QED
    BY <1>1, <1>5, <2>1, <2>2 DEF WholeInv, PassInv
<1>9. \A k \in JobIds : jobs'[k].stored = jobs[k].stored /\ (jobs[k].sent => jobs'[k].sent)
  <2>1. tower.next.stored = jobs[j].stored
    <3>1. tower.next \in WatchJob /\ jobs[j] \in WatchJob
      BY <1>3, <1>4 DEF TowerState
    <3> QED
      BY <1>7, <3>1 DEF WatchJob
  <2> QED
    BY <1>6, <1>7, <2>1
<1>10. tower.next.sent => jobs'[Job].sent
  BY <1>2, <1>4, <1>6
<1>11. Upsets' = Upsets
  BY <1>1 DEF Upsets
<1>12. ASSUME NEW k, Ahead(k) PROVE Ahead(k)'
  BY <1>1, <1>2, <1>5, <1>12 DEF Ahead
<1>13. Committed /\ RedeemDue /\ RedeemComing => ~tower'.fresh /\ Ahead("btc_redeem")'
  BY <1>5, <1>12 DEF RedeemComing
<1>14. SettleComing => SettleComing'
  <2>1. "btc_refund" \in JobIds /\ (j # "btc_refund" => jobs'["btc_refund"] = jobs["btc_refund"])
    BY <1>6 DEF JobIds
  <2> QED
    BY <1>1, <1>2, <1>5, <1>12, <2>1 DEF SettleComing, PreimageSeen
<1>15. ~tower.fresh /\ Ahead("xbt_waiting") => ~tower'.fresh /\ Ahead("xbt_waiting")'
  BY <1>5, <1>12
<1>16. SentInv'
  BY <1>1, <1>9, <1>10, KnowsKept DEF WholeInv
<1> QED
  BY <1>1, <1>5, <1>8, <1>9, <1>11, <1>13, <1>14, <1>15, <1>16, PassWhole

\* The chain's answers of a job that is passed over: its spend is another's, or dear enough.
LEMMA PassedOver ==
    ASSUME IInv, EnoughTime, WholeInv, tower.pc = "jobs", NEW j \in tower.left,
           j \in {"btc_refund", "xbt_waiting"}, fund[ChainOf(j)] # "absent", ~TxOut(ChainOf(j)),
           ~spend[ChainOf(j)].mined, ~tower.snap[j].sent, Confirmed(ChainOf(j)),
           spend[ChainOf(j)].kind = SpendOf(j)
    PROVE  Minable(ChainOf(j))
<1>1. PICK c : c = ChainOf(j)
  OBVIOUS
<1>2. ~jobs[j].sent /\ spend[c] # NoSpend
  BY <1>1 DEF WholeInv, PassInv, TxOut
<1>3. Dearest(spend[c].fee)
  BY <1>1, <1>2 DEF WholeInv, SentInv, Knows
<1>4. spend[c].fee >= rate
  <2>1. c \in Chains /\ spend[c] \in SpendState
    BY <1>1, WholeTypes DEF ChainOf
  <2>2. spend[c].fee \in Nat /\ rate \in Nat /\ rate <= spend[c].fee
    BY <1>3, <2>1, WholeTypes DEF Dearest, SpendState
  <2> QED
    BY <2>2
<1> QED
  BY <1>1, <1>2, <1>4 DEF Minable

\* What run_job does up to its broadcast with job j, whose output is on chain c: it is found
\* spent, or due, or it waits, or its spend is left to others.
Looked(j, c, resend) ==
    /\ j = Job /\ j \in JobIds /\ c = ChainOf(j) /\ tower.pc = "jobs"
    /\ UNCHANGED <<now, fund, spend, rate, recorded, lost, revealed, honest, budget>>
    /\ tower'.fresh = tower.fresh /\ tower'.at = tower.at
    /\ \A k \in JobIds : jobs'[k].stored = jobs[k].stored /\ (jobs[k].sent => jobs'[k].sent)
    /\ \A k \in tower.left : tower'.snap[k] = jobs'[k]
    /\ \A k \in JobIds : jobs'[k].sent => jobs'[k].stored
    /\ \A k \in JobIds : k # j => jobs'[k] = jobs[k]
    /\ ~TxOut(c) /\ (tower.snap[j].sent \/ (j = "btc_redeem" /\ PreimageSeen)) => resend
    /\ \/ /\ spend[c].mined \/ j = "xbt_refund"
          /\ jobs' = jobs
          /\ tower'.pc = "store" /\ tower'.left = tower.left
          /\ tower'.next.stored /\ (jobs[j].sent => tower'.next.sent)
       \/ Due(j, resend) /\ tower'.pc = "send" /\ tower'.left = tower.left
       \/ /\ TxOut(c) \/ ~SpendUnreadable(c)
          /\ ~Due(j, resend) /\ tower'.pc = "jobs" /\ tower'.left = tower.left \ {j}
       \/ /\ ~TxOut(c) /\ (SpendUnreadable(c) \/ (~SpendConfirmed(c) /\ ~resend)) /\ jobs' = jobs
          /\ tower'.pc = "jobs" /\ tower'.left = tower.left \ {j}

\* A look at the job at hand is one of these.
LEMMA JobLookCases ==
    ASSUME IInv, EnoughTime, WholeInv, JobLook
    PROVE  \E j \in tower.left, c \in Chains, resend \in BOOLEAN : Looked(j, c, resend)
<1> DEFINE j == Job
           c == ChainOf(j)
           s == tower.snap[j]
           adopt == ~TxOut(c) /\ ~s.sent /\ phone_sent_redeem(j)
           resend == ~TxOut(c) /\ (s.sent \/ adopt)
           snap == [tower EXCEPT !.snap[j].sent = @ \/ adopt]
<1>1. /\ tower.pc = "jobs" /\ tower.left # {}
      /\ UNCHANGED <<now, fund, spend, rate, recorded, lost, revealed, honest, budget>>
  BY DEF JobLook, chainVars, phoneVars
<1>2. tower \in TowerState /\ jobs \in [JobIds -> WatchJob] /\ tower.left \in SUBSET JobIds
  BY WholeTypes
<1>3. j \in tower.left /\ j \in JobIds
  BY <1>1, <1>2, JobAtHand DEF Job
<1>4. c \in Chains /\ s \in WatchJob /\ s = jobs[j] /\ s.stored
  BY <1>2, <1>3, JobChain DEF TowerState, WholeInv, PassInv
<1>5. \/ /\ ~TxOut(c) /\ ~SpendUnreadable(c) /\ SpendConfirmed(c)
         /\ tower' = [tower EXCEPT !.pc = "store", !.next = [s EXCEPT !.done = TRUE, !.blind = ~Confirmed(c)]]
         /\ UNCHANGED jobs
      \/ /\ TxOut(c) \/ (~SpendUnreadable(c) /\ ~SpendConfirmed(c) /\ resend)
         /\ jobs' = IF adopt THEN [jobs EXCEPT ![j] = [s EXCEPT !.sent = TRUE]] ELSE jobs
         /\ tower' = IF Due(j, resend) THEN [snap EXCEPT !.pc = "send"]
                     ELSE [snap EXCEPT !.left = @ \ {Job}]
      \/ /\ ~TxOut(c) /\ (SpendUnreadable(c) \/ (~SpendConfirmed(c) /\ ~resend))
         /\ tower' = NextJob /\ UNCHANGED jobs
  BY DEF JobLook
<1>6. adopt \in BOOLEAN /\ resend \in BOOLEAN
  OBVIOUS
<1>7. ~TxOut(c) /\ (tower.snap[j].sent \/ (j = "btc_redeem" /\ PreimageSeen)) => resend
  BY DEF phone_sent_redeem
<1>8. adopt => resend
  OBVIOUS
<1>9. \A k \in JobIds : jobs[k].sent => jobs[k].stored
  BY DEF WholeInv, PassInv
<1>10. \A k \in tower.left : tower.snap[k] = jobs[k]
  BY DEF WholeInv, PassInv
<1> HIDE DEF j, c, s, adopt, resend, snap
<1>11. CASE /\ ~TxOut(c) /\ ~SpendUnreadable(c) /\ SpendConfirmed(c)
            /\ tower' = [tower EXCEPT !.pc = "store", !.next = [s EXCEPT !.done = TRUE, !.blind = ~Confirmed(c)]]
            /\ UNCHANGED jobs
  <2>1. spend[c].mined \/ j = "xbt_refund"
    <3>1. spend[c].mined \/ (c = "xbt" /\ ~Confirmed(c))
      BY <1>4, <1>11, ConfirmedIsMined
    <3>2. j = "xbt_waiting" => Confirmed("xbt")
      BY <1>3 DEF IInv, XbtInv, Confirmed
    <3>3. c = "xbt" => j \in {"xbt_refund", "xbt_waiting"}
      BY <1>3 DEF c, ChainOf, JobIds
    <3> QED
      BY <3>1, <3>2, <3>3
  <2>2. /\ tower'.pc = "store" /\ tower'.left = tower.left /\ tower'.snap = tower.snap
        /\ tower'.fresh = tower.fresh /\ tower'.at = tower.at
        /\ tower'.next = [s EXCEPT !.done = TRUE, !.blind = ~Confirmed(c)]
    BY <1>2, <1>11 DEF TowerState
  <2>3. tower'.next.stored /\ (jobs[j].sent => tower'.next.sent)
    BY <1>4, <2>2 DEF WatchJob
  <2>4. j = Job /\ c = ChainOf(j)
    BY DEF j, c
  <2> QED
    BY <1>1, <1>3, <1>4, <1>6, <1>7, <1>9, <1>10, <1>11, <2>1, <2>2, <2>3, <2>4 DEF Looked
<1>12. CASE /\ ~TxOut(c) /\ (SpendUnreadable(c) \/ (~SpendConfirmed(c) /\ ~resend))
            /\ tower' = NextJob /\ UNCHANGED jobs
  <2>1. j = Job /\ c = ChainOf(j)
    BY DEF j, c
  <2>2. /\ tower'.pc = "jobs" /\ tower'.left = tower.left \ {j} /\ tower'.snap = tower.snap
        /\ tower'.fresh = tower.fresh /\ tower'.at = tower.at
    BY <1>2, <1>12, <2>1 DEF TowerState, NextJob
  <2> QED
    BY <1>1, <1>3, <1>4, <1>6, <1>7, <1>9, <1>10, <1>12, <2>1, <2>2 DEF Looked
<1>13. CASE /\ TxOut(c) \/ (~SpendUnreadable(c) /\ ~SpendConfirmed(c) /\ resend)
            /\ jobs' = IF adopt THEN [jobs EXCEPT ![j] = [s EXCEPT !.sent = TRUE]] ELSE jobs
            /\ tower' = IF Due(j, resend) THEN [snap EXCEPT !.pc = "send"]
                        ELSE [snap EXCEPT !.left = @ \ {Job}]
  <2> DEFINE v == [s EXCEPT !.sent = s.sent \/ adopt]
  <2>1. /\ v \in WatchJob /\ v.stored = s.stored /\ (s.sent => v.sent)
        /\ (adopt => v = [s EXCEPT !.sent = TRUE]) /\ (~adopt => v = s)
    BY <1>4, <1>6 DEF WatchJob
  <2>2. snap = [tower EXCEPT !.snap = [tower.snap EXCEPT ![j] = v]]
    BY <1>2, <1>3 DEF s, snap, TowerState
  <2> HIDE DEF v
  <2>3. \A k \in JobIds : jobs'[k] = IF k = j THEN v ELSE jobs[k]
    BY <1>2, <1>3, <1>4, <1>13, <2>1
  <2>4. /\ snap.pc = "jobs" /\ snap.left = tower.left /\ snap.fresh = tower.fresh /\ snap.at = tower.at
        /\ \A k \in JobIds : snap.snap[k] = IF k = j THEN v ELSE tower.snap[k]
    BY <1>1, <1>2, <1>3, <2>2 DEF TowerState
  <2>5. snap \in [pc : {"jobs"}, at : Times, left : SUBSET JobIds, snap : [JobIds -> WatchJob],
                  next : WatchJob, fresh : BOOLEAN]
    BY <1>1, <1>2, <1>3, <2>1, <2>2 DEF TowerState
  <2>6. /\ \A k \in JobIds : jobs'[k].stored = jobs[k].stored /\ (jobs[k].sent => jobs'[k].sent)
        /\ \A k \in JobIds : jobs'[k].sent => jobs'[k].stored
        /\ \A k \in JobIds : k # j => jobs'[k] = jobs[k]
    BY <1>4, <1>9, <2>1, <2>3
  <2>7. \A k \in tower.left : snap.snap[k] = jobs'[k]
    BY <1>2, <1>10, <2>3, <2>4
  <2>8. j = Job /\ c = ChainOf(j)
    BY DEF j, c
  <2>9. CASE Due(j, resend)
    <3>1. tower' = [snap EXCEPT !.pc = "send"]
      BY <1>13, <2>9
    <3>2. /\ tower'.pc = "send" /\ tower'.left = tower.left /\ tower'.snap = snap.snap
          /\ tower'.fresh = tower.fresh /\ tower'.at = tower.at
      BY <2>4, <2>5, <3>1
    <3> QED
      BY <1>1, <1>3, <1>4, <1>6, <1>7, <2>6, <2>7, <2>8, <2>9, <3>2 DEF Looked
  <2>10. CASE ~Due(j, resend)
    <3>1. tower' = [snap EXCEPT !.left = snap.left \ {j}]
      BY <1>13, <2>8, <2>10
    <3>2. /\ tower'.pc = "jobs" /\ tower'.left = tower.left \ {j} /\ tower'.snap = snap.snap
          /\ tower'.fresh = tower.fresh /\ tower'.at = tower.at
      BY <2>4, <2>5, <3>1
    <3>3. TxOut(c) \/ ~SpendUnreadable(c)
      BY <1>13
    <3> QED
      BY <1>1, <1>3, <1>4, <1>6, <1>7, <2>6, <2>7, <2>8, <2>10, <3>2, <3>3 DEF Looked
  <2> QED
    BY <2>9, <2>10
<1> QED
  BY <1>5, <1>11, <1>12, <1>13

\* ... and every promise kept: a job whose turn it is sends, or its leg can be mined.
LEMMA JobLookWhole ==
    ASSUME IInv, EnoughTime, WholeInv, JobLook
    PROVE  WholeInv'
<1>0. PICK j \in tower.left, c \in Chains, resend \in BOOLEAN : Looked(j, c, resend)
  BY JobLookCases
<1>1. /\ j = Job /\ j \in JobIds /\ c = ChainOf(j) /\ tower.pc = "jobs"
      /\ UNCHANGED <<now, fund, spend, rate, recorded, lost, revealed, honest, budget>>
      /\ tower'.fresh = tower.fresh /\ tower'.at = tower.at
      /\ \A k \in JobIds : jobs'[k].stored = jobs[k].stored /\ (jobs[k].sent => jobs'[k].sent)
      /\ \A k \in tower.left : tower'.snap[k] = jobs'[k]
      /\ \A k \in JobIds : jobs'[k].sent => jobs'[k].stored
      /\ \A k \in JobIds : k # j => jobs'[k] = jobs[k]
      /\ ~TxOut(c) /\ (tower.snap[j].sent \/ (j = "btc_redeem" /\ PreimageSeen)) => resend
      /\ \/ /\ spend[c].mined \/ j = "xbt_refund"
            /\ jobs' = jobs
            /\ tower'.pc = "store" /\ tower'.left = tower.left
            /\ tower'.next.stored /\ (jobs[j].sent => tower'.next.sent)
         \/ Due(j, resend) /\ tower'.pc = "send" /\ tower'.left = tower.left
         \/ /\ TxOut(c) \/ ~SpendUnreadable(c)
            /\ ~Due(j, resend) /\ tower'.pc = "jobs" /\ tower'.left = tower.left \ {j}
         \/ /\ ~TxOut(c) /\ (SpendUnreadable(c) \/ (~SpendConfirmed(c) /\ ~resend)) /\ jobs' = jobs
            /\ tower'.pc = "jobs" /\ tower'.left = tower.left \ {j}
  BY <1>0 DEF Looked
<1> DEFINE Found == /\ spend[c].mined \/ j = "xbt_refund"
                    /\ tower'.pc = "store" /\ tower'.left = tower.left
           Sends == Due(j, resend) /\ tower'.pc = "send" /\ tower'.left = tower.left
           Waits == /\ TxOut(c) \/ ~SpendUnreadable(c)
                    /\ ~Due(j, resend) /\ tower'.pc = "jobs" /\ tower'.left = tower.left \ {j}
           Passed == /\ ~TxOut(c) /\ (SpendUnreadable(c) \/ (~SpendConfirmed(c) /\ ~resend)) /\ jobs' = jobs
                     /\ tower'.pc = "jobs" /\ tower'.left = tower.left \ {j}
<1>2. Found \/ Sends \/ Waits \/ Passed
  BY <1>1
<1>3. tower.left \in SUBSET JobIds /\ tower.left # {} /\ j \in JobIds /\ tower.at = now /\ j = Job
  BY <1>1, WholeTypes DEF WholeInv, PassInv
<1>4. tower'.left \in SUBSET JobIds /\ tower'.left \subseteq tower.left
  BY <1>2, <1>3
<1>5. PassInv'
  <2>1. \A k \in tower'.left : jobs'[k].stored /\ tower'.snap[k] = jobs'[k]
    BY <1>1, <1>3, <1>4 DEF WholeInv, PassInv
  <2>2. tower'.pc = "store" => tower'.next.stored /\ (jobs'[Job'].sent => tower'.next.sent)
    <3> SUFFICES ASSUME tower'.pc = "store"
                 PROVE  tower'.next.stored /\ (jobs'[Job'].sent => tower'.next.sent)
      OBVIOUS
    <3>1. jobs' = jobs /\ tower'.left = tower.left /\ tower'.next.stored /\ (jobs[j].sent => tower'.next.sent)
      BY <1>1
    <3>2. Job' = j
      BY <1>3, <3>1 DEF Job
    <3> QED
      BY <3>1, <3>2
  <2>3. tower'.at = now'
    BY <1>1, <1>3
  <2> QED
    BY <1>1, <2>1, <2>2, <2>3 DEF PassInv
<1>6. Upsets' = Upsets
  BY <1>1 DEF Upsets
<1>7. tower'.pc = "send" /\ Job' = "xbt_waiting" => revealed
  <2> SUFFICES ASSUME tower'.pc = "send", Job' = "xbt_waiting" PROVE revealed
    OBVIOUS
  <2>1. Sends
    BY <1>2
  <2>2. j = "xbt_waiting"
    BY <1>3, <2>1 DEF Job
  <2>3. spend["btc"].kind = "redeem"
    BY <2>1, <2>2 DEF Due, PreimageSeen
  <2> QED
    BY <2>3, WholeTypes DEF WholeInv, LegsInv
<1>8. ASSUME NEW k, Ahead(k), Sends PROVE Ahead(k)'
  BY <1>1, <1>8 DEF Ahead
<1>9. ASSUME NEW k, k # j, Ahead(k) PROVE Ahead(k)'
  <2>1. k \in tower.left /\ k \in tower'.left
    BY <1>1, <1>2, <1>9 DEF Ahead
  <2>2. CASE tower'.pc = "store"
    <3>1. Job' = j
      BY <1>2, <1>3, <2>2 DEF Job
    <3> QED
      BY <1>9, <2>1, <3>1 DEF Ahead
  <2>3. CASE tower'.pc # "store"
    BY <2>1, <2>3 DEF Ahead
  <2> QED
    BY <2>2, <2>3
<1>10. ASSUME fund[c] # "absent", Passed PROVE ~spend[c].mined /\ spend[c] # NoSpend /\ ~resend
  <2>1. ~SpendUnreadable(c)
    BY <1>10 DEF SpendUnreadable
  <2>2. ~SpendConfirmed(c) /\ ~resend /\ spend[c] # NoSpend
    BY <1>10, <2>1 DEF TxOut
  <2>3. ~spend[c].mined
    BY <2>2 DEF SpendConfirmed
  <2> QED
    BY <2>2, <2>3
<1>11. ASSUME Committed, RedeemDue, RedeemComing PROVE ~tower'.fresh /\ Ahead("btc_redeem")'
  <2>1. j = "btc_redeem" /\ c = "btc"
    <3>1. "btc_redeem" \in tower.left
      BY <1>1, <1>11 DEF RedeemComing, Ahead
    <3> QED
      BY <1>1, <1>3, <3>1, FirstIs DEF Job, ChainOf
  <2>2. fund["btc"] = "deep"
    BY <1>11 DEF Committed, WholeInv, LegsInv
  <2>3. Due(j, resend)
    BY <2>1, <2>2 DEF Due
  <2>4. ~Found
    BY <1>11, <2>1 DEF RedeemDue
  <2>5. ~Passed
    <3> SUFFICES ASSUME Passed PROVE FALSE
      OBVIOUS
    <3>1. ~spend[c].mined /\ spend[c] # NoSpend /\ ~resend /\ ~TxOut(c)
      BY <1>10, <2>1, <2>2
    <3>2. PreimageSeen
      BY <1>11, <2>1, <3>1, BtcRedeemed DEF PreimageSeen, WholeInv
    <3> QED
      BY <1>1, <2>1, <3>1, <3>2
  <2>6. Sends
    BY <1>2, <2>3, <2>4, <2>5
  <2> QED
    BY <1>1, <1>8, <1>11, <2>6 DEF RedeemComing
<1>12. ASSUME Handed, ~Resolved, SettleDue, now = BtcLock + Upsets, SettleComing
       PROVE  Minable("btc") \/ Minable("xbt") \/ SettleComing'
  <2>1. /\ Ahead("xbt_waiting") /\ ~tower.fresh
        /\ Ahead("btc_refund") \/ (PreimageSeen /\ ~jobs["btc_refund"].sent)
    BY <1>12 DEF SettleComing
  <2> DEFINE Left == /\ PreimageSeen' /\ ~jobs'["btc_refund"].sent
                     /\ ~(tower'.pc = "store" /\ Job' = "btc_refund")
  <2>2. "xbt_waiting" \in tower.left
    BY <1>1, <2>1 DEF Ahead
  <2>3. PreimageSeen' = PreimageSeen
    BY <1>1 DEF PreimageSeen
  <2>4. now <= BtcLock + 1 + Upsets /\ now >= BtcLock /\ now > FundLatest
    BY <1>12, SettleClock, WholeTypes DEF EnoughTime
  <2>5. /\ fund["btc"] # "absent" /\ Confirmed("btc") /\ recorded
        /\ fund["xbt"] # "absent" /\ Confirmed("xbt")
    BY <1>12, <2>4 DEF Handed, WholeInv, LegsInv, IInv, XbtInv, Confirmed
  <2>6. CASE Sends /\ (j # "btc_refund" \/ Ahead("btc_refund"))
    <3>1. j # "btc_refund" => jobs'["btc_refund"] = jobs["btc_refund"]
      BY <1>1 DEF JobIds
    <3>2. Ahead("xbt_waiting")' /\ (Ahead("btc_refund")' \/ Left)
      BY <1>8, <2>1, <2>3, <2>6, <3>1
    <3> QED
      BY <1>1, <2>1, <3>2 DEF SettleComing
  <2>7. CASE Found /\ j # "xbt_refund"
    <3>1. CASE c = "btc"
      BY <1>12, <2>7, <3>1 DEF SettleDue
    <3>2. CASE c = "xbt"
      BY <1>12, <2>4, <2>7, <3>2, XbtRedeemed DEF WholeInv, NoSpend
    <3> QED
      BY <3>1, <3>2 DEF Chains
  <2>8. CASE j = "btc_redeem" \/ j = "xbt_refund"
    <3>1. jobs'["btc_refund"] = jobs["btc_refund"]
      BY <1>1, <2>8 DEF JobIds
    <3>2. ~(tower'.pc = "store" /\ Job' = "btc_refund")
      <4>1. tower'.pc = "store" => Job' = j
        BY <1>2, <1>3 DEF Job
      <4> QED
        BY <2>8, <4>1
    <3>3. Ahead("xbt_waiting")' /\ (Ahead("btc_refund")' \/ Left)
      BY <1>9, <2>1, <2>3, <2>8, <3>1, <3>2
    <3> QED
      BY <1>1, <2>1, <3>3 DEF SettleComing
  <2>11. j = "btc_refund" => Ahead("btc_refund")
    BY <1>1 DEF Ahead
  <2>9. CASE j = "btc_refund" /\ ~Sends
    <3>1. c = "btc" /\ SpendOf(j) = "refund"
      BY <1>1, <2>9 DEF ChainOf, SpendOf
    <3>2. Due(j, resend)
      BY <1>3, <2>4, <2>9 DEF Due, ChainOf, Lock
    <3>3. CASE Passed
      <4>1. ~spend["btc"].mined /\ spend["btc"] # NoSpend /\ ~tower.snap[j].sent /\ ~TxOut("btc")
        BY <1>1, <1>10, <2>5, <3>1, <3>3
      <4>2. spend["btc"].kind \in {"redeem", "refund"}
        BY <4>1, WholeTypes DEF WholeInv, LegsInv
      <4>3. CASE spend["btc"].kind = "redeem"
        <5>1. PreimageSeen' /\ Ahead("xbt_waiting")'
          BY <1>9, <2>1, <2>3, <2>9, <4>3 DEF PreimageSeen
        <5>2. ~jobs'["btc_refund"].sent
          BY <1>3, <2>9, <3>3, <4>1 DEF WholeInv, PassInv
        <5> QED
          BY <1>1, <2>1, <3>3, <5>1, <5>2 DEF SettleComing
      <4>4. CASE spend["btc"].kind = "refund"
        BY <1>1, <2>5, <2>9, <3>1, <4>1, <4>4, PassedOver
      <4> QED
        BY <4>2, <4>3, <4>4
    <3> QED
      BY <1>2, <2>7, <2>9, <3>2, <3>3
  <2>10. CASE j = "xbt_waiting" /\ ~Sends
    <3>1. c = "xbt" /\ SpendOf(j) = "redeem"
      BY <1>1, <2>10 DEF ChainOf, SpendOf
    <3>2. tower.left = {"xbt_waiting"}
      BY <1>1, <1>3, <2>10, FirstIs DEF Job
    <3>3. PreimageSeen
      BY <1>1, <2>1, <3>2 DEF Ahead
    <3>4. Due(j, resend)
      BY <2>5, <2>10, <3>3 DEF Due
    <3>5. CASE Passed
      <4>1. ~spend["xbt"].mined /\ spend["xbt"] # NoSpend /\ ~tower.snap[j].sent /\ ~TxOut("xbt")
        BY <1>1, <1>10, <2>5, <3>1, <3>5
      <4>2. spend["xbt"].kind = "redeem"
        BY <2>4, <4>1, XbtRedeemed DEF WholeInv
      <4> QED
        BY <1>1, <2>5, <2>10, <3>1, <4>1, <4>2, PassedOver
    <3> QED
      BY <1>2, <2>7, <2>10, <3>4, <3>5
  <2> QED
    BY <1>3, <2>6, <2>8, <2>9, <2>10, <2>11 DEF JobIds
<1>13. ASSUME Handed, ~Resolved, ClaimDue, now = BtcLock + 1 + Upsets, ~tower.fresh, Ahead("xbt_waiting")
       PROVE  Minable("xbt") \/ (~tower'.fresh /\ Ahead("xbt_waiting")')
  <2>1. CASE j # "xbt_waiting"
    BY <1>1, <1>9, <1>13, <2>1
  <2>2. CASE j = "xbt_waiting"
    <3>1. c = "xbt" /\ SpendOf(j) = "redeem"
      BY <1>1, <2>2 DEF ChainOf, SpendOf
    <3>2. now <= BtcLock + 1 + Upsets
      BY <1>13 DEF ClaimDue
    <3>3. PreimageSeen
      <4>1. spend["btc"].mined /\ spend["btc"].kind # "refund" /\ spend["btc"] # NoSpend
        BY <1>13 DEF ClaimDue, Resolved, NoSpend
      <4> QED
        BY <4>1, WholeTypes DEF PreimageSeen, WholeInv, LegsInv
    <3>4. Due(j, resend)
      BY <1>13, <2>2, <3>3 DEF Due, Handed
    <3>5. fund["xbt"] # "absent" /\ Confirmed("xbt")
      BY <1>13 DEF Handed, IInv, XbtInv, Confirmed
    <3>6. CASE Found
      BY <1>13, <2>2, <3>1, <3>2, <3>6, XbtRedeemed DEF WholeInv, NoSpend
    <3>7. CASE Passed
      <4>1. ~spend["xbt"].mined /\ spend["xbt"] # NoSpend /\ ~tower.snap[j].sent /\ ~TxOut("xbt")
        BY <1>1, <1>10, <3>1, <3>5, <3>7
      <4>2. spend["xbt"].kind = "redeem"
        BY <3>2, <4>1, XbtRedeemed DEF WholeInv
      <4> QED
        BY <1>1, <2>2, <3>1, <3>5, <4>1, <4>2, PassedOver
    <3>8. CASE Sends
      BY <1>1, <1>8, <1>13, <3>8
    <3> QED
      BY <1>2, <3>4, <3>6, <3>7, <3>8
  <2> QED
    BY <2>1, <2>2
<1>14. \A k \in JobIds : jobs'[k].stored = jobs[k].stored /\ (jobs[k].sent => jobs'[k].sent)
  BY <1>1
<1>15. tower.pc # "store" /\ UNCHANGED <<now, fund, spend, rate, recorded, lost, revealed, honest>>
  BY <1>1
<1>16. SentInv'
  BY <1>14, <1>15, KnowsKept DEF WholeInv
<1> QED
  BY <1>5, <1>6, <1>7, <1>11, <1>12, <1>13, <1>14, <1>15, <1>16, PassWhole

\* A broadcast that pays the going rate and is taken: its leg can be mined.
LEMMA SpendWhole ==
    ASSUME IInv, EnoughTime, WholeInv,
           NEW c \in Chains, NEW kind \in {"redeem", "refund"}, NEW fee \in Fees, fee >= rate,
           Takes(c, kind, fee), spend' = Spent(c, kind, fee), Upsets' = Upsets,
           UNCHANGED <<now, fund, rate, jobs, recorded, lost, honest>>,
           PassInv', SentInv', kind = "redeem" => revealed', revealed => revealed',
           revealed' => fund["btc"] = "deep",
           tower'.pc = "send" /\ Job' = "xbt_waiting" => revealed',
           Committed' => Committed \/ (c = "btc" /\ InMargin),
           c = "xbt" /\ RedeemComing => Minable("btc") \/ RedeemComing'
    PROVE  WholeInv'
<1>1. /\ now \in Nat /\ rate \in Fees /\ Fees \in SUBSET Nat /\ BtcLock \in Nat /\ RedeemMargin \in Nat
      /\ FundLatest \in Nat /\ Upsets \in Nat /\ spend \in [Chains -> SpendState]
      /\ "btc" \in Chains /\ "xbt" \in Chains
  BY WholeTypes
<1>2. PICK s : s = [kind |-> kind, fee |-> fee, mined |-> FALSE]
  OBVIOUS
<1>3. s.kind = kind /\ s.fee = fee /\ ~s.mined /\ s # NoSpend
  BY <1>2 DEF NoSpend
<1>4. \A d \in Chains : spend'[d] = IF d = c THEN s ELSE spend[d]
  BY <1>1, <1>2 DEF Spent
<1>5. ~spend[c].mined /\ (kind = "refund" => now >= Lock(c))
  BY DEF Takes, NoSpend
<1>6. Confirmed(c) => Minable(c)'
  BY <1>3, <1>4 DEF Minable, Confirmed
<1>7. LegsInv'
  <2>1. \A d \in Chains : spend'[d] # NoSpend => spend'[d].kind \in {"redeem", "refund"}
    BY <1>3, <1>4 DEF WholeInv, LegsInv
  <2>2. \A d \in Chains : spend'[d].kind = "refund" => now >= Lock(d)
    BY <1>3, <1>4, <1>5 DEF WholeInv, LegsInv
  <2>3. \A d \in Chains : spend'[d].kind = "redeem" => revealed'
    BY <1>3, <1>4 DEF WholeInv, LegsInv
  <2> QED
    BY <2>1, <2>2, <2>3 DEF WholeInv, LegsInv, Lock, Confirmed
<1>8. InitiatorInv'
  <2> SUFFICES ASSUME Committed' PROVE RedeemDue' \/ (spend'["btc"].mined /\ spend'["btc"].kind = "redeem")
    BY DEF InitiatorInv
  <2>1. CASE c = "btc"
    <3>1. fund["btc"] = "deep" /\ ~spend["btc"].mined
      BY <1>5, <2>1 DEF Committed
    <3>2. Minable("btc")' /\ ~spend'["btc"].mined
      BY <1>1, <1>3, <1>4, <1>6, <2>1, <3>1 DEF Confirmed
    <3>3. now <= BtcLock - RedeemMargin + Upsets
      <4>1. CASE Committed
        BY <3>1, <4>1 DEF WholeInv, InitiatorInv, RedeemDue
      <4>2. CASE InMargin
        BY <1>1, <4>2 DEF InMargin
      <4> QED
        BY <4>1, <4>2
    <3> QED
      BY <3>2, <3>3 DEF RedeemDue
  <2>2. CASE c = "xbt"
    <3>1. Committed /\ spend'["btc"] = spend["btc"]
      BY <1>1, <1>4, <2>2
    <3>2. Minable("btc") => Minable("btc")'
      BY <3>1, MinableKept DEF Confirmed
    <3> QED
      BY <2>2, <3>1, <3>2 DEF WholeInv, InitiatorInv, RedeemDue
  <2> QED
    BY <2>1, <2>2 DEF Chains
<1>9. ParticipantInv'
  <2>1. now > FundLatest /\ fund'["btc"] # "absent" => Handed' \/ lost'["participant"]
    BY DEF WholeInv, ParticipantInv, Handed
  <2> SUFFICES ASSUME Handed PROVE Resolved' \/ SettleDue' \/ ClaimDue'
    BY <2>1 DEF ParticipantInv, Handed
  <2>2. Resolved \/ SettleDue \/ ClaimDue
    BY DEF WholeInv, ParticipantInv
  <2>3. Confirmed("xbt")
    BY DEF Handed, IInv, XbtInv, Confirmed
  <2>4. ASSUME Resolved PROVE Resolved'
    BY <1>1, <1>4, <1>5, <2>4 DEF Resolved
  <2>5. ASSUME SettleDue PROVE SettleDue'
    <3>1. ~spend'["btc"].mined
      BY <1>1, <1>3, <1>4, <2>5 DEF SettleDue
    <3>2. ASSUME now = BtcLock + Upsets PROVE Minable("btc")' \/ Minable("xbt")'
      <4>1. now > FundLatest
        BY <1>1, <3>2 DEF EnoughTime
      <4>2. Confirmed("btc")
        BY <4>1 DEF Handed, WholeInv, LegsInv
      <4> QED
        BY <1>6, <2>3, <4>2 DEF Chains
    <3> QED
      BY <2>5, <3>1, <3>2 DEF SettleDue
  <2>6. ASSUME ClaimDue PROVE ClaimDue'
    <3>1. c = "xbt"
      BY <1>5, <2>6 DEF ClaimDue, Chains
    <3>2. spend'["btc"] = spend["btc"] /\ Minable("xbt")'
      BY <1>1, <1>4, <1>6, <2>3, <3>1
    <3> QED
      BY <2>6, <3>2 DEF ClaimDue
  <2> QED
    BY <2>2, <2>4, <2>5, <2>6
<1> QED
  BY <1>7, <1>8, <1>9 DEF WholeInv

\* The broadcast of the variant picked (run_job, pick_variant): taken or not, its leg can be mined.
LEMMA JobSendWhole ==
    ASSUME IInv, EnoughTime, WholeInv, JobSend
    PROVE  WholeInv'
<1>1. PICK j, c, s : j = Job /\ c = ChainOf(j) /\ s = tower.snap[j]
  OBVIOUS
<1>2. /\ tower.pc = "send"
      /\ UNCHANGED <<now, fund, rate, jobs, recorded, lost, revealed, honest, budget>>
  BY DEF JobSend, phoneVars
<1>3. PICK fee \in {pick_variant(rate), pick_variant(UnknownRate)} :
             IF Takes(c, SpendOf(j), fee)
               THEN /\ spend' = Spent(c, SpendOf(j), fee)
                    /\ tower' = IF s.sent THEN NextJob
                                ELSE [tower EXCEPT !.pc = "store", !.next = [s EXCEPT !.sent = TRUE]]
               ELSE /\ spend' = spend
                    /\ tower' = NextJob
  BY <1>1 DEF JobSend
<1>4. /\ now \in Nat /\ rate \in Fees /\ Fees \in SUBSET Nat /\ BtcLock \in Nat /\ Upsets \in Nat
      /\ FundLatest \in Nat /\ spend \in [Chains -> SpendState] /\ tower \in TowerState
      /\ jobs \in [JobIds -> WatchJob] /\ tower.left \in SUBSET JobIds /\ tower.left # {}
  BY <1>2, WholeTypes DEF IInv, Shape
<1>5. fee \in Fees /\ fee \in Nat /\ rate \in Nat /\ fee >= rate
  BY <1>4, PickedPays
<1>6. j \in tower.left /\ j \in JobIds /\ c \in Chains
  BY <1>1, <1>4, JobAtHand, JobChain DEF Job
<1>7. s = jobs[j] /\ s.stored /\ s \in WatchJob
  BY <1>1, <1>4, <1>6 DEF WholeInv, PassInv
<1>8. Upsets' = Upsets
  BY <1>2 DEF Upsets
<1>9. "btc_redeem" \in tower.left => j = "btc_redeem"
  BY <1>1, <1>4, FirstIs DEF Job
<1>10. ASSUME tower' = NextJob
       PROVE  /\ tower'.pc = "jobs" /\ tower'.left = tower.left \ {j} /\ tower'.snap = tower.snap
              /\ tower'.at = tower.at /\ tower'.fresh = tower.fresh
  BY <1>1, <1>4, <1>10 DEF NextJob, TowerState
<1>11. ASSUME tower' = NextJob PROVE PassInv'
  <2>1. \A k \in tower'.left : jobs'[k].stored /\ tower'.snap[k] = jobs'[k]
    BY <1>2, <1>10, <1>11 DEF WholeInv, PassInv
  <2> QED
    BY <1>2, <1>10, <1>11, <2>1 DEF WholeInv, PassInv
<1>12. CASE Takes(c, SpendOf(j), fee)
  <2>1. spend' = Spent(c, SpendOf(j), fee)
    BY <1>3, <1>12
  <2>2. \/ s.sent /\ tower' = NextJob
        \/ ~s.sent /\ tower' = [tower EXCEPT !.pc = "store", !.next = [s EXCEPT !.sent = TRUE]]
    BY <1>3, <1>12
  <2>3. ASSUME tower' = [tower EXCEPT !.pc = "store", !.next = [s EXCEPT !.sent = TRUE]]
        PROVE  /\ tower'.pc = "store" /\ tower'.left = tower.left /\ tower'.snap = tower.snap
               /\ tower'.at = tower.at /\ tower'.next.stored /\ tower'.next.sent
    BY <1>4, <1>7, <2>3 DEF TowerState, WatchJob
  <2>4. PassInv'
    <3>1. CASE tower' = NextJob
      BY <1>11, <3>1
    <3>2. CASE tower' = [tower EXCEPT !.pc = "store", !.next = [s EXCEPT !.sent = TRUE]]
      BY <1>2, <2>3, <3>2 DEF WholeInv, PassInv
    <3> QED
      BY <2>2, <3>1, <3>2
  <2>5. \A d \in Chains : spend'[d] = IF d = c THEN [kind |-> SpendOf(j), fee |-> fee, mined |-> FALSE]
                                      ELSE spend[d]
    BY <1>4, <2>1 DEF Spent
  <2>6. ASSUME NEW k \in {"btc_refund", "xbt_waiting"} PROVE Knows(k)'
    <3>1. k \in JobIds /\ ChainOf(k) \in Chains
      BY DEF JobIds, ChainOf, Chains
    <3>2. CASE k = j /\ tower' = NextJob
      <4>1. s.sent
        BY <1>10, <2>2, <2>3, <3>2
      <4> QED
        BY <1>2, <1>7, <3>2, <4>1 DEF Knows
    <3>3. CASE k = j /\ tower' # NextJob
      <4>1. tower'.pc = "store" /\ tower'.left = tower.left /\ tower'.next.sent
        BY <2>2, <2>3, <3>3
      <4>2. Job' = j
        BY <1>1, <4>1 DEF Job
      <4> QED
        BY <3>3, <4>1, <4>2 DEF Knows
    <3>4. CASE k # j /\ ChainOf(k) = c
      <4>1. SpendOf(k) # SpendOf(j)
        BY <1>1, <1>6, <3>4 DEF JobIds, ChainOf, SpendOf
      <4>2. spend'[ChainOf(k)].kind = SpendOf(j)
        BY <1>6, <2>5, <3>4
      <4> QED
        BY <4>1, <4>2 DEF Knows
    <3>5. CASE ChainOf(k) # c
      <4>1. Knows(k)
        BY DEF WholeInv, SentInv
      <4>2. spend'[ChainOf(k)] = spend[ChainOf(k)]
        BY <2>5, <3>1, <3>5
      <4> QED
        BY <1>2, <4>1, <4>2 DEF Knows, Dearest
    <3> QED
      BY <1>1, <3>2, <3>3, <3>4, <3>5
  <2>7. SentInv'
    BY <2>6 DEF SentInv
  <2>8. SpendOf(j) \in {"redeem", "refund"} /\ (SpendOf(j) = "redeem" => revealed)
    <3>1. j = "btc_redeem" => revealed
      BY <1>7 DEF WholeInv, LegsInv
    <3>2. j = "xbt_waiting" => revealed
      BY <1>1, <1>2 DEF WholeInv, LegsInv
    <3> QED
      BY <1>6, <3>1, <3>2 DEF SpendOf, JobIds
  <2>9. tower'.pc # "send"
    BY <1>10, <2>2, <2>3
  <2>10. Committed' = Committed
    BY <1>2 DEF Committed
  <2>11. ~(c = "xbt" /\ RedeemComing)
    BY <1>1, <1>2, <1>9 DEF RedeemComing, Ahead, ChainOf
  <2>12. revealed => fund["btc"] = "deep"
    BY DEF WholeInv, LegsInv
  <2> QED
    BY <1>2, <1>5, <1>6, <1>8, <1>12, <2>1, <2>4, <2>7, <2>8, <2>9, <2>10, <2>11, <2>12, SpendWhole
<1>13. CASE ~Takes(c, SpendOf(j), fee)
  <2>1. spend' = spend /\ tower' = NextJob
    BY <1>3, <1>13
  <2>2. ASSUME Confirmed(c), ~spend[c].mined, SpendOf(j) = "refund" => now >= Lock(c)
        PROVE  Minable(c)
    <3>1. spend[c] # NoSpend /\ ~(fee > spend[c].fee)
      BY <1>13, <2>2 DEF Takes, Confirmed
    <3>2. spend[c].fee \in Nat
      <4>1. spend[c] \in SpendState
        BY <1>4, <1>6
      <4>2. spend[c].fee \in Fees \cup {0}
        BY <4>1 DEF SpendState
      <4>3. \A f \in Fees : f \in Nat
        BY <1>4
      <4> QED
        BY <4>2, <4>3
    <3>3. spend[c].fee >= rate
      BY <1>5, <3>1, <3>2
    <3> QED
      BY <2>2, <3>1, <3>3 DEF Minable
  <2>3. ASSUME NEW k, k # j, Ahead(k) PROVE Ahead(k)'
    BY <1>2, <1>10, <2>1, <2>3 DEF Ahead
  <2>4. ASSUME Committed, RedeemDue, RedeemComing PROVE Minable("btc")
    <3>1. j = "btc_redeem" /\ c = "btc" /\ SpendOf(j) = "redeem"
      BY <1>1, <1>2, <1>9, <2>4 DEF RedeemComing, Ahead, ChainOf, SpendOf
    <3>2. Confirmed("btc") /\ ~spend["btc"].mined
      BY <2>4 DEF Committed, RedeemDue, WholeInv, LegsInv, Confirmed
    <3> QED
      BY <2>2, <3>1, <3>2
  <2>5. ASSUME Handed, ~Resolved, now <= BtcLock + 1 + Upsets, j = "xbt_waiting" PROVE Minable("xbt")
    <3>1. c = "xbt" /\ SpendOf(j) = "redeem"
      BY <1>1, <2>5 DEF ChainOf, SpendOf
    <3>2. Confirmed("xbt")
      BY <2>5 DEF Handed, IInv, XbtInv, Confirmed
    <3>3. ~spend["xbt"].mined
      BY <2>5, XbtRedeemed DEF WholeInv, NoSpend
    <3> QED
      BY <2>2, <3>1, <3>2, <3>3
  <2>6. ASSUME Handed, ~Resolved, SettleDue, now = BtcLock + Upsets, SettleComing
        PROVE  Minable("btc") \/ Minable("xbt") \/ SettleComing'
    <3>1. CASE j = "btc_refund"
      <4>1. c = "btc" /\ SpendOf(j) = "refund" /\ Lock(c) = BtcLock
        BY <1>1, <3>1 DEF ChainOf, SpendOf, Lock
      <4>2. now >= BtcLock /\ now > FundLatest
        BY <1>4, <2>6 DEF EnoughTime
      <4>3. Confirmed("btc") /\ ~spend["btc"].mined
        BY <2>6, <4>2 DEF SettleDue, Handed, WholeInv, LegsInv
      <4> QED
        BY <2>2, <4>1, <4>2, <4>3
    <3>2. CASE j = "xbt_waiting"
      BY <2>5, <2>6, <3>2, SettleClock
    <3>3. CASE j # "btc_refund" /\ j # "xbt_waiting"
      <4>1. Ahead("xbt_waiting")' /\ ~tower'.fresh /\ tower'.pc # "store"
        BY <1>10, <2>1, <2>3, <2>6, <3>3 DEF SettleComing
      <4>2. Ahead("btc_refund")' \/ (PreimageSeen' /\ ~jobs'["btc_refund"].sent)
        BY <1>2, <2>1, <2>3, <2>6, <3>3 DEF SettleComing, PreimageSeen
      <4> QED
        BY <4>1, <4>2 DEF SettleComing
    <3> QED
      BY <3>1, <3>2, <3>3
  <2>7. ASSUME Handed, ~Resolved, ClaimDue, now = BtcLock + 1 + Upsets, ~tower.fresh, Ahead("xbt_waiting")
        PROVE  Minable("xbt") \/ (~tower'.fresh /\ Ahead("xbt_waiting")')
    BY <1>10, <2>1, <2>3, <2>5, <2>7 DEF ClaimDue
  <2>8. PassInv' /\ tower'.pc = "jobs"
    BY <1>10, <1>11, <2>1
  <2>9. SentInv'
    BY <1>2, <2>1, KnowsKept DEF WholeInv
  <2> QED
    BY <1>2, <1>8, <2>1, <2>4, <2>6, <2>7, <2>8, <2>9, PassWhole
<1> QED
  BY <1>12, <1>13

\* A phone's refund (refundIfDue) below the going rate replaces nothing that can be mined.
LEMMA CheapRefundWhole ==
    ASSUME IInv, EnoughTime, WholeInv, NEW c \in Chains, NEW fee \in Fees, ~(fee >= rate),
           Takes(c, "refund", fee), spend' = Spent(c, "refund", fee), Upsets' = Upsets, SentInv',
           UNCHANGED <<now, fund, rate, jobs, recorded, lost, revealed, honest, tower>>
    PROVE  WholeInv'
<1>1. /\ now \in Nat /\ rate \in Nat /\ fee \in Nat /\ BtcLock \in Nat /\ XbtLock \in Nat
      /\ spend \in [Chains -> SpendState] /\ "btc" \in Chains /\ "xbt" \in Chains
      /\ BtcLock - RedeemMargin + Upsets < BtcLock /\ BtcLock + 1 + Upsets < XbtLock
      /\ RedeemMargin \in Nat /\ Upsets \in Nat
  BY WholeTypes
<1>2. PICK s : s = [kind |-> "refund", fee |-> fee, mined |-> FALSE]
  OBVIOUS
<1>3. s.kind = "refund" /\ s.fee = fee /\ ~s.mined /\ s # NoSpend
  BY <1>2 DEF NoSpend
<1>4. \A d \in Chains : spend'[d] = IF d = c THEN s ELSE spend[d]
  BY <1>1, <1>2 DEF Spent
<1>5. ~spend[c].mined /\ now >= Lock(c)
  BY DEF Takes, NoSpend
<1>6. ~Minable(c)
  <2>1. spend[c] # NoSpend => fee > spend[c].fee
    BY DEF Takes
  <2>2. spend[c].fee \in Nat
    <3>1. spend[c].fee \in Fees \cup {0}
      BY <1>1 DEF SpendState
    <3> QED
      BY <3>1, WholeTypes
  <2>3. spend[c] # NoSpend => ~(spend[c].fee >= rate)
    BY <1>1, <2>1, <2>2
  <2> QED
    BY <2>3 DEF Minable
<1>7. PassInv'
  BY DEF WholeInv, PassInv, Job
<1>8. LegsInv'
  <2>1. \A d \in Chains : spend'[d] # NoSpend => spend'[d].kind \in {"redeem", "refund"}
    BY <1>3, <1>4 DEF WholeInv, LegsInv
  <2>2. \A d \in Chains : spend'[d].kind = "refund" => now >= Lock(d)
    BY <1>3, <1>4, <1>5 DEF WholeInv, LegsInv
  <2>3. \A d \in Chains : spend'[d].kind = "redeem" => revealed'
    BY <1>3, <1>4 DEF WholeInv, LegsInv
  <2> QED
    BY <2>1, <2>2, <2>3 DEF WholeInv, LegsInv, Lock, Confirmed, Job
<1>9. /\ Committed' = Committed /\ Handed' = Handed /\ \A k : Ahead(k)' = Ahead(k)
      /\ RedeemComing' = RedeemComing
  BY DEF Committed, Handed, Ahead, Job, RedeemComing
<1>10. now > FundLatest /\ fund'["btc"] # "absent" => Handed' \/ lost'["participant"]
  BY DEF WholeInv, ParticipantInv, Handed
<1>11. CASE c = "btc"
  <2>1. now >= BtcLock /\ spend'["btc"] = s /\ spend'["xbt"] = spend["xbt"]
    BY <1>1, <1>4, <1>5, <1>11 DEF Lock
  <2>2. ~Committed
    BY <1>1, <1>5, <1>11, <2>1 DEF WholeInv, InitiatorInv, RedeemDue
  <2>3. ASSUME Handed, Resolved PROVE Resolved'
    BY <1>5, <1>11, <2>1, <2>3 DEF Resolved
  <2>4. ASSUME Handed, SettleDue PROVE SettleDue'
    <3>1. Minable("xbt") => Minable("xbt")'
      BY <2>1, MinableKept DEF Confirmed
    <3>2. ASSUME SettleComing PROVE SettleComing'
      <4>1. CASE Ahead("btc_refund")
        BY <1>9, <3>2, <4>1 DEF SettleComing
      <4>2. CASE ~jobs["btc_refund"].sent /\ ~(tower.pc = "store" /\ Job = "btc_refund")
        <5>1. Knows("btc_refund")'
          BY DEF SentInv
        <5>2. ChainOf("btc_refund") = "btc" /\ SpendOf("btc_refund") = "refund"
          BY DEF ChainOf, SpendOf
        <5>3. Dearest(fee)
          BY <1>3, <2>1, <4>2, <5>1, <5>2 DEF Knows, Dearest, Job
        <5>4. rate <= fee
          BY <5>3, WholeTypes DEF Dearest
        <5> QED
          BY <1>1, <5>4
      <4> QED
        BY <3>2, <4>1, <4>2 DEF SettleComing
    <3> QED
      BY <1>3, <1>6, <1>11, <2>1, <2>4, <3>1, <3>2 DEF SettleDue
  <2>5. ~ClaimDue
    BY <1>5, <1>11 DEF ClaimDue
  <2>6. InitiatorInv' /\ ParticipantInv'
    BY <1>9, <1>10, <2>2, <2>3, <2>4, <2>5 DEF WholeInv, InitiatorInv, ParticipantInv
  <2> QED
    BY <1>7, <1>8, <2>6 DEF WholeInv
<1>12. CASE c = "xbt"
  <2>1. now >= XbtLock /\ spend'["btc"] = spend["btc"] /\ ~spend["xbt"].mined
    BY <1>1, <1>4, <1>5, <1>12 DEF Lock
  <2>2. InitiatorInv'
    BY <1>9, <2>1, InitiatorSame DEF WholeInv, Confirmed
  <2>3. ~SettleDue /\ ~ClaimDue
    BY <1>1, <2>1, SettleClock DEF ClaimDue
  <2>4. Resolved => Resolved'
    BY <2>1 DEF Resolved
  <2>5. ParticipantInv'
    BY <1>9, <1>10, <2>3, <2>4 DEF WholeInv, ParticipantInv
  <2> QED
    BY <1>7, <1>8, <2>2, <2>5 DEF WholeInv
<1> QED
  BY <1>11, <1>12 DEF Chains

\* A phone's own spend: a redeem at the going rate (participantRedeem, bumpRedeem), or a refund.
LEMMA PhoneSpendWhole ==
    ASSUME IInv, EnoughTime, WholeInv, SentInv', NEW c \in Chains, NEW kind \in {"redeem", "refund"},
           NEW fee \in Fees, PhoneSpend(c, kind, fee)
    PROVE  WholeInv'
<1>1. /\ Takes(c, kind, fee) /\ spend' = Spent(c, kind, fee)
      /\ kind = "redeem" => revealed /\ fee >= rate
      /\ UNCHANGED <<now, fund, rate, jobs, recorded, lost, revealed, honest, tower, budget>>
  BY DEF PhoneSpend, phoneVars
<1>2. Committed' = Committed /\ Upsets' = Upsets
  BY <1>1 DEF Committed, Upsets
<1>3. CASE ~(fee >= rate)
  <2>1. kind = "refund"
    BY <1>1, <1>3
  <2> QED
    BY <1>1, <1>2, <1>3, <2>1, CheapRefundWhole
<1>4. CASE fee >= rate
  <2>1. PassInv'
    BY <1>1 DEF WholeInv, PassInv, Job
  <2>2. RedeemComing => RedeemComing'
    BY <1>1 DEF RedeemComing, Ahead, Job
  <2>3. revealed => fund["btc"] = "deep"
    BY DEF WholeInv, LegsInv
  <2>4. tower'.pc = "send" /\ Job' = "xbt_waiting" => revealed
    BY <1>1 DEF WholeInv, LegsInv, Job
  <2> QED
    BY <1>1, <1>2, <1>4, <2>1, <2>2, <2>3, <2>4, SpendWhole
<1> QED
  BY <1>3, <1>4

\* initiatorRedeem makes the preimage public: an initiator that keeps the margin has time left.
LEMMA PhoneRedeemWhole ==
    ASSUME IInv, EnoughTime, WholeInv, NEW fee \in Fees, PhoneRedeem(fee)
    PROVE  WholeInv'
<1>1. /\ fund["btc"] = "deep" /\ spend["btc"] = NoSpend
      /\ honest => InMargin /\ fee = rate
      /\ spend' = Spent("btc", "redeem", fee) /\ revealed'
      /\ UNCHANGED <<now, fund, rate, jobs, recorded, lost, honest, tower, budget>>
  BY DEF PhoneRedeem, TxOut
<1>2. \A d \in Chains : spend'[d] = IF d = "btc" THEN [kind |-> "redeem", fee |-> fee, mined |-> FALSE]
                                    ELSE spend[d]
  BY <1>1, WholeTypes DEF Spent
<1>3. /\ "btc" \in Chains /\ "xbt" \in Chains
      /\ spend'["btc"] # NoSpend /\ spend'["btc"].kind = "redeem" /\ spend'["btc"].fee = fee
      /\ ~spend'["btc"].mined /\ ~spend["btc"].mined
      /\ spend'["xbt"] = spend["xbt"]
  BY <1>1, <1>2, WholeTypes DEF NoSpend
<1>4. PassInv'
  BY <1>1 DEF WholeInv, PassInv, Job
<1>5. LegsInv'
  <2>1. \A d \in Chains : d = "btc" \/ d = "xbt"
    BY DEF Chains
  <2>2. \A d \in Chains : spend'[d] # NoSpend => spend'[d].kind \in {"redeem", "refund"}
    BY <1>3, <2>1 DEF WholeInv, LegsInv
  <2>3. \A d \in Chains : spend'[d].kind = "refund" => now >= Lock(d)
    BY <1>3, <2>1 DEF WholeInv, LegsInv
  <2> QED
    BY <1>1, <2>2, <2>3 DEF WholeInv, LegsInv, Lock, Confirmed
<1>6. SentInv'
  <2>1. Knows("btc_refund")'
    BY <1>3 DEF Knows, ChainOf, SpendOf
  <2>2. Knows("xbt_waiting")'
    <3>1. ChainOf("xbt_waiting") = "xbt" /\ Knows("xbt_waiting")
      BY DEF ChainOf, WholeInv, SentInv
    <3> QED
      BY <1>1, <1>3, <3>1 DEF Knows, Dearest, Job
  <2> QED
    BY <2>1, <2>2 DEF SentInv
<1>7. Upsets' = Upsets
  BY <1>1 DEF Upsets
<1>8. InitiatorInv'
  <2> SUFFICES ASSUME Committed' PROVE RedeemDue'
    BY DEF InitiatorInv
  <2>1. InMargin /\ fee = rate
    BY <1>1 DEF Committed
  <2>2. Minable("btc")'
    <3>1. rate \in Nat
      BY WholeTypes
    <3> QED
      BY <1>1, <1>3, <2>1, <3>1 DEF Minable, Confirmed
  <2>3. now <= BtcLock - RedeemMargin + Upsets
    BY <2>1, WholeTypes DEF InMargin
  <2> QED
    BY <1>1, <1>3, <1>7, <2>2, <2>3 DEF RedeemDue
<1>9. ParticipantInv'
  <2>1. now > FundLatest /\ fund'["btc"] # "absent" => Handed' \/ lost'["participant"]
    BY <1>1 DEF WholeInv, ParticipantInv, Handed
  <2> SUFFICES ASSUME Handed PROVE Resolved' \/ SettleDue' \/ ClaimDue'
    BY <1>1, <2>1 DEF ParticipantInv, Handed
  <2>2. Resolved \/ SettleDue
    BY <1>3 DEF WholeInv, ParticipantInv, ClaimDue
  <2>3. ASSUME Resolved PROVE Resolved'
    BY <1>3, <2>3 DEF Resolved
  <2>4. Minable("xbt") => Minable("xbt")'
    BY <1>1, <1>3, MinableKept DEF Confirmed
  <2>5. SettleComing => SettleComing'
    <3>1. ~PreimageSeen
      BY <1>1 DEF PreimageSeen, NoSpend
    <3> QED
      BY <1>1, <3>1 DEF SettleComing, Ahead, Job
  <2>6. ~Minable("btc")
    BY <1>1 DEF Minable
  <2>7. ASSUME SettleDue PROVE SettleDue'
    BY <1>1, <1>3, <1>7, <2>4, <2>5, <2>6, <2>7 DEF SettleDue
  <2> QED
    BY <2>2, <2>3, <2>7
<1> QED
  BY <1>4, <1>5, <1>6, <1>8, <1>9 DEF WholeInv

\* A mempool drops a spend: a unit of time is bought.
LEMMA EvictSpendWhole ==
    ASSUME IInv, EnoughTime, WholeInv, NEW c \in Chains, EvictSpend(c)
    PROVE  WholeInv'
<1>1. /\ budget' = [budget EXCEPT !.evictions = budget.evictions + 1]
      /\ ~spend[c].mined /\ spend' = [spend EXCEPT ![c] = NoSpend]
      /\ UNCHANGED <<now, fund, rate, jobs, recorded, lost, revealed, honest, tower>>
  BY DEF EvictSpend, Evicts, phoneVars
<1>2. \A d \in Chains : spend'[d] = IF d = c THEN NoSpend ELSE spend[d]
  BY <1>1, WholeTypes
<1>3. NoSpend.kind = "none" /\ ~NoSpend.mined
  BY DEF NoSpend
<1>4. PassInv'
  BY <1>1 DEF WholeInv, PassInv, Job
<1>5. LegsInv'
  BY <1>1, <1>2, <1>3 DEF WholeInv, LegsInv, Lock, Confirmed, Job
<1>6. ASSUME NEW k \in {"btc_refund", "xbt_waiting"} PROVE Knows(k)'
  <2>1. ChainOf(k) \in Chains /\ SpendOf(k) # "none" /\ Knows(k)
    BY DEF ChainOf, SpendOf, Chains, WholeInv, SentInv
  <2> QED
    BY <1>1, <1>2, <1>3, <2>1 DEF Knows, Dearest, Job
<1>7. SentInv'
  BY <1>6 DEF SentInv
<1>8. Upsets' = Upsets + 1
  <2>1. budget \in [rates : 0..MaxRates, evictions : 0..MaxEvictions, faults : 0..MaxFaults]
    BY DEF IInv, Shape, TypeOK
  <2>2. budget.rates \in Nat /\ budget.evictions \in Nat
    BY <2>1, WatchtowerConstants
  <2>3. budget'.rates = budget.rates /\ budget'.evictions = budget.evictions + 1
    BY <1>1, <2>1
  <2> QED
    BY <2>2, <2>3 DEF Upsets
<1>9. \A d \in Chains : spend'[d] = spend[d] \/ (~spend[d].mined /\ ~spend'[d].mined)
  BY <1>1, <1>2, <1>3
<1>10. InitiatorInv' /\ ParticipantInv'
  BY <1>1, <1>8, <1>9, UpsetKeeps
<1> QED
  BY <1>4, <1>5, <1>7, <1>10 DEF WholeInv

\* The market's rate moves: a unit of time is bought.
LEMMA RateMovesWhole ==
    ASSUME IInv, EnoughTime, WholeInv, RateMoves
    PROVE  WholeInv'
<1>1. /\ budget' = [budget EXCEPT !.rates = budget.rates + 1]
      /\ UNCHANGED <<now, fund, spend, jobs, recorded, lost, revealed, honest, tower>>
  BY DEF RateMoves, chainVars, phoneVars
<1>2. PassInv' /\ LegsInv' /\ SentInv'
  BY <1>1 DEF WholeInv, PassInv, LegsInv, SentInv, Knows, Dearest, Lock, Confirmed, Job
<1>3. Upsets' = Upsets + 1
  <2>1. budget \in [rates : 0..MaxRates, evictions : 0..MaxEvictions, faults : 0..MaxFaults]
    BY DEF IInv, Shape, TypeOK
  <2>2. budget.rates \in Nat /\ budget.evictions \in Nat
    BY <2>1, WatchtowerConstants
  <2>3. budget'.evictions = budget.evictions /\ budget'.rates = budget.rates + 1
    BY <1>1, <2>1
  <2> QED
    BY <2>2, <2>3 DEF Upsets
<1>4. InitiatorInv' /\ ParticipantInv'
  BY <1>1, <1>3, UpsetKeeps
<1> QED
  BY <1>2, <1>4 DEF WholeInv

\* A spend is mined: an initiator's redeem if one was due; of a participant's legs, its
\* refund or its redeem, or the counterparty's redeem, one unit of time before the claim is.
LEMMA MineSpendWhole ==
    ASSUME IInv, EnoughTime, WholeInv, NEW c \in Chains, MineSpend(c)
    PROVE  WholeInv'
<1>1. /\ Minable(c) /\ spend' = [spend EXCEPT ![c].mined = TRUE]
      /\ UNCHANGED <<now, fund, rate, jobs, recorded, lost, revealed, honest, tower, budget>>
  BY DEF MineSpend, phoneVars
<1>2. /\ spend[c] # NoSpend /\ ~spend[c].mined /\ spend \in [Chains -> SpendState]
      /\ "btc" \in Chains /\ "xbt" \in Chains
  BY <1>1, WholeTypes DEF Minable, WholeInv, LegsInv
<1>3. PICK s : s = [spend[c] EXCEPT !.mined = TRUE]
  OBVIOUS
<1>4. s.kind = spend[c].kind /\ s.fee = spend[c].fee /\ s.mined
  BY <1>2, <1>3 DEF SpendState
<1>5. \A d \in Chains : spend'[d] = IF d = c THEN s ELSE spend[d]
  BY <1>1, <1>2, <1>3
<1>6. PassInv'
  BY <1>1 DEF WholeInv, PassInv, Job
<1>7. LegsInv'
  <2>1. \A d \in Chains : spend'[d].kind = spend[d].kind /\ (spend'[d] # NoSpend => spend[d] # NoSpend)
    BY <1>2, <1>4, <1>5
  <2> QED
    BY <1>1, <2>1 DEF WholeInv, LegsInv, Lock, Confirmed, Job
<1>8. ASSUME NEW k \in {"btc_refund", "xbt_waiting"} PROVE Knows(k)'
  <2>1. ChainOf(k) \in Chains /\ Knows(k)
    BY DEF ChainOf, Chains, WholeInv, SentInv
  <2> QED
    BY <1>1, <1>4, <1>5, <2>1 DEF Knows, Dearest, Job
<1>9. SentInv'
  BY <1>8 DEF SentInv
<1>10. Upsets' = Upsets /\ Committed' = Committed /\ Handed' = Handed
  BY <1>1 DEF Upsets, Committed, Handed
<1>11. CASE c = "btc"
  <2>1. spend'["btc"].mined /\ spend'["btc"].kind = spend["btc"].kind /\ spend'["xbt"] = spend["xbt"]
    BY <1>2, <1>4, <1>5, <1>11
  <2>2. InitiatorInv'
    BY <1>2, <1>10, <1>11, <2>1, BtcRedeemed DEF WholeInv, InitiatorInv
  <2>3. ASSUME Handed PROVE Resolved' \/ ClaimDue'
    <3>1. Resolved \/ SettleDue
      BY <1>2, <1>11, <2>3 DEF WholeInv, ParticipantInv, ClaimDue
    <3>2. ASSUME Resolved PROVE Resolved'
      BY <2>1, <3>2 DEF Resolved
    <3>3. ASSUME SettleDue PROVE ClaimDue'
      <4>1. now <= BtcLock + Upsets
        BY <3>3 DEF SettleDue
      <4>2. now <= BtcLock + 1 + Upsets /\ now # BtcLock + 1 + Upsets
        BY <4>1, WholeTypes
      <4> QED
        BY <1>1, <1>10, <2>1, <4>2 DEF ClaimDue
    <3> QED
      BY <3>1, <3>2, <3>3
  <2>4. ParticipantInv'
    BY <1>1, <1>10, <2>3 DEF WholeInv, ParticipantInv
  <2> QED
    BY <1>6, <1>7, <1>9, <2>2, <2>4 DEF WholeInv
<1>12. CASE c = "xbt"
  <2>1. /\ spend'["btc"] = spend["btc"]
        /\ spend'["xbt"].mined /\ spend'["xbt"].kind = spend["xbt"].kind /\ spend["xbt"] # NoSpend
    BY <1>2, <1>4, <1>5, <1>12
  <2>2. InitiatorInv'
    <3>1. RedeemComing => RedeemComing'
      BY <1>1 DEF RedeemComing, Ahead, Job
    <3> QED
      BY <1>1, <1>10, <2>1, <3>1, InitiatorSame DEF WholeInv, Confirmed
  <2>3. ASSUME Handed PROVE Resolved'
    <3>1. Resolved \/ SettleDue \/ ClaimDue
      BY <2>3 DEF WholeInv, ParticipantInv
    <3>2. ASSUME Resolved PROVE Resolved'
      BY <1>2, <1>12, <2>1, <3>2 DEF Resolved
    <3>3. ASSUME now <= BtcLock + 1 + Upsets PROVE Resolved'
      BY <2>1, <3>3, XbtRedeemed DEF WholeInv, Resolved
    <3> QED
      BY <3>1, <3>2, <3>3, SettleClock DEF ClaimDue
  <2>4. ParticipantInv'
    BY <1>1, <1>10, <2>3 DEF WholeInv, ParticipantInv
  <2> QED
    BY <1>6, <1>7, <1>9, <2>2, <2>4 DEF WholeInv
<1> QED
  BY <1>11, <1>12 DEF Chains

\* The XBT funding is sent again, or dropped by the mempools (an upset): only before the BTC one.
LEMMA XbtFundWhole ==
    ASSUME IInv, EnoughTime, WholeInv, fund["btc"] = "absent", fund'["btc"] = "absent",
           UNCHANGED <<now, rate, jobs, recorded, lost, revealed, honest, tower>>,
           Upsets' = Upsets \/ Upsets' = Upsets + 1,
           \A c \in Chains : spend'[c] = spend[c] \/ spend'[c] = NoSpend
    PROVE  WholeInv'
<1>1. ~revealed
  BY DEF WholeInv, LegsInv
<1>2. PassInv'
  BY DEF WholeInv, PassInv, Job
<1>3. NoSpend.kind = "none" /\ ~NoSpend.mined
  BY DEF NoSpend
<1>4. LegsInv'
  BY <1>1, <1>3 DEF WholeInv, LegsInv, Lock, Job
<1>5. ASSUME NEW k \in {"btc_refund", "xbt_waiting"} PROVE Knows(k)'
  <2>1. ChainOf(k) \in Chains /\ SpendOf(k) # "none" /\ Knows(k)
    BY DEF ChainOf, SpendOf, Chains, WholeInv, SentInv
  <2> QED
    BY <1>3, <2>1 DEF Knows, Dearest, Job
<1>6. SentInv'
  BY <1>5 DEF SentInv
<1>7. InitiatorInv' /\ ParticipantInv'
  BY <1>1 DEF InitiatorInv, Committed, ParticipantInv, Handed
<1> QED
  BY <1>2, <1>4, <1>6, <1>7 DEF WholeInv

\* A funding is broadcast: the initiator's again, before any of BTC.
LEMMA FundWhole ==
    ASSUME IInv, EnoughTime, WholeInv, NEW r \in Roles, Fund(r)
    PROVE  WholeInv'
<1>1. CASE r = "initiator"
  <2>1. /\ fund["xbt"] = "absent" /\ fund' = [fund EXCEPT !["xbt"] = "mempool"]
        /\ UNCHANGED <<now, spend, rate, jobs, recorded, lost, revealed, honest, tower, budget>>
    BY <1>1 DEF Fund, phoneVars
  <2>2. fund["btc"] = "absent" /\ fund'["btc"] = "absent"
    BY <2>1 DEF IInv, XbtInv, Shape, TypeOK, Chains
  <2>3. Upsets' = Upsets
    BY <2>1 DEF Upsets
  <2> QED
    BY <2>1, <2>2, <2>3, XbtFundWhole
<1>2. CASE r = "participant"
  <2>1. /\ fund["btc"] = "absent" /\ now <= FundLatest /\ fund' = [fund EXCEPT !["btc"] = "mempool"]
        /\ UNCHANGED <<now, spend, rate, jobs, recorded, lost, revealed, honest, tower, budget>>
    BY <1>2 DEF Fund, phoneVars
  <2>2. ~revealed
    BY <2>1 DEF WholeInv, LegsInv
  <2>3. now \in Nat /\ FundLatest \in Nat /\ Upsets \in Nat
    BY WholeTypes
  <2>4. PassInv' /\ SentInv'
    BY <2>1 DEF WholeInv, PassInv, SentInv, Knows, Dearest, Job
  <2>5. LegsInv'
    BY <2>1, <2>2, <2>3 DEF WholeInv, LegsInv, Lock, Job
  <2>6. InitiatorInv'
    BY <2>1, <2>2 DEF InitiatorInv, Committed
  <2>7. Upsets' = Upsets
    BY <2>1 DEF Upsets
  <2>8. SettleDue' \/ ClaimDue'
    BY <2>1, <2>3, <2>7, EarlyHanded
  <2>9. ParticipantInv'
    BY <2>1, <2>3, <2>8 DEF ParticipantInv
  <2> QED
    BY <2>4, <2>5, <2>6, <2>9 DEF WholeInv
<1> QED
  BY <1>1, <1>2 DEF Roles

\* A mempool drops a funding: the XBT one, and before the BTC one was sent.
LEMMA EvictFundWhole ==
    ASSUME IInv, EnoughTime, WholeInv, NEW c \in Chains, EvictFund(c)
    PROVE  WholeInv'
<1>1. /\ c \in EvictableFunding /\ fund[c] = "mempool"
      /\ budget' = [budget EXCEPT !.evictions = budget.evictions + 1]
      /\ fund' = [fund EXCEPT ![c] = "absent"] /\ spend' = [spend EXCEPT ![c] = NoSpend]
      /\ UNCHANGED <<now, rate, jobs, recorded, lost, revealed, honest, tower>>
  BY DEF EvictFund, Evicts, phoneVars
<1>2. c = "xbt"
  BY <1>1 DEF EnoughTime, Chains
<1>3. fund["btc"] = "absent" /\ fund'["btc"] = "absent"
  BY <1>1, <1>2 DEF IInv, XbtInv, Shape, TypeOK, Chains
<1>4. \A d \in Chains : spend'[d] = spend[d] \/ spend'[d] = NoSpend
  BY <1>1, WholeTypes
<1>5. Upsets' = Upsets + 1
  <2>1. budget \in [rates : 0..MaxRates, evictions : 0..MaxEvictions, faults : 0..MaxFaults]
    BY DEF IInv, Shape, TypeOK
  <2>2. budget.rates \in Nat /\ budget.evictions \in Nat
    BY <2>1, WatchtowerConstants
  <2>3. budget'.rates = budget.rates /\ budget'.evictions = budget.evictions + 1
    BY <1>1, <2>1
  <2> QED
    BY <2>2, <2>3 DEF Upsets
<1> QED
  BY <1>1, <1>3, <1>4, <1>5, XbtFundWhole

\* A funding is mined or buried.
LEMMA MineFundWhole ==
    ASSUME IInv, EnoughTime, WholeInv, NEW c \in Chains, MineFund(c)
    PROVE  WholeInv'
<1>1. /\ fund[c] \in {"mempool", "mined"}
      /\ fund' = [fund EXCEPT ![c] = IF fund[c] = "mempool" THEN "mined" ELSE "deep"]
      /\ UNCHANGED <<now, spend, rate, jobs, recorded, lost, revealed, honest, tower, budget>>
  BY DEF MineFund, phoneVars
<1>2. fund \in [Chains -> {"absent", "mempool", "mined", "deep"}] /\ "btc" \in Chains /\ "xbt" \in Chains
  BY DEF IInv, Shape, TypeOK, Chains
<1>3. \A d \in Chains : /\ Confirmed(d) => Confirmed(d)'
                        /\ fund'[d] = "absent" <=> fund[d] = "absent"
                        /\ fund[d] = "deep" => fund'[d] = "deep"
  BY <1>1, <1>2 DEF Confirmed
<1>4. PassInv' /\ SentInv'
  BY <1>1 DEF WholeInv, PassInv, SentInv, Knows, Dearest, Job
<1>5. LegsInv'
  BY <1>1, <1>2, <1>3 DEF WholeInv, LegsInv, Lock, Job
<1>6. Upsets' = Upsets /\ Committed' = Committed
  BY <1>1 DEF Upsets, Committed
<1>7. Handed' = Handed
  BY <1>1, <1>2, <1>3 DEF Handed
<1>8. (RedeemComing => RedeemComing') /\ (SettleComing => SettleComing')
      /\ Ahead("xbt_waiting")' = Ahead("xbt_waiting")
  BY <1>1 DEF RedeemComing, SettleComing, PreimageSeen, Ahead, Job
<1>9. InitiatorInv'
  BY <1>1, <1>2, <1>3, <1>6, <1>8, InitiatorSame DEF WholeInv
<1>10. now > FundLatest /\ fund'["btc"] # "absent" => Handed' \/ lost'["participant"]
  BY <1>1, <1>2, <1>3, <1>7 DEF WholeInv, ParticipantInv
<1>11. ParticipantInv'
  BY <1>1, <1>2, <1>3, <1>6, <1>7, <1>8, <1>10, ParticipantSame DEF WholeInv
<1> QED
  BY <1>4, <1>5, <1>9, <1>11 DEF WholeInv

\* A phone hands a spend over (afterFunding): in time, for one that ran on is done before.
LEMMA PostJobWhole ==
    ASSUME IInv, EnoughTime, WholeInv, NEW j \in JobIds, PostJob(j)
    PROVE  WholeInv'
<1>1. /\ ~jobs[j].stored /\ jobs' = [jobs EXCEPT ![j] = NewJob]
      /\ recorded' = (recorded \/ j = "btc_refund")
      /\ j = "btc_redeem" => ~lost["initiator"] /\ revealed
      /\ j \in {"btc_refund", "xbt_waiting"} => ~lost["participant"]
      /\ UNCHANGED <<now, fund, spend, rate, lost, revealed, honest, tower, budget>>
  BY DEF PostJob, JobIds, chainVars
<1>2. /\ jobs \in [JobIds -> WatchJob] /\ tower.left \in SUBSET JobIds /\ now \in Nat /\ FundLatest \in Nat
      /\ "btc_redeem" \in JobIds /\ "btc_refund" \in JobIds /\ "xbt_waiting" \in JobIds
  BY WholeTypes DEF JobIds
<1>3. NewJob.stored /\ ~NewJob.sent
  BY DEF NewJob, NoJob
<1>4. \A k \in JobIds : jobs'[k] = IF k = j THEN NewJob ELSE jobs[k]
  BY <1>1, <1>2
<1>5. \A k \in JobIds : (jobs[k].stored => jobs'[k] = jobs[k]) /\ (jobs[k].sent => jobs'[k] = jobs[k])
  BY <1>1, <1>4 DEF WholeInv, PassInv
<1>6. PassInv'
  <2>1. \A k \in tower.left : jobs'[k].stored /\ tower.snap[k] = jobs'[k]
    BY <1>2, <1>5 DEF WholeInv, PassInv
  <2>2. \A k \in JobIds : jobs'[k].sent => jobs'[k].stored
    BY <1>3, <1>4 DEF WholeInv, PassInv
  <2>3. tower.pc = "store" => jobs'[Job] = jobs[Job]
    <3> SUFFICES ASSUME tower.pc = "store" PROVE jobs'[Job] = jobs[Job]
      OBVIOUS
    <3>1. Job \in tower.left /\ Job \in JobIds
      BY <1>2, JobAtHand DEF Job, IInv, Shape
    <3> QED
      BY <1>5, <3>1 DEF WholeInv, PassInv
  <2>4. Job' = Job
    BY <1>1 DEF Job
  <2> QED
    BY <1>1, <2>1, <2>2, <2>3, <2>4 DEF WholeInv, PassInv
<1>7. LegsInv'
  <2>1. jobs'["btc_redeem"].stored => revealed
    BY <1>1, <1>2, <1>4 DEF WholeInv, LegsInv
  <2> QED
    BY <1>1, <2>1 DEF WholeInv, LegsInv, Lock, Confirmed, Job
<1>8. SentInv'
  BY <1>1, <1>2, <1>5 DEF WholeInv, SentInv, Knows, Dearest, Job
<1>9. Upsets' = Upsets
  BY <1>1 DEF Upsets
<1>10. Committed' => Committed
  BY <1>1, <1>2, <1>4 DEF Committed
<1>11. (RedeemComing => RedeemComing') /\ (SettleComing => SettleComing')
       /\ Ahead("xbt_waiting")' = Ahead("xbt_waiting")
  <2>1. ~jobs["btc_refund"].sent => ~jobs'["btc_refund"].sent
    BY <1>2, <1>3, <1>4
  <2> QED
    BY <1>1, <1>2, <1>5, <2>1 DEF RedeemComing, SettleComing, PreimageSeen, Ahead, Job
<1>12. Handed => Handed'
  BY <1>1, <1>2, <1>5 DEF Handed
<1>13. Handed' => Handed \/ now <= FundLatest
  <2> SUFFICES ASSUME Handed', ~(now <= FundLatest) PROVE Handed
    OBVIOUS
  <2>1. fund["btc"] # "absent" /\ now > FundLatest
    BY <1>1, <1>2 DEF Handed
  <2>2. Handed \/ lost["participant"]
    BY <2>1 DEF WholeInv, ParticipantInv
  <2>3. ASSUME lost["participant"] PROVE Handed
    <3>1. j # "btc_refund" /\ j # "xbt_waiting"
      BY <1>1, <2>3
    <3>2. /\ jobs'["btc_refund"] = jobs["btc_refund"] /\ jobs'["xbt_waiting"] = jobs["xbt_waiting"]
          /\ recorded' = recorded
      BY <1>1, <1>2, <1>4, <3>1 DEF IInv, Shape, TypeOK
    <3> QED
      BY <2>1, <3>2 DEF Handed
  <2> QED
    BY <2>2, <2>3
<1>14. InitiatorInv'
  BY <1>1, <1>9, <1>10, <1>11, InitiatorSame DEF WholeInv, Confirmed
<1>15. now > FundLatest /\ fund'["btc"] # "absent" => Handed' \/ lost'["participant"]
  BY <1>1, <1>12 DEF WholeInv, ParticipantInv
<1>16. ParticipantInv'
  BY <1>1, <1>9, <1>11, <1>13, <1>15, ParticipantSame DEF WholeInv, Confirmed
<1> QED
  BY <1>6, <1>7, <1>8, <1>14, <1>16 DEF WholeInv

\* Time passes once a pass was completed, what can be mined was, and whoever runs handed over:
\* nothing due was left for the last moment.
LEMMA TickWhole ==
    ASSUME IInv, EnoughTime, WholeInv, Tick
    PROVE  WholeInv'
<1>1. /\ tower.pc = "idle" /\ tower.fresh /\ now' = now + 1 /\ tower' = IdleTower
      /\ \A c \in Chains : ~Minable(c)
      /\ fund["btc"] # "mempool"
      /\ \A r \in Roles : lost[r] \/ HandedOver(r)
      /\ UNCHANGED <<fund, spend, rate, jobs, recorded, lost, revealed, honest, budget>>
  BY DEF Tick, chainVars, phoneVars, EnoughTime, Chains
<1>2. /\ now \in Nat /\ BtcLock \in Nat /\ XbtLock \in Nat /\ RedeemMargin \in Nat /\ Upsets \in Nat
      /\ FundLatest \in Nat /\ "btc" \in Chains /\ "xbt" \in Chains
      /\ "initiator" \in Roles /\ "participant" \in Roles
  BY WholeTypes DEF Roles
<1>3. tower'.pc = "idle" /\ ~tower'.fresh /\ tower'.left = {}
  BY <1>1 DEF IdleTower
<1>4. PassInv'
  BY <1>1, <1>3 DEF WholeInv, PassInv
<1>5. fund["btc"] # "absent" => Confirmed("btc")
  <2>1. fund["btc"] \in {"absent", "mempool", "mined", "deep"} /\ fund["btc"] # "mempool"
    BY <1>1, <1>2 DEF IInv, Shape, TypeOK
  <2> QED
    BY <2>1 DEF Confirmed
<1>6. LegsInv'
  <2>1. \A c \in Chains : spend[c].kind = "refund" => now + 1 >= Lock(c)
    <3>1. \A c : Lock(c) \in Nat
      BY <1>2 DEF Lock
    <3> QED
      BY <1>2, <3>1 DEF WholeInv, LegsInv
  <2> QED
    BY <1>1, <1>3, <1>5, <2>1 DEF WholeInv, LegsInv, Lock, Confirmed
<1>7. SentInv'
  BY <1>1, <1>3 DEF WholeInv, SentInv, Knows, Dearest
<1>8. Upsets' = Upsets /\ Committed' = Committed /\ Handed' = Handed /\ Resolved' = Resolved
  BY <1>1 DEF Upsets, Committed, Handed, Resolved
<1>9. \A j : Ahead(j)'
  BY <1>3 DEF Ahead
<1>10. InitiatorInv'
  <2> SUFFICES ASSUME Committed, RedeemDue PROVE RedeemDue'
    BY <1>1, <1>8 DEF WholeInv, InitiatorInv
  <2>1. jobs["btc_redeem"].stored
    BY <1>1, <1>2 DEF Committed, HandedOver
  <2>2. RedeemComing'
    BY <1>1, <1>3, <1>9, <2>1 DEF RedeemComing
  <2>3. now <= BtcLock - RedeemMargin + Upsets /\ now # BtcLock - RedeemMargin + Upsets
    BY <1>1, <1>2 DEF RedeemDue, RedeemComing
  <2>4. now + 1 <= BtcLock - RedeemMargin + Upsets
    BY <1>2, <2>3
  <2> QED
    BY <1>1, <1>8, <2>2, <2>4 DEF RedeemDue
<1>11. ParticipantInv'
  <2>1. fund'["btc"] # "absent" => Handed' \/ lost'["participant"]
    BY <1>1, <1>2, <1>8 DEF HandedOver, Handed
  <2>2. ASSUME SettleDue PROVE SettleDue'
    <3>1. now <= BtcLock + Upsets /\ now # BtcLock + Upsets
      BY <1>1, <1>2, <2>2 DEF SettleDue, SettleComing
    <3>2. now + 1 <= BtcLock + Upsets
      BY <1>2, <3>1
    <3>3. SettleComing'
      BY <1>3, <1>9 DEF SettleComing
    <3> QED
      BY <1>1, <1>8, <2>2, <3>2, <3>3 DEF SettleDue
  <2>3. ASSUME ClaimDue PROVE ClaimDue'
    <3>1. now <= BtcLock + 1 + Upsets /\ now # BtcLock + 1 + Upsets
      BY <1>1, <1>2, <2>3 DEF ClaimDue
    <3>2. now + 1 <= BtcLock + 1 + Upsets
      BY <1>2, <3>1
    <3> QED
      BY <1>1, <1>3, <1>8, <1>9, <2>3, <3>2 DEF ClaimDue
  <2> QED
    BY <1>8, <2>1, <2>2, <2>3 DEF WholeInv, ParticipantInv
<1> QED
  BY <1>4, <1>6, <1>7, <1>10, <1>11 DEF WholeInv

\* At the start there is no spend, no job and no BTC funding.
LEMMA InitWhole ==
    ASSUME Init
    PROVE  WholeInv
<1>1. /\ \A c \in Chains : spend[c] = NoSpend
      /\ \A j \in JobIds : jobs[j] = NoJob
      /\ tower = IdleTower /\ ~revealed /\ fund["btc"] = "absent"
  BY DEF Init, Chains
<1>2. /\ NoSpend.kind = "none" /\ ~NoJob.stored /\ ~NoJob.sent /\ tower.pc = "idle" /\ tower.left = {}
      /\ "btc_redeem" \in JobIds /\ "btc" \in Chains /\ "xbt" \in Chains
  BY <1>1 DEF NoSpend, NoJob, IdleTower, JobIds, Chains
<1>3. PassInv
  BY <1>1, <1>2 DEF PassInv
<1>4. LegsInv
  BY <1>1, <1>2 DEF LegsInv
<1>5. SentInv
  BY <1>1, <1>2 DEF SentInv, Knows, ChainOf, SpendOf
<1>6. InitiatorInv /\ ParticipantInv
  BY <1>1 DEF InitiatorInv, Committed, ParticipantInv, Handed
<1> QED
  BY <1>3, <1>4, <1>5, <1>6 DEF WholeInv

\* Every step keeps it, unless it strands a spend.
LEMMA StepWhole ==
    ASSUME IInv, EnoughTime, WholeInv, [Next]_vars, SentInv'
    PROVE  WholeInv'
<1>1. CASE TowerNext
  BY <1>1, TowerStartWhole, JobLookWhole, JobSendWhole, JobStoreWhole, TowerEndWhole DEF TowerNext
<1>2. CASE Crash
  BY <1>2, CrashWhole
<1>3. ASSUME PostFunded PROVE WholeInv'
  <2>1. /\ ~lost["participant"] /\ recorded'
        /\ UNCHANGED <<now, fund, spend, rate, jobs, lost, revealed, honest, tower, budget>>
    BY <1>3 DEF PostFunded, chainVars
  <2>2. Upsets' = Upsets
    BY <2>1 DEF Upsets
  <2> QED
    BY <2>1, <2>2, AsideWhole
<1>4. ASSUME NEW r \in Roles, PhoneLost(r) PROVE WholeInv'
  <2>1. /\ budget' = [budget EXCEPT !.faults = @ + 1] /\ lost' = [lost EXCEPT ![r] = TRUE]
        /\ UNCHANGED <<now, fund, spend, rate, jobs, recorded, revealed, honest, tower>>
    BY <1>4 DEF PhoneLost, Fault, chainVars
  <2>2. Upsets' = Upsets
    BY <2>1 DEF Upsets, IInv, Shape, TypeOK
  <2>3. /\ lost["initiator"] => lost'["initiator"]
        /\ lost["participant"] => lost'["participant"]
    BY <2>1 DEF IInv, Shape, TypeOK, Roles
  <2> QED
    BY <2>1, <2>2, <2>3, AsideWhole
<1>5. CASE Phones
  BY <1>3, <1>4, <1>5, FundWhole, PostJobWhole, PhoneRedeemWhole, PhoneSpendWhole DEF Phones
<1>7. CASE World
  BY <1>7, MineFundWhole, MineSpendWhole, EvictSpendWhole, EvictFundWhole, RateMovesWhole, TickWhole DEF World
<1>8. CASE UNCHANGED vars
  <2>1. UNCHANGED <<now, fund, spend, rate, jobs, recorded, lost, revealed, honest, tower, budget>>
    BY <1>8 DEF vars
  <2>2. Upsets' = Upsets
    BY <2>1 DEF Upsets
  <2> QED
    BY <2>1, <2>2, AsideWhole
<1> QED
  BY <1>1, <1>2, <1>5, <1>7, <1>8 DEF Next, Step

\* A job knows the spends of its kind unless one of them is stranded.
LEMMA KnownUnlessStranded ==
    ASSUME TypeOK', ~Stranding'
    PROVE  SentInv'
<1>1. \A f \in Fees \cup {0} : f \in Nat
  BY WatchtowerConstants
<1>2. ASSUME NEW j \in JobIds, ~Unraised(j)' PROVE Knows(j)'
  <2>1. PICK x : x = spend'[ChainOf(j)]
    OBVIOUS
  <2>2. x.fee \in Nat
    <3>1. x \in SpendState
      BY <2>1 DEF TypeOK, ChainOf, Chains
    <3>2. x.fee \in Fees \cup {0}
      BY <3>1 DEF SpendState
    <3> QED
      BY <1>1, <3>2
  <2>3. ~(\E f \in Fees : f > x.fee) => Dearest(x.fee)
    BY <1>1, <2>2 DEF Dearest
  <2> QED
    BY <1>2, <2>1, <2>3 DEF Unraised, Knows, Dearest
<1> QED
  BY <1>2 DEF Stranding, SentInv, JobIds

\* What it is for.
LEMMA WholeMeans ==
    ASSUME IInv, EnoughTime, WholeInv
    PROVE  InitiatorWhole /\ ParticipantWhole
<1>1. "btc" \in Chains /\ "xbt" \in Chains
  BY DEF Chains
<1>2. InitiatorWhole
  <2> SUFFICES ASSUME honest, HandedOver("initiator"), spend["xbt"].kind = "redeem",
                      spend["btc"].mined, spend["btc"].kind = "refund"
               PROVE  FALSE
    BY DEF InitiatorWhole
  <2>1. revealed
    BY <1>1 DEF WholeInv, LegsInv
  <2>2. Committed
    BY <2>1 DEF HandedOver, Committed
  <2> QED
    BY <2>2 DEF WholeInv, InitiatorInv, RedeemDue
<1>3. ParticipantWhole
  <2> SUFFICES ASSUME HandedOver("participant"), spend["btc"].mined, spend["btc"].kind = "redeem",
                      spend["xbt"].mined, spend["xbt"].kind = "refund"
               PROVE  FALSE
    BY DEF ParticipantWhole
  <2>1. fund["btc"] # "absent"
    BY <1>1 DEF IInv, SpendsKnown, Confirmed
  <2>2. Handed
    BY <2>1 DEF HandedOver, Handed
  <2>3. ~Resolved /\ ~SettleDue
    BY DEF Resolved, SettleDue
  <2>4. now <= BtcLock + 1 + Upsets
    BY <2>2, <2>3 DEF WholeInv, ParticipantInv, ClaimDue
  <2>5. spend["xbt"] # NoSpend
    BY DEF NoSpend
  <2> QED
    BY <2>4, <2>5, XbtRedeemed DEF WholeInv
<1> QED
  BY <1>2, <1>3

\* NobodyLosesBoth for every instance with EnoughTime: whatever the phones, the fee market,
\* evictions and stops of the edge do within the bounds, a side whose jobs were handed over
\* has one of its two legs settled in its favour before the other is lost (run_job), as long
\* as no spend was ever nobody's to raise.
THEOREM BothLegsNeverLost ==
    ASSUME EnoughTime
    PROVE  Spec => []NobodyLosesBoth
<1> DEFINE Whole == ~stranded => WholeInv
<1>1. Spec => []IInv
  BY Invariance
<1>2. Init => Whole
  BY InitWhole
<1>3. ASSUME IInv, IInv', Whole, [Next]_vars PROVE Whole'
  <2> SUFFICES ASSUME ~stranded' PROVE WholeInv'
    OBVIOUS
  <2>1. CASE Next
    <3>1. ~stranded /\ ~Stranding'
      BY <2>1 DEF Next
    <3>2. SentInv'
      BY <1>3, <3>1, KnownUnlessStranded DEF IInv, Shape
    <3> QED
      BY <1>3, <3>1, <3>2, StepWhole
  <2>2. CASE UNCHANGED vars
    <3>1. ~stranded /\ UNCHANGED <<spend, jobs, tower>>
      BY <2>2 DEF vars
    <3>2. SentInv'
      BY <1>3, <3>1 DEF WholeInv, SentInv, Knows, Dearest, Job
    <3> QED
      BY <1>3, <3>1, <3>2, StepWhole
  <2> QED
    BY <1>3, <2>1, <2>2
<1>4. IInv /\ Whole => NobodyLosesBoth
  BY WholeMeans DEF NobodyLosesBoth
<1> HIDE DEF Whole
<1> QED
  BY <1>1, <1>2, <1>3, <1>4, PTL DEF Spec
=============================================================================

----------------------------- MODULE SwapMatch -----------------------------
(***************************************************************************)
(* The life of one match in fortis-edge: the record `Match` of the swap    *)
(* store, the request handlers that change it (`post_message`, `watch`),   *)
(* the watchtower's pass over it (`tick_match`, `start_participant_clock`, *)
(* `close_if_spent`), the strikes it causes and the messages it relays.    *)
(*                                                                         *)
(* Handlers run on worker threads.  A handler that reads the chain does so *)
(* without the matching lock and re-checks the match under it, so such a   *)
(* handler is several steps here: its unlocked read, its locked write, and *)
(* the relay push that follows.  The phones are not constrained: any role  *)
(* may post any message at any time, again and again.  The two funding     *)
(* chains may evict, reorganise and spend what they like.  Offers, prices  *)
(* and the broadcast of watch jobs live in other modules.                  *)
(***************************************************************************)
EXTENDS Integers, FiniteSets

CONSTANTS
    Threads,              \* worker threads that serve requests
    XbtOut,               \* outpoints paying exactly the XBT leg's HTLC
    BtcOut,               \* outpoints paying exactly the BTC leg's HTLC
    BadOut,               \* outpoints paying another script or amount
    None,                 \* no outpoint recorded; no thread
    Tower,                \* the watchtower thread, as a holder of the lock
    AcceptBy,             \* terms.accept_by
    InitiatorFundBy,      \* terms.initiator_fund_by
    ParticipantFundSecs,  \* PARTICIPANT_FUND_SECS
    FundLatest,           \* participant_fund_latest(terms)
    WatchKinds,           \* bound: the kinds of watch the phones post
    MaxTime,              \* bound: the last instant explored
    MaxFaults,            \* bound: crashes and failed writes or reads
    MaxRewinds            \* bound: evictions and reorganisations

Roles == {"initiator", "participant"}

Outs == XbtOut \cup BtcOut \cup BadOut

Times == 0..MaxTime

\* An absent `Option<u32>` time.
NoTime == -1

ASSUME SwapMatchConstants ==
    /\ None \notin Outs \cup Threads \cup {Tower}
    /\ Tower \notin Threads
    /\ XbtOut \cap (BtcOut \cup BadOut) = {}
    /\ BtcOut \cap BadOut = {}
    /\ WatchKinds \subseteq {"refund", "redeem"}
    /\ AcceptBy \in Nat /\ InitiatorFundBy \in Nat
    /\ ParticipantFundSecs \in Nat /\ FundLatest \in Nat
    /\ MaxTime \in Nat /\ MaxFaults \in Nat /\ MaxRewinds \in Nat

VARIABLES
    m,        \* the stored Match
    strikes,  \* strikes[r][at]: strikes recorded at `at` against r's token
    relayed,  \* relayed[r][y]: messages of type y pushed from r
    jobs,     \* stored watch jobs: <<chain owner, kind, outpoint>>
    lock,     \* holder of Store::matching
    th,       \* worker threads
    tower,    \* the watchtower thread
    chain,    \* state of each outpoint on its chain
    mined_at, \* block time of each BTC outpoint, once mined
    rewinds,  \* evictions and reorganisations so far
    now,      \* wall clock
    faults    \* faults taken so far

edgeVars == <<m, strikes, relayed, jobs, lock, th, tower>>
chainVars == <<chain, mined_at, rewinds>>
vars == <<m, strikes, relayed, jobs, lock, th, tower, chain, mined_at, rewinds, now, faults>>

-----------------------------------------------------------------------------
(* Types                                                                   *)

MatchStatus == {"proposed", "accepted", "initiator_funded",
                "participant_funded", "closed", "cancelled"}

Match == [status : MatchStatus,
          accepted : [Roles -> BOOLEAN],
          keys : [Roles -> BOOLEAN],           \* set once, so only whether
          hashlock : BOOLEAN,                  \* set once, likewise
          funding : [Roles -> Outs \cup {None}], \* xbt_funding, btc_funding
          fund_by : Nat \cup {NoTime},         \* participant_fund_by
          missed : BOOLEAN,                    \* missed_participant_deadline
          closed_at : Times \cup {NoTime},
          release_txs : BOOLEAN,
          release_sigs : BOOLEAN]

Kinds == {"refund", "redeem"}

MsgTypes == {"accept", "decline", "keys", "hashlock", "funded",
             "release_request", "release", "deadline"}

\* Where a worker thread is.  Under the lock: "lifted" and (mostly) "push".
ThreadPc == {"idle", "funded", "record", "reinstate", "reinstating",
             "lifted", "put_watch", "push"}

\* What a thread serves: a `funded` message, a late one, or a watch request.
Thread == [pc : ThreadPc,
           role : Roles,                       \* the caller
           via : {"funded", "late"} \cup Kinds,
           out : Outs \cup {None},             \* the outpoint it names
           seen : Outs \cup {None},            \* btc_funding read unlocked
           msg : MsgTypes]                     \* what it will relay

TowerPc == {"idle", "tick", "cancel", "clock", "clock_write", "deadline",
            "close", "close_write"}

TowerState == [pc : TowerPc,
               at : Times,                     \* `now` of this pass
               seen : Match]                   \* the match it read unlocked

\* deep: as confirmed as the terms ask; spent: in the mempool or mined.
ChainState == {"absent", "mempool", "mined", "deep", "spent"}

\* TypeOK: every variable keeps to its type, for the stored match, the
\* threads' snapshots of it and the chain.
TypeOK ==
    /\ m \in Match
    /\ strikes \in [Roles -> [Times -> Nat]]
    /\ relayed \in [Roles \cup {"edge"} -> [MsgTypes -> Nat]]
    /\ jobs \subseteq Roles \X Kinds \X Outs
    /\ lock \in Threads \cup {None, Tower}
    /\ th \in [Threads -> Thread]
    /\ tower \in TowerState
    /\ chain \in [Outs -> ChainState]
    /\ mined_at \in [BtcOut -> Times]
    /\ rewinds \in 0..MaxRewinds
    /\ now \in Times
    /\ faults \in 0..MaxFaults

-----------------------------------------------------------------------------
(* Helpers.  A definition named Fault... is not part of the model: it is   *)
(* the definition that follows it with a plausible defect, kept to show    *)
(* that the properties below notice it.                                    *)

Other(r) == IF r = "initiator" THEN "participant" ELSE "initiator"

\* The outpoints that pay r's own leg (the initiator funds XBT).
LegOut(r) == IF r = "initiator" THEN XbtOut ELSE BtcOut

\* leg_witness_script is known once both keys and the hashlock are relayed.
HasScript(mm) == mm.keys["initiator"] /\ mm.keys["participant"] /\ mm.hashlock

\* ChainReader::created_output sees an output spent or not, mempool included.
Created(o) == chain[o] # "absent"

\* ChainReader::txout: unspent, the mempool included.
Unspent(o) == chain[o] \in {"mempool", "mined", "deep"}

\* tx_block_time answers Some.
Mined(o) == chain[o] \in {"mined", "deep", "spent"}

LegPaid(r, o) == HasScript(m) /\ Created(o) /\ o \in LegOut(r)

\* The status at which r's `funded` is in turn, and the one it leads to.
Needs(r) == IF r = "initiator" THEN "accepted" ELSE "initiator_funded"
Funds(r) == IF r = "initiator" THEN "initiator_funded" ELSE "participant_funded"

terminal(s) == s \in {"cancelled", "closed"}

\* Contract v2 only: the version every new match is made with.
releasable(mm) ==
    /\ mm.status = "cancelled"
    /\ mm.funding["initiator"] # None
    /\ mm.funding["participant"] = None

FaultEligible(mm) == mm.missed /\ mm.status = "cancelled"

\* reinstate_if_funded_in_time's closure.
eligible(mm) == mm.missed /\ mm.status = "cancelled" /\ ~mm.release_sigs

IdleThread == [pc |-> "idle", role |-> "initiator", via |-> "funded",
               out |-> None, seen |-> None, msg |-> "accept"]

NewMatch == [status |-> "proposed",
             accepted |-> [r \in Roles |-> FALSE],
             keys |-> [r \in Roles |-> FALSE],
             hashlock |-> FALSE,
             funding |-> [r \in Roles |-> None],
             fund_by |-> NoTime,
             missed |-> FALSE,
             closed_at |-> NoTime,
             release_txs |-> FALSE,
             release_sigs |-> FALSE]

IdleTower == [pc |-> "idle", at |-> 0, seen |-> NewMatch]

\* The match as matcher::pair stores it.
Init ==
    /\ m = NewMatch
    /\ strikes = [r \in Roles |-> [t \in Times |-> 0]]
    /\ relayed = [s \in Roles \cup {"edge"} |-> [y \in MsgTypes |-> 0]]
    /\ jobs = {}
    /\ lock = None
    /\ th = [t \in Threads |-> IdleThread]
    /\ tower = IdleTower
    /\ chain = [o \in Outs |-> "absent"]
    /\ mined_at = [o \in BtcOut |-> 0]
    /\ rewinds = 0
    /\ now = 0
    /\ faults = 0

-----------------------------------------------------------------------------
(* Message handlers: post_message                                          *)

\* Replaces the stored match (put_match) and leaves the relay push to the
\* thread's next step, with the matching lock held (holder = t) or not.
PutThenPush(t, mm, r, y, holder) ==
    /\ m' = mm
    /\ th' = [th EXCEPT ![t] = [IdleThread EXCEPT !.pc = "push", !.role = r, !.msg = y]]
    /\ lock' = holder
    /\ UNCHANGED <<strikes, relayed, jobs, tower, chainVars, now, faults>>

Free(t) == th[t].pc = "idle" /\ lock = None

FaultAccept(t, r) ==
    /\ Free(t)
    /\ ~m.accepted[r] /\ now <= AcceptBy
    /\ LET both == m.accepted[Other(r)]
       IN  PutThenPush(t, [m EXCEPT !.accepted[r] = TRUE,
                                    !.status = IF both THEN "accepted" ELSE @],
                       r, "accept", t)

Accept(t, r) ==
    /\ Free(t)
    /\ m.status = "proposed" /\ ~m.accepted[r] /\ now <= AcceptBy
    /\ LET both == m.accepted[Other(r)]
       IN  PutThenPush(t, [m EXCEPT !.accepted[r] = TRUE,
                                    !.status = IF both THEN "accepted" ELSE @],
                       r, "accept", t)

\* matcher::on_decline; its guard is dropped before the push.
Decline(t, r) ==
    /\ Free(t)
    /\ m.status = "proposed" /\ m.funding["initiator"] = None
    /\ PutThenPush(t, [m EXCEPT !.status = "cancelled", !.closed_at = now],
                   r, "decline", None)

Keys(t, r) ==
    /\ Free(t)
    /\ ~terminal(m.status) /\ ~m.keys[r]
    /\ PutThenPush(t, [m EXCEPT !.keys[r] = TRUE], r, "keys", t)

Hashlock(t) ==
    /\ Free(t)
    /\ ~terminal(m.status) /\ ~m.hashlock
    /\ PutThenPush(t, [m EXCEPT !.hashlock = TRUE], "initiator", "hashlock", t)

ReleaseRequest(t) ==
    /\ Free(t)
    /\ releasable(m) /\ ~m.release_txs
    /\ PutThenPush(t, [m EXCEPT !.release_txs = TRUE], "initiator", "release_request", t)

Release(t) ==
    /\ Free(t)
    /\ releasable(m) /\ m.release_txs /\ ~m.release_sigs
    /\ PutThenPush(t, [m EXCEPT !.release_sigs = TRUE], "participant", "release", t)

\* relay::push at the end of a handler, which then returns.
Push(t) ==
    /\ th[t].pc = "push"
    /\ relayed' = [relayed EXCEPT ![th[t].role][th[t].msg] = @ + 1]
    /\ lock' = IF lock = t THEN None ELSE lock
    /\ th' = [th EXCEPT ![t] = IdleThread]
    /\ UNCHANGED <<m, strikes, jobs, tower, chainVars, now, faults>>

\* A step of a thread that changes nothing but where it is.
Goto(t, thread) ==
    /\ th' = [th EXCEPT ![t] = thread]
    /\ UNCHANGED <<m, strikes, relayed, jobs, lock, tower, chainVars, now, faults>>

At(pc, r, via, o) == [IdleThread EXCEPT !.pc = pc, !.role = r, !.via = via, !.out = o]

\* Msg::Funded up to the matching lock: the checks made without it.
FundedCheck(t, r, o) ==
    /\ th[t].pc = "idle"
    /\ r = "participant" => ~m.release_sigs /\ ~m.missed
    /\ m.funding[r] = o \/ (m.status = Needs(r) /\ LegPaid(r, o))
    /\ Goto(t, At("funded", r, "funded", o))

\* ... and under it.
FundedCommit(t) ==
    LET r == th[t].role
        o == th[t].out
    IN  /\ th[t].pc = "funded"
        /\ lock = None
        /\ IF m.status = Needs(r) /\ m.funding[r] \in {None, o}
             THEN PutThenPush(t, [m EXCEPT !.funding[r] = o, !.status = Funds(r)],
                              r, "funded", t)
             ELSE Goto(t, IdleThread)

-----------------------------------------------------------------------------
(* Watch requests, late fundings and reinstatement                         *)

\* Where a thread goes once its leg's funding is recorded.
AfterRecord(thread) ==
    IF thread.via = "late" \/ (thread.role = "participant" /\ thread.via = "refund")
      THEN [thread EXCEPT !.pc = "reinstate"]
      ELSE [thread EXCEPT !.pc = "put_watch"]

\* Where it goes once reinstatement was tried and not done.
AfterReinstate(thread) ==
    IF thread.via = "late" THEN IdleThread ELSE [thread EXCEPT !.pc = "put_watch"]

\* record_leg_funding up to the lock, by the leg's owner.
RecordCheck(t, thread) ==
    \/ /\ m.funding[thread.role] = thread.out
       /\ Goto(t, AfterRecord(thread))
    \/ /\ m.funding[thread.role] = None
       /\ LegPaid(thread.role, thread.out)
       /\ Goto(t, [thread EXCEPT !.pc = "record"])

\* The participant's `funded` on a match its deadline cancelled.
LateFundedCheck(t, o) ==
    /\ th[t].pc = "idle"
    /\ m.missed /\ ~m.release_sigs
    /\ RecordCheck(t, At("record", "participant", "late", o))

\* A refund watch of the caller's own leg.
WatchRefund(t, r, o) ==
    /\ th[t].pc = "idle"
    /\ "refund" \in WatchKinds
    /\ RecordCheck(t, At("record", r, "refund", o))

FaultWatchRedeem(t, r, o) ==
    /\ th[t].pc = "idle"
    /\ "redeem" \in WatchKinds
    /\ LegPaid(Other(r), o)
    /\ Goto(t, At("put_watch", r, "redeem", o))

\* A redeem watch of the counterparty's leg: only its recorded funding.
WatchRedeem(t, r, o) ==
    /\ th[t].pc = "idle"
    /\ "redeem" \in WatchKinds
    /\ m.funding[Other(r)] = o
    /\ Goto(t, At("put_watch", r, "redeem", o))

FaultRecordCommit(t) ==
    /\ th[t].pc = "record"
    /\ lock = None
    /\ m' = [m EXCEPT !.funding[th[t].role] = th[t].out]
    /\ th' = [th EXCEPT ![t] = AfterRecord(th[t])]
    /\ UNCHANGED <<strikes, relayed, jobs, lock, tower, chainVars, now, faults>>

\* record_leg_funding under the lock; the status is left alone.
RecordCommit(t) ==
    LET r == th[t].role
        o == th[t].out
    IN  /\ th[t].pc = "record"
        /\ lock = None
        /\ IF m.funding[r] \in {None, o}
             THEN /\ m' = [m EXCEPT !.funding[r] = o]
                  /\ th' = [th EXCEPT ![t] = AfterRecord(th[t])]
                  /\ UNCHANGED <<strikes, relayed, jobs, lock, tower, chainVars, now, faults>>
             ELSE Goto(t, IdleThread)

FaultInTime(mm) ==
    /\ mm.funding["participant"] # None
    /\ mm.fund_by # NoTime
    /\ mm.funding["participant"] \in BtcOut
    /\ Mined(mm.funding["participant"])
    /\ mined_at[mm.funding["participant"]] < mm.fund_by

InTime(mm) ==
    /\ mm.funding["participant"] # None
    /\ mm.fund_by # NoTime
    /\ mm.funding["participant"] \in BtcOut
    /\ Mined(mm.funding["participant"])
    /\ mined_at[mm.funding["participant"]] <= mm.fund_by

\* reinstate_if_funded_in_time up to the lock.
ReinstateRead(t) ==
    /\ th[t].pc = "reinstate"
    /\ IF eligible(m) /\ InTime(m)
         THEN Goto(t, [th[t] EXCEPT !.pc = "reinstating", !.seen = m.funding["participant"]])
         ELSE Goto(t, AfterReinstate(th[t]))

FaultRemoveStrike(ss, r, at) ==
    IF at \in Times THEN [ss EXCEPT ![r][at] = @ - 1] ELSE ss

\* Store::remove_strike: one strike recorded at `at`, if there is one.
remove_strike(ss, r, at) ==
    IF at \in Times /\ ss[r][at] > 0 THEN [ss EXCEPT ![r][at] = @ - 1] ELSE ss

FaultReinstateLift(t) ==
    /\ th[t].pc = "reinstating"
    /\ lock = None
    /\ lock' = t
    /\ th' = [th EXCEPT ![t].pc = "lifted"]
    /\ UNCHANGED <<m, strikes, relayed, jobs, tower, chainVars, now, faults>>

\* Takes the lock, re-checks, and lifts the strike before the match is written.
ReinstateLift(t) ==
    /\ th[t].pc = "reinstating"
    /\ lock = None
    /\ IF eligible(m) /\ m.funding["participant"] = th[t].seen
         THEN /\ strikes' = remove_strike(strikes, "participant", m.closed_at)
              /\ lock' = t
              /\ th' = [th EXCEPT ![t].pc = "lifted"]
              /\ UNCHANGED <<m, relayed, jobs, tower, chainVars, now, faults>>
         ELSE Goto(t, AfterReinstate(th[t]))

\* The match is written, the lock released; a late `funded` is then relayed.
ReinstateCommit(t) ==
    /\ th[t].pc = "lifted"
    /\ m' = [m EXCEPT !.status = "participant_funded", !.missed = FALSE,
                      !.closed_at = NoTime]
    /\ lock' = None
    /\ th' = [th EXCEPT ![t] =
                 IF @.via = "late"
                   THEN [IdleThread EXCEPT !.pc = "push", !.role = "participant", !.msg = "funded"]
                   ELSE [@ EXCEPT !.pc = "put_watch"]]
    /\ UNCHANGED <<strikes, relayed, jobs, tower, chainVars, now, faults>>

\* Store::put_watch, without the matching lock: one job per (chain, kind).
PutWatch(t) ==
    /\ th[t].pc = "put_watch"
    /\ LET owner == IF th[t].via = "refund" THEN th[t].role ELSE Other(th[t].role)
           kind  == IF th[t].via = "refund" THEN "refund" ELSE "redeem"
       IN  jobs' = {j \in jobs : <<j[1], j[2]>> # <<owner, kind>>}
                      \cup {<<owner, kind, th[t].out>>}
    /\ th' = [th EXCEPT ![t] = IdleThread]
    /\ UNCHANGED <<m, strikes, relayed, lock, tower, chainVars, now, faults>>

-----------------------------------------------------------------------------
(* The watchtower's pass: deadlines, the participant's clock, closing.     *)
(* `now` is read once, when the pass starts.                               *)

TowerAt(pc) == IF pc = "idle" THEN IdleTower ELSE [pc |-> pc, at |-> tower.at, seen |-> NewMatch]

TowerGoto(pc) ==
    /\ tower' = TowerAt(pc)
    /\ UNCHANGED <<m, strikes, relayed, jobs, lock, th, chainVars, now, faults>>

TowerStart ==
    /\ tower.pc = "idle"
    /\ tower' = [pc |-> "tick", at |-> now, seen |-> NewMatch]
    /\ UNCHANGED <<m, strikes, relayed, jobs, lock, th, chainVars, now, faults>>

Overdue_accept == m.status = "proposed" /\ tower.at > AcceptBy

Overdue_initiator ==
    /\ m.status = "accepted"
    /\ m.funding["initiator"] = None
    /\ tower.at > InitiatorFundBy

Overdue_participant ==
    /\ m.status = "initiator_funded"
    /\ m.funding["participant"] = None
    /\ m.fund_by # NoTime
    /\ tower.at > m.fund_by

\* tick_match: an unaccepted match is dissolved without a strike ...
TickUnaccepted ==
    /\ tower.pc = "tick" /\ lock = None
    /\ Overdue_accept
    /\ m' = [m EXCEPT !.status = "cancelled", !.closed_at = tower.at]
    /\ tower' = TowerAt("clock")
    /\ UNCHANGED <<strikes, relayed, jobs, lock, th, chainVars, now, faults>>

\* ... a missed funding deadline is struck first (add_strike) ...
TickStrike(r) ==
    /\ tower.pc = "tick" /\ lock = None
    /\ IF r = "initiator" THEN Overdue_initiator ELSE Overdue_participant
    /\ strikes' = [strikes EXCEPT ![r][tower.at] = @ + 1]
    /\ lock' = Tower
    /\ tower' = [tower EXCEPT !.pc = "cancel"]
    /\ UNCHANGED <<m, relayed, jobs, th, chainVars, now, faults>>

\* ... and then cancelled (put_match).
TickCancel ==
    /\ tower.pc = "cancel"
    /\ m' = [m EXCEPT !.status = "cancelled", !.closed_at = tower.at,
                      !.missed = @ \/ m.status = "initiator_funded"]
    /\ lock' = None
    /\ tower' = TowerAt("clock")
    /\ UNCHANGED <<strikes, relayed, jobs, th, chainVars, now, faults>>

TickNothing ==
    /\ tower.pc = "tick" /\ lock = None
    /\ ~(Overdue_accept \/ Overdue_initiator \/ Overdue_participant)
    /\ TowerGoto("clock")

\* start_participant_clock: the funding has xbt_confs confirmations.
ClockDue ==
    /\ m.status = "initiator_funded"
    /\ m.fund_by = NoTime
    /\ m.funding["initiator"] # None
    /\ HasScript(m)
    /\ m.funding["initiator"] \in XbtOut
    /\ chain[m.funding["initiator"]] = "deep"

ClockRead ==
    /\ tower.pc = "clock"
    /\ IF ClockDue
         THEN /\ tower' = [tower EXCEPT !.pc = "clock_write", !.seen = m]
              /\ UNCHANGED <<m, strikes, relayed, jobs, lock, th, chainVars, now, faults>>
         ELSE TowerGoto("close")

ClockWrite ==
    /\ tower.pc = "clock_write" /\ lock = None
    /\ IF /\ m.status = "initiator_funded"
          /\ m.fund_by = NoTime
          /\ m.funding["initiator"] = tower.seen.funding["initiator"]
         THEN /\ m' = [m EXCEPT !.fund_by =
                          IF tower.at + ParticipantFundSecs < FundLatest
                            THEN tower.at + ParticipantFundSecs ELSE FundLatest]
              /\ tower' = TowerAt("deadline")
              /\ UNCHANGED <<strikes, relayed, jobs, lock, th, chainVars, now, faults>>
         ELSE TowerGoto("close")

\* The `deadline` message, pushed after the lock is released.
ClockRelay ==
    /\ tower.pc = "deadline"
    /\ relayed' = [relayed EXCEPT !["edge"]["deadline"] = @ + 1]
    /\ tower' = TowerAt("close")
    /\ UNCHANGED <<m, strikes, jobs, lock, th, chainVars, now, faults>>

FaultAllSpent(mm) == \A r \in Roles : mm.funding[r] # None /\ ~Unspent(mm.funding[r])

\* close_if_spent: every recorded funding is spent, or gone from the chain.
AllSpent(mm) ==
    /\ \E r \in Roles : mm.funding[r] # None
    /\ \A r \in Roles : mm.funding[r] # None => ~Unspent(mm.funding[r])

CloseRead ==
    /\ tower.pc = "close"
    /\ IF m.status \in {"initiator_funded", "participant_funded"} /\ AllSpent(m)
         THEN /\ tower' = [tower EXCEPT !.pc = "close_write", !.seen = m]
              /\ UNCHANGED <<m, strikes, relayed, jobs, lock, th, chainVars, now, faults>>
         ELSE TowerGoto("idle")

FaultCloseWrite ==
    /\ tower.pc = "close_write" /\ lock = None
    /\ m' = [m EXCEPT !.status = "closed", !.closed_at = tower.at]
    /\ tower' = TowerAt("idle")
    /\ UNCHANGED <<strikes, relayed, jobs, lock, th, chainVars, now, faults>>

CloseWrite ==
    /\ tower.pc = "close_write" /\ lock = None
    /\ m' = IF m.status = tower.seen.status /\ m.funding = tower.seen.funding
              THEN [m EXCEPT !.status = "closed", !.closed_at = tower.at] ELSE m
    /\ tower' = TowerAt("idle")
    /\ UNCHANGED <<strikes, relayed, jobs, lock, th, chainVars, now, faults>>

TowerNext ==
    \/ TowerStart
    \/ TickUnaccepted \/ (\E r \in Roles : TickStrike(r)) \/ TickCancel \/ TickNothing
    \/ ClockRead \/ ClockWrite \/ ClockRelay
    \/ CloseRead \/ CloseWrite

-----------------------------------------------------------------------------
(* Faults.  The store is a RocksDB: what was put stays put.                *)

\* The edge stops and starts again: threads and locks are lost.
Crash ==
    /\ faults < MaxFaults
    /\ faults' = faults + 1
    /\ th' = [t \in Threads |-> IdleThread]
    /\ tower' = IdleTower
    /\ lock' = None
    /\ UNCHANGED <<m, strikes, relayed, jobs, chainVars, now>>

\* A store write, or a chain read, of one handler fails: an error reply, or,
\* for a reinstatement that a refund watch tried, a logged error only.
ThreadFails(t) ==
    /\ faults < MaxFaults
    /\ faults' = faults + 1
    /\ th[t].pc # "idle"
    /\ th' = [th EXCEPT ![t] =
                 IF @.via = "refund" /\ @.pc \in {"reinstate", "reinstating", "lifted"}
                   THEN [@ EXCEPT !.pc = "put_watch"] ELSE IdleThread]
    /\ lock' = IF lock = t THEN None ELSE lock
    /\ UNCHANGED <<m, strikes, relayed, jobs, tower, chainVars, now>>

\* A step of the pass fails: logged, and the pass goes on with the next one.
TowerFails ==
    /\ faults < MaxFaults
    /\ faults' = faults + 1
    /\ tower.pc # "idle"
    /\ tower' = TowerAt(CASE tower.pc \in {"tick", "cancel"} -> "clock"
                          [] tower.pc \in {"clock", "clock_write", "deadline"} -> "close"
                          [] OTHER -> "idle")
    /\ lock' = IF lock = Tower THEN None ELSE lock
    /\ UNCHANGED <<m, strikes, relayed, jobs, th, chainVars, now>>

-----------------------------------------------------------------------------
(* The chains and the clock.                                               *)

ChainStep(o, from, to) ==
    /\ chain[o] \in from
    /\ chain' = [chain EXCEPT ![o] = to]
    /\ UNCHANGED <<edgeVars, now, faults>>

Forward(o, from, to) == ChainStep(o, from, to) /\ UNCHANGED <<mined_at, rewinds>>

Rewind(o, from, to) ==
    /\ rewinds < MaxRewinds
    /\ rewinds' = rewinds + 1
    /\ mined_at' = IF o \in BtcOut /\ to # "deep" THEN [mined_at EXCEPT ![o] = 0] ELSE mined_at
    /\ ChainStep(o, from, to)

Mine(o) ==
    /\ ChainStep(o, {"mempool"}, "mined")
    /\ mined_at' = IF o \in BtcOut THEN [mined_at EXCEPT ![o] = now] ELSE mined_at
    /\ UNCHANGED rewinds

Broadcast(o) == Forward(o, {"absent"}, "mempool")
\* The edge asks for the terms' depth of the XBT leg only.
Bury(o) == o \in XbtOut /\ Forward(o, {"mined"}, "deep")
Spend(o) == Forward(o, {"mined", "deep"}, "spent")
Evict(o) == Rewind(o, {"mempool"}, "absent")
Reorg(o) == Rewind(o, {"mined"}, "mempool")
EvictSpend(o) == Rewind(o, {"spent"}, "deep")

ChainNext(o) ==
    \/ Broadcast(o) \/ Evict(o) \/ Mine(o) \/ Reorg(o) \/ Bury(o)
    \/ Spend(o) \/ EvictSpend(o)

Tick ==
    /\ now < MaxTime
    /\ now' = now + 1
    /\ UNCHANGED <<edgeVars, chainVars, faults>>

Post(t) ==
    \/ \E r \in Roles : Accept(t, r) \/ Decline(t, r) \/ Keys(t, r)
    \/ Hashlock(t) \/ ReleaseRequest(t) \/ Release(t)
    \/ \E r \in Roles, o \in Outs : FundedCheck(t, r, o)
    \/ \E o \in Outs : LateFundedCheck(t, o)
    \/ \E r \in Roles, o \in Outs : WatchRefund(t, r, o) \/ WatchRedeem(t, r, o)

Serve(t) ==
    \/ Push(t) \/ FundedCommit(t) \/ RecordCommit(t)
    \/ ReinstateRead(t) \/ ReinstateLift(t) \/ ReinstateCommit(t)
    \/ PutWatch(t)

Next ==
    \/ \E t \in Threads : Post(t) \/ Serve(t) \/ ThreadFails(t)
    \/ TowerNext \/ TowerFails \/ Crash
    \/ \E o \in Outs : ChainNext(o)
    \/ Tick

Spec == Init /\ [][Next]_vars

\* The watchtower thread loops for ever and requests in service run to their
\* end; time passes; a miner takes what is in the mempool, and whoever an HTLC
\* pays (or repays) spends it in the end.  Nothing is asked of the phones.
Fairness ==
    /\ WF_vars(TowerNext)
    /\ \A t \in Threads : WF_vars(Serve(t))
    /\ WF_vars(Tick)
    /\ \A o \in Outs : WF_vars(Mine(o)) /\ WF_vars(Bury(o)) /\ WF_vars(Spend(o))

\* A participant's phone that has funded posts `funded` at every step of its
\* engine until it is answered.
PhoneRetries == \A t \in Threads, o \in BtcOut : SF_vars(LateFundedCheck(t, o))


-----------------------------------------------------------------------------
(* Properties                                                              *)

\* A match is only ever in a funded status on evidence: both sides accepted,
\* and each funding it stands on is recorded and pays that leg's HTLC script
\* and amount.  Two handlers (`funded`, a refund watch) may record a funding
\* from a chain read made before the lock; a reinstatement re-enters
\* participant_funded from cancelled.
FundedOnEvidence ==
    /\ \A r \in Roles : m.funding[r] # None => m.funding[r] \in LegOut(r)
    /\ m.status \in {"initiator_funded", "participant_funded"} =>
          m.funding["initiator"] # None /\ \A r \in Roles : m.accepted[r]
    /\ m.status = "participant_funded" => m.funding["participant"] # None

\* Once the participant has signed the initiator's XBT back to it (a release),
\* the match is and stays cancelled: no `funded`, late or not, and no refund
\* watch that was already past its unlocked checks brings it back.
ReleasedStaysCancelled == m.release_sigs => m.status = "cancelled"

\* What the relay told a phone is what the store holds: accepts, keys, the
\* hashlock, `funded`, the deadline and the release are recorded before they
\* are relayed, so neither a crash between the two nor a match that moved on
\* meanwhile leaves a phone acting on what the edge does not know.
RelayedIsStored ==
    /\ \A r \in Roles :
          /\ relayed[r]["funded"] > 0 => m.funding[r] # None
          /\ relayed[r]["keys"] > 0 => m.keys[r]
          /\ relayed[r]["accept"] > 0 => m.accepted[r]
    /\ relayed["initiator"]["hashlock"] > 0 => m.hashlock
    /\ relayed["edge"]["deadline"] > 0 => m.fund_by # NoTime
    /\ relayed["participant"]["release"] > 0 => m.release_sigs

\* No message type is relayed twice from one side (what keeps the relay below
\* MAX_MESSAGES_PER_MATCH), however often it is posted and however a late
\* `funded` races the refund watch of the same funding.
RelayedOnce == \A s \in Roles \cup {"edge"}, y \in MsgTypes : relayed[s][y] <= 1

\* A stored watch job spends the recorded funding of its leg, although
\* put_watch runs without the matching lock.
JobsSpendRecorded == \A j \in jobs : m.funding[j[1]] = j[3]

\* What the edge acts on, relays and spends is on record: a funded status, a relayed message and
\* a watch job each stand on what the stored match says, whichever unlocked reads they began with.
OnRecord == FundedOnEvidence /\ RelayedIsStored /\ JobsSpendRecorded

\* Without faults, strikes are exact once the lock is free: the participant
\* holds one strike, at the time the match was closed, if and only if the match
\* stands cancelled for its missed deadline (a reinstatement lifts it); the
\* initiator at most one, only for a match cancelled otherwise.
StrikesExact ==
    faults = 0 /\ lock = None =>
      \A t \in Times :
        /\ strikes["participant"][t] = IF m.missed /\ m.closed_at = t THEN 1 ELSE 0
        /\ strikes["initiator"][t] <=
             IF m.status = "cancelled" /\ ~m.missed /\ m.closed_at = t THEN 1 ELSE 0

\* What is set once stays: fundings, the participant's deadline, and the
\* release on both sides, whatever two requests past their unlocked checks
\* would write.
SetOnce ==
    [][/\ \A r \in Roles : m.funding[r] # None => m'.funding[r] = m.funding[r]
       /\ m.fund_by # NoTime => m'.fund_by = m.fund_by
       /\ m.release_txs => m'.release_txs
       /\ m.release_sigs => m'.release_sigs]_m

\* A step of the status: only forward; out of cancelled only by the
\* reinstatement of a BTC funding recorded for a match its deadline cancelled
\* and no release gave up; never out of closed.
Onward ==
    m'.status # m.status =>
      \/ <<m.status, m'.status>> \in
            {<<"proposed", "accepted">>, <<"proposed", "cancelled">>,
             <<"accepted", "initiator_funded">>, <<"accepted", "cancelled">>,
             <<"initiator_funded", "participant_funded">>,
             <<"initiator_funded", "cancelled">>, <<"initiator_funded", "closed">>,
             <<"participant_funded", "closed">>}
      \/ /\ m.status = "cancelled" /\ m'.status = "participant_funded"
         /\ m.missed /\ ~m.release_sigs
         /\ m.funding["participant"] # None

\* Every change of a match's status, by a handler past its unlocked checks or
\* by the watchtower, is a step of Onward.
ForwardOnly == [][Onward]_m

\* On chains that take nothing back, a match is closed only when every funding
\* it holds by then is spent: a BTC funding recorded between the watchtower's
\* reads and its write keeps it open.
ClosesOnlySpent ==
    [][m.status # "closed" /\ m'.status = "closed" /\ rewinds = 0 =>
         \A r \in Roles : m.funding[r] # None => ~Unspent(m.funding[r])]_m

\* A match in a funded status comes to an end, whatever the phones do: its
\* participant funds or is cancelled, and what is funded gets spent.
FundedMatchEnds ==
    m.status \in {"initiator_funded", "participant_funded"} ~> terminal(m.status)

\* A BTC funding mined by the participant's deadline keeps the swap: a match
\* cancelled for that deadline is reinstated once the phone's retried `funded`
\* is served, unless the participant gave its claim up by a release.
InTimeFundingKeepsSwap ==
    \A o \in BtcOut :
      (m.missed /\ HasScript(m) /\ Mined(o) /\ mined_at[o] <= m.fund_by) ~>
        (~m.missed \/ m.release_sigs \/ ~Mined(o))

\* An accepted match does not stay accepted for ever when a side walks away:
\* a deadline ends it or a funding moves it on.
AcceptedMovesOn == m.status = "accepted" ~> m.status # "accepted"

=============================================================================

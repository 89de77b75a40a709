-------------------------- MODULE SwapMatchProofs --------------------------
(***************************************************************************)
(* Safety of SwapMatch for any number of threads, outpoints, instants and  *)
(* faults.  The properties are not inductive by themselves: what a thread  *)
(* checked before it took the matching lock must still hold, or be checked *)
(* again, when it writes.  IInv says what each thread knows at each of its *)
(* steps and who may write the match while the lock is held.               *)
(***************************************************************************)
EXTENDS SwapMatch, TLAPS

-----------------------------------------------------------------------------
(* The inductive invariant                                                 *)

\* A thread in the middle of a handler that names an outpoint has one.
OutNamed == \A t \in Threads : th[t].pc \notin {"idle", "push"} => th[t].out \in Outs

\* The two writes made in two steps under the lock are made by its holder.
LockHeld ==
    /\ \A t \in Threads : th[t].pc = "lifted" => lock = t
    /\ tower.pc = "cancel" => lock = Tower

\* The match alone: who accepted, and what a missed deadline leaves behind.
MatchInv ==
    /\ FundedOnEvidence
    /\ ReleasedStaysCancelled
    /\ m.status = "accepted" => \A r \in Roles : m.accepted[r]
    /\ m.missed => /\ m.status = "cancelled"
                   /\ m.funding["initiator"] # None
                   /\ \A r \in Roles : m.accepted[r]

\* The leg whose funding a thread's request is about.
Leg(thread) == IF thread.via = "redeem" THEN Other(thread.role) ELSE thread.role

\* What r says in a message of type y is in the store.
Stored(r, y) ==
    /\ y = "funded" => m.funding[r] # None
    /\ y = "keys" => m.keys[r]
    /\ y = "accept" => m.accepted[r]
    /\ y = "hashlock" /\ r = "initiator" => m.hashlock
    /\ y = "release" /\ r = "participant" => m.release_sigs

\* What a thread knows about the match where it stands.
ThreadInv(t) ==
    /\ th[t].pc \in {"funded", "record"} => th[t].out \in LegOut(th[t].role)
    /\ th[t].pc = "record" => th[t].via \in {"late", "refund"}
    /\ th[t].pc \in {"reinstate", "reinstating", "lifted"} => th[t].via \in {"late", "refund"}
    /\ th[t].pc = "put_watch" => th[t].via \in Kinds
    /\ th[t].pc \in {"reinstate", "reinstating", "lifted", "put_watch"} =>
          m.funding[Leg(th[t])] = th[t].out
    /\ th[t].pc = "reinstating" => th[t].seen # None
    /\ th[t].pc = "lifted" => eligible(m) /\ m.funding["participant"] # None
    /\ th[t].pc = "push" => Stored(th[t].role, th[t].msg)

\* What the watchtower knows about the match where it stands.
TowerInv ==
    /\ tower.pc = "cancel" => m.status \in {"accepted", "initiator_funded"}
    /\ tower.pc = "close_write" => tower.seen.status \in {"initiator_funded", "participant_funded"}
    /\ tower.pc = "deadline" => m.fund_by # NoTime

IInv ==
    /\ TypeOK
    /\ OutNamed
    /\ LockHeld
    /\ MatchInv
    /\ \A t \in Threads : ThreadInv(t)
    /\ TowerInv
    /\ RelayedIsStored
    /\ JobsSpendRecorded

-----------------------------------------------------------------------------
(* Types                                                                   *)

\* The initial record and thread are of their types.
LEMMA InitialValues ==
    /\ NewMatch \in Match
    /\ IdleThread \in Thread
    /\ IdleTower \in TowerState
BY SwapMatchConstants DEF NewMatch, Match, MatchStatus, Roles, NoTime, IdleThread,
   Thread, ThreadPc, Kinds, MsgTypes, IdleTower, TowerState, TowerPc, Times

\* Init establishes the type invariant.
LEMMA InitTypeOK == Init => TypeOK
<1> SUFFICES ASSUME Init PROVE TypeOK
  OBVIOUS
<1>1. m \in Match /\ th \in [Threads -> Thread] /\ tower \in TowerState
  BY InitialValues DEF Init
<1>2. /\ strikes \in [Roles -> [Times -> Nat]]
      /\ relayed \in [Roles \cup {"edge"} -> [MsgTypes -> Nat]]
  BY DEF Init
<1>3. now \in Times /\ faults \in 0..MaxFaults /\ rewinds \in 0..MaxRewinds
  BY SwapMatchConstants DEF Init, Times
<1>4. chain \in [Outs -> ChainState] /\ mined_at \in [BtcOut -> Times]
  BY <1>3 DEF Init, ChainState
<1> QED
  BY <1>1, <1>2, <1>3, <1>4 DEF Init, TypeOK

\* A thread record with one of its fields replaced is a thread record.
LEMMA ThreadFields ==
    ASSUME NEW thread \in Thread
    PROVE  /\ \A pc \in ThreadPc : [thread EXCEPT !.pc = pc] \in Thread
           /\ \A pc \in ThreadPc, r \in Roles, y \in MsgTypes :
                 [IdleThread EXCEPT !.pc = pc, !.role = r, !.msg = y] \in Thread
           /\ \A pc \in ThreadPc, r \in Roles, v \in {"funded", "late"} \cup Kinds, o \in Outs :
                 At(pc, r, v, o) \in Thread
           /\ AfterRecord(thread) \in Thread
           /\ AfterReinstate(thread) \in Thread
<1>1. \A pc \in ThreadPc : [thread EXCEPT !.pc = pc] \in Thread
  BY DEF Thread
<1>2. \A pc \in ThreadPc, r \in Roles, y \in MsgTypes :
        [IdleThread EXCEPT !.pc = pc, !.role = r, !.msg = y] \in Thread
  BY InitialValues DEF Thread
<1>3. \A pc \in ThreadPc, r \in Roles, v \in {"funded", "late"} \cup Kinds, o \in Outs :
        At(pc, r, v, o) \in Thread
  BY InitialValues DEF Thread, At
<1>4. AfterRecord(thread) \in Thread
  BY <1>1 DEF AfterRecord, ThreadPc
<1>5. AfterReinstate(thread) \in Thread
  BY <1>1, InitialValues DEF AfterReinstate, ThreadPc
<1> QED
  BY <1>1, <1>2, <1>3, <1>4, <1>5

\* Where those thread records stand and what they keep.
LEMMA ThreadShapes ==
    ASSUME NEW thread \in Thread
    PROVE  /\ \A pc, r, v, o : LET a == At(pc, r, v, o)
                                IN  a.pc = pc /\ a.role = r /\ a.via = v /\ a.out = o
           /\ LET a == AfterRecord(thread)
              IN  /\ a.pc = IF thread.via = "late" \/ (thread.role = "participant" /\ thread.via = "refund")
                              THEN "reinstate" ELSE "put_watch"
                  /\ a.role = thread.role /\ a.via = thread.via /\ a.out = thread.out
           /\ LET a == AfterReinstate(thread)
              IN  \/ a.pc = "idle"
                  \/ /\ a.pc = "put_watch" /\ thread.via # "late"
                     /\ a.role = thread.role /\ a.via = thread.via /\ a.out = thread.out
<1>1. \A pc, r, v, o : LET a == At(pc, r, v, o)
                       IN  a.pc = pc /\ a.role = r /\ a.via = v /\ a.out = o
  BY DEF At, IdleThread
<1>2. LET a == AfterRecord(thread)
      IN  /\ a.pc = IF thread.via = "late" \/ (thread.role = "participant" /\ thread.via = "refund")
                      THEN "reinstate" ELSE "put_watch"
          /\ a.role = thread.role /\ a.via = thread.via /\ a.out = thread.out
  BY DEF AfterRecord, Thread
<1>3. LET a == AfterReinstate(thread)
      IN  \/ a.pc = "idle"
          \/ /\ a.pc = "put_watch" /\ thread.via # "late"
             /\ a.role = thread.role /\ a.via = thread.via /\ a.out = thread.out
  BY DEF AfterReinstate, Thread, IdleThread
<1> QED
  BY <1>1, <1>2, <1>3

\* A step of one handler that stores a match and goes on to push a message.
LEMMA PutThenPushTypeOK ==
    ASSUME TypeOK, NEW t \in Threads, NEW mm \in Match, NEW r \in Roles,
           NEW y \in MsgTypes, NEW holder \in Threads \cup {None},
           PutThenPush(t, mm, r, y, holder)
    PROVE  TypeOK'
<1>1. [IdleThread EXCEPT !.pc = "push", !.role = r, !.msg = y] \in Thread
  BY InitialValues, ThreadFields DEF ThreadPc
<1>2. th' \in [Threads -> Thread]
  BY <1>1 DEF TypeOK, PutThenPush
<1> QED
  BY <1>2 DEF TypeOK, PutThenPush, chainVars

\* A step that only moves a thread.
LEMMA GotoTypeOK ==
    ASSUME TypeOK, NEW t \in Threads, NEW thread \in Thread, Goto(t, thread)
    PROVE  TypeOK'
BY DEF TypeOK, Goto, chainVars

\* A request that arrives at an idle thread preserves the types.
LEMMA PostTypeOK ==
    ASSUME TypeOK, NEW t \in Threads, Post(t)
    PROVE  TypeOK'
<1> USE DEF MsgTypes
<1>0. m \in Match /\ now \in Times /\ m.status \in MatchStatus
  BY DEF TypeOK, Match
<1>1. ASSUME NEW r \in Roles, Accept(t, r) PROVE TypeOK'
  <2>1. (IF m.accepted[Other(r)] THEN "accepted" ELSE m.status) \in MatchStatus
    BY <1>0 DEF MatchStatus
  <2>2. [m EXCEPT !.accepted[r] = TRUE,
                  !.status = IF m.accepted[Other(r)] THEN "accepted" ELSE m.status] \in Match
    BY <1>0, <2>1 DEF Match
  <2> QED
    BY <1>1, <2>2, PutThenPushTypeOK DEF Accept
<1>2. ASSUME NEW r \in Roles, Decline(t, r) PROVE TypeOK'
  <2>1. [m EXCEPT !.status = "cancelled", !.closed_at = now] \in Match
    BY <1>0 DEF Match, MatchStatus
  <2> QED
    BY <1>2, <2>1, PutThenPushTypeOK DEF Decline
<1>3. ASSUME NEW r \in Roles, Keys(t, r) PROVE TypeOK'
  <2>1. [m EXCEPT !.keys[r] = TRUE] \in Match
    BY <1>0 DEF Match
  <2> QED
    BY <1>3, <2>1, PutThenPushTypeOK DEF Keys
<1>4. ASSUME Hashlock(t) \/ ReleaseRequest(t) \/ Release(t) PROVE TypeOK'
  <2>1. /\ [m EXCEPT !.hashlock = TRUE] \in Match
        /\ [m EXCEPT !.release_txs = TRUE] \in Match
        /\ [m EXCEPT !.release_sigs = TRUE] \in Match
    BY <1>0 DEF Match
  <2> QED
    BY <1>4, <2>1, PutThenPushTypeOK DEF Hashlock, ReleaseRequest, Release, Roles
<1>5. ASSUME NEW r \in Roles, NEW o \in Outs,
             FundedCheck(t, r, o) \/ WatchRedeem(t, r, o)
      PROVE  TypeOK'
  <2>1. At("funded", r, "funded", o) \in Thread /\ At("put_watch", r, "redeem", o) \in Thread
    BY InitialValues, ThreadFields DEF ThreadPc, Kinds
  <2> QED
    BY <1>5, <2>1, GotoTypeOK DEF FundedCheck, WatchRedeem
<1>6. ASSUME NEW r \in Roles, NEW o \in Outs, NEW via \in {"late", "refund"},
             RecordCheck(t, At("record", r, via, o))
      PROVE  TypeOK'
  <2>1. At("record", r, via, o) \in Thread
    BY InitialValues, ThreadFields DEF ThreadPc, Kinds
  <2>2. /\ AfterRecord(At("record", r, via, o)) \in Thread
        /\ [At("record", r, via, o) EXCEPT !.pc = "record"] \in Thread
    BY <2>1, ThreadFields DEF ThreadPc
  <2> QED
    BY <1>6, <2>2, GotoTypeOK DEF RecordCheck
<1> QED
  BY <1>1, <1>2, <1>3, <1>4, <1>5, <1>6 DEF Post, LateFundedCheck, WatchRefund, Roles

\* Where a thread that accepted a request stands.
LEMMA PostThread ==
    ASSUME TypeOK, NEW t \in Threads, Post(t)
    PROVE  /\ th' = [th EXCEPT ![t] = th'[t]]
           /\ th'[t].pc \in {"push", "funded", "record", "reinstate", "put_watch"}
<1>0. th \in [Threads -> Thread]
  BY DEF TypeOK
<1>1. ASSUME NEW mm, NEW r, NEW y, NEW holder, PutThenPush(t, mm, r, y, holder)
      PROVE  th' = [th EXCEPT ![t] = th'[t]] /\ th'[t].pc = "push"
  BY <1>0, <1>1 DEF PutThenPush, IdleThread
<1>2. ASSUME NEW r, NEW o, FundedCheck(t, r, o) \/ WatchRedeem(t, r, o)
      PROVE  th' = [th EXCEPT ![t] = th'[t]] /\ th'[t].pc \in {"funded", "put_watch"}
  <2>1. /\ At("funded", r, "funded", o).pc = "funded"
        /\ At("put_watch", r, "redeem", o).pc = "put_watch"
    BY InitialValues, ThreadShapes
  <2> QED
    BY <1>0, <1>2, <2>1 DEF FundedCheck, WatchRedeem, Goto
<1>3. ASSUME NEW r \in Roles, NEW o \in Outs, NEW via \in {"late", "refund"},
             RecordCheck(t, At("record", r, via, o))
      PROVE  th' = [th EXCEPT ![t] = th'[t]] /\ th'[t].pc \in {"record", "reinstate", "put_watch"}
  <2>1. At("record", r, via, o) \in Thread
    BY InitialValues, ThreadFields DEF ThreadPc, Kinds
  <2>2. /\ AfterRecord(At("record", r, via, o)).pc \in {"reinstate", "put_watch"}
        /\ [At("record", r, via, o) EXCEPT !.pc = "record"].pc = "record"
    BY <2>1, ThreadShapes DEF Thread
  <2> QED
    BY <1>0, <1>3, <2>2 DEF RecordCheck, Goto
<1> QED
  BY <1>1, <1>2, <1>3 DEF Post, Accept, Decline, Keys, Hashlock, ReleaseRequest, Release,
     LateFundedCheck, WatchRefund, Roles

\* A step of a request in service preserves the types.
LEMMA ServeTypeOK ==
    ASSUME TypeOK, OutNamed, NEW t \in Threads, Serve(t) \/ ThreadFails(t)
    PROVE  TypeOK'
<1>0. /\ m \in Match /\ th[t] \in Thread
      /\ th[t].role \in Roles /\ th[t].msg \in MsgTypes
      /\ th[t].pc \in ThreadPc
  BY DEF TypeOK, Thread
<1>1. CASE Push(t)
  <2>1. relayed' \in [Roles \cup {"edge"} -> [MsgTypes -> Nat]]
    BY <1>0, <1>1 DEF TypeOK, Push
  <2> QED
    BY <1>1, <2>1, InitialValues DEF TypeOK, Push, chainVars
<1>2. CASE FundedCommit(t)
  <2>1. [m EXCEPT !.funding[th[t].role] = th[t].out, !.status = Funds(th[t].role)] \in Match
    BY <1>0 DEF Match, MatchStatus, Funds, Thread
  <2> QED
    BY <1>2, <1>0, <2>1, InitialValues, PutThenPushTypeOK, GotoTypeOK DEF FundedCommit, MsgTypes
<1>3. CASE RecordCommit(t)
  <2>1. [m EXCEPT !.funding[th[t].role] = th[t].out] \in Match
    BY <1>0 DEF Match, Thread
  <2>2. AfterRecord(th[t]) \in Thread
    BY <1>0, ThreadFields
  <2> QED
    BY <1>3, <2>1, <2>2, InitialValues DEF RecordCommit, Goto, TypeOK, chainVars
<1>4. CASE ReinstateRead(t)
  <2>1. [th[t] EXCEPT !.pc = "reinstating", !.seen = m.funding["participant"]] \in Thread
    BY <1>0 DEF Thread, ThreadPc, Match, Roles
  <2>2. AfterReinstate(th[t]) \in Thread
    BY <1>0, ThreadFields
  <2> QED
    BY <1>4, <2>1, <2>2, GotoTypeOK DEF ReinstateRead
<1>5. CASE ReinstateLift(t)
  <2>1. remove_strike(strikes, "participant", m.closed_at) \in [Roles -> [Times -> Nat]]
    BY DEF TypeOK, remove_strike, Roles
  <2>2. [th[t] EXCEPT !.pc = "lifted"] \in Thread /\ AfterReinstate(th[t]) \in Thread
    BY <1>0, ThreadFields DEF ThreadPc
  <2> QED
    BY <1>5, <2>1, <2>2, GotoTypeOK DEF ReinstateLift, TypeOK, chainVars
<1>6. CASE ReinstateCommit(t)
  <2>1. [m EXCEPT !.status = "participant_funded", !.missed = FALSE,
                  !.closed_at = NoTime] \in Match
    BY <1>0 DEF Match, MatchStatus
  <2>2. /\ [IdleThread EXCEPT !.pc = "push", !.role = "participant", !.msg = "funded"] \in Thread
        /\ [th[t] EXCEPT !.pc = "put_watch"] \in Thread
    BY <1>0, ThreadFields DEF ThreadPc, Roles, MsgTypes
  <2> QED
    BY <1>6, <2>1, <2>2 DEF ReinstateCommit, TypeOK, chainVars
<1>7. CASE PutWatch(t)
  <2>1. th[t].out \in Outs
    BY <1>7 DEF PutWatch, OutNamed
  <2> QED
    BY <1>7, <1>0, <2>1, InitialValues DEF PutWatch, TypeOK, chainVars, Other, Roles, Kinds
<1>8. CASE ThreadFails(t)
  <2>1. [th[t] EXCEPT !.pc = "put_watch"] \in Thread
    BY <1>0, ThreadFields DEF ThreadPc
  <2>2. faults' \in 0..MaxFaults
    BY <1>8, SwapMatchConstants DEF ThreadFails, TypeOK
  <2> QED
    BY <1>8, <2>1, <2>2, InitialValues DEF ThreadFails, TypeOK, chainVars
<1> QED
  BY <1>1, <1>2, <1>3, <1>4, <1>5, <1>6, <1>7, <1>8 DEF Serve

\* A step of the watchtower preserves the types.
LEMMA TowerTypeOK ==
    ASSUME TypeOK, TowerNext \/ TowerFails
    PROVE  TypeOK'
<1>0. /\ m \in Match /\ tower \in TowerState
      /\ tower.at \in Times /\ now \in Times
  BY DEF TypeOK, TowerState
<1>a. \A pc \in TowerPc : TowerAt(pc) \in TowerState
  BY <1>0, InitialValues DEF TowerAt, TowerState
<1> USE DEF TowerPc
<1>1. CASE TowerStart \/ TickNothing \/ ClockRelay
  <2>1. relayed' \in [Roles \cup {"edge"} -> [MsgTypes -> Nat]]
    BY <1>1 DEF TowerStart, TickNothing, TowerGoto, ClockRelay, TypeOK, MsgTypes
  <2>2. tower' \in TowerState
    BY <1>1, <1>0, <1>a, InitialValues DEF TowerStart, TickNothing, TowerGoto, ClockRelay, TowerState
  <2> QED
    BY <1>1, <2>1, <2>2 DEF TowerStart, TickNothing, TowerGoto, ClockRelay, TypeOK, chainVars
<1>2. CASE TickUnaccepted \/ TickCancel \/ CloseWrite
  <2>1. \A s \in MatchStatus, b \in BOOLEAN :
           /\ [m EXCEPT !.status = s, !.closed_at = tower.at] \in Match
           /\ [m EXCEPT !.status = s, !.closed_at = tower.at, !.missed = b] \in Match
    BY <1>0 DEF Match
  <2>a. (m.missed \/ m.status = "initiator_funded") \in BOOLEAN
    OBVIOUS
  <2>2. m' \in Match
    <3>1. CASE TickUnaccepted
      BY <3>1, <2>1 DEF TickUnaccepted, MatchStatus
    <3>2. CASE TickCancel
      BY <3>2, <2>1, <2>a DEF TickCancel, MatchStatus
    <3>3. CASE CloseWrite
      BY <3>3, <2>1, <1>0 DEF CloseWrite, MatchStatus
    <3> QED
      BY <1>2, <3>1, <3>2, <3>3
  <2> QED
    BY <1>2, <1>a, <2>2 DEF TickUnaccepted, TickCancel, CloseWrite, TypeOK, chainVars
<1>3. ASSUME NEW r \in Roles, TickStrike(r) PROVE TypeOK'
  <2>1. strikes' \in [Roles -> [Times -> Nat]]
    BY <1>3, <1>0 DEF TickStrike, TypeOK
  <2>2. tower' \in TowerState
    BY <1>3, <1>0 DEF TickStrike, TowerState
  <2> QED
    BY <1>3, <2>1, <2>2 DEF TickStrike, TypeOK, chainVars
<1>4. CASE ClockRead \/ CloseRead
  <2>1. \A pc \in TowerPc : [tower EXCEPT !.pc = pc, !.seen = m] \in TowerState
    BY <1>0 DEF TowerState
  <2>2. tower' \in TowerState
    BY <1>4, <1>a, <2>1 DEF ClockRead, CloseRead, TowerGoto
  <2> QED
    BY <1>4, <2>2 DEF ClockRead, CloseRead, TowerGoto, TypeOK, chainVars
<1>5. CASE ClockWrite
  <2>1. \A d \in Nat : [m EXCEPT !.fund_by = d] \in Match
    BY <1>0 DEF Match
  <2>2. (IF tower.at + ParticipantFundSecs < FundLatest
           THEN tower.at + ParticipantFundSecs ELSE FundLatest) \in Nat
    BY <1>0, SwapMatchConstants DEF Times
  <2> QED
    BY <1>5, <1>a, <2>1, <2>2 DEF ClockWrite, TowerGoto, TypeOK, chainVars
<1>6. CASE TowerFails
  <2>1. faults' \in 0..MaxFaults
    BY <1>6, SwapMatchConstants DEF TowerFails, TypeOK
  <2>2. tower' \in TowerState
    BY <1>6, <1>a DEF TowerFails
  <2> QED
    BY <1>6, <2>1, <2>2 DEF TowerFails, TypeOK, chainVars
<1> QED
  BY <1>1, <1>2, <1>3, <1>4, <1>5, <1>6 DEF TowerNext

\* A crash, a chain event and the clock preserve the types.
LEMMA WorldTypeOK ==
    ASSUME TypeOK, Crash \/ Tick \/ \E o \in Outs : ChainNext(o)
    PROVE  TypeOK'
<1>1. CASE Crash
  <2>1. faults' \in 0..MaxFaults
    BY <1>1, SwapMatchConstants DEF Crash, TypeOK
  <2> QED
    BY <1>1, <2>1, InitialValues DEF Crash, TypeOK, chainVars
<1>2. CASE Tick
  <2>1. now' \in Times
    BY <1>2, SwapMatchConstants DEF Tick, TypeOK, Times
  <2> QED
    BY <1>2, <2>1 DEF Tick, TypeOK, chainVars, edgeVars
<1>3. ASSUME NEW o \in Outs, ChainNext(o) PROVE TypeOK'
  <2>1. chain' \in [Outs -> ChainState]
    BY <1>3 DEF ChainNext, Broadcast, Bury, Spend, Evict, Reorg, EvictSpend, Mine,
       Forward, Rewind, ChainStep, TypeOK, ChainState
  <2>2. mined_at' \in [BtcOut -> Times]
    BY <1>3, SwapMatchConstants DEF ChainNext, Broadcast, Bury, Spend, Evict, Reorg, EvictSpend, Mine,
       Forward, Rewind, ChainStep, TypeOK, Times
  <2>3. rewinds' \in 0..MaxRewinds
    BY <1>3, SwapMatchConstants DEF ChainNext, Broadcast, Bury, Spend, Evict, Reorg, EvictSpend, Mine,
       Forward, Rewind, ChainStep, TypeOK
  <2>4. UNCHANGED <<edgeVars, now, faults>>
    BY <1>3 DEF ChainNext, Broadcast, Bury, Spend, Evict, Reorg, EvictSpend, Mine,
       Forward, Rewind, ChainStep
  <2> QED
    BY <2>1, <2>2, <2>3, <2>4 DEF TypeOK, edgeVars
<1> QED
  BY <1>1, <1>2, <1>3

-----------------------------------------------------------------------------
(* Who writes the match, and what every write keeps                        *)

\* The steps of threads that store a match.
ThreadWrites(t) ==
    \/ \E r \in Roles : Accept(t, r) \/ Decline(t, r) \/ Keys(t, r)
    \/ Hashlock(t) \/ ReleaseRequest(t) \/ Release(t)
    \/ FundedCommit(t) \/ RecordCommit(t) \/ ReinstateCommit(t)

\* The steps of the watchtower that store a match.
TowerWrites == TickUnaccepted \/ TickCancel \/ ClockWrite \/ CloseWrite

\* No other step changes the stored match.
LEMMA Writers ==
    ASSUME Next
    PROVE  m' = m \/ (\E t \in Threads : ThreadWrites(t)) \/ TowerWrites
<1>1. ASSUME NEW t \in Threads, Post(t) \/ Serve(t) \/ ThreadFails(t)
      PROVE  m' = m \/ ThreadWrites(t)
  <2>1. CASE Post(t)
    BY <2>1 DEF Post, ThreadWrites, FundedCheck, LateFundedCheck, WatchRefund, WatchRedeem,
       RecordCheck, Goto
  <2>2. CASE Serve(t)
    BY <2>2 DEF Serve, ThreadWrites, Push, ReinstateRead, ReinstateLift, PutWatch, Goto
  <2> QED
    BY <1>1, <2>1, <2>2 DEF ThreadFails
<1>2. ASSUME TowerNext \/ TowerFails PROVE m' = m \/ TowerWrites
  BY <1>2 DEF TowerNext, TowerWrites, TowerFails, TowerStart, TickStrike, TickNothing,
     ClockRead, ClockRelay, CloseRead, TowerGoto
<1>3. ASSUME Crash \/ Tick \/ \E o \in Outs : ChainNext(o) PROVE m' = m
  BY <1>3 DEF Crash, Tick, ChainNext, Broadcast, Bury, Spend, Evict, Reorg, EvictSpend, Mine,
     Forward, Rewind, ChainStep, edgeVars
<1> QED
  BY <1>1, <1>2, <1>3 DEF Next

\* What is recorded in the match is never taken back or overwritten.
Kept ==
    /\ \A r \in Roles :
          /\ m.funding[r] # None => m'.funding[r] = m.funding[r]
          /\ m.keys[r] => m'.keys[r]
          /\ m.accepted[r] => m'.accepted[r]
    /\ m.hashlock => m'.hashlock
    /\ m.fund_by # NoTime => m'.fund_by = m.fund_by
    /\ m.release_txs => m'.release_txs
    /\ m.release_sigs => m'.release_sigs

\* Every step keeps it: a funding is stored only over none or itself, the
\* participant's deadline only over none.
LEMMA KeptStep ==
    ASSUME TypeOK, OutNamed, Next
    PROVE  Kept
<1>0. m \in Match
  BY DEF TypeOK
<1>1. CASE m' = m
  BY <1>1 DEF Kept
<1>2. ASSUME NEW t \in Threads, ThreadWrites(t) PROVE Kept
  <2>1. ASSUME NEW r \in Roles, Accept(t, r) \/ Decline(t, r) \/ Keys(t, r) PROVE Kept
    <3>1. CASE Accept(t, r)
      BY <1>0, <3>1 DEF Accept, PutThenPush, Kept, Match
    <3>2. CASE Decline(t, r)
      BY <1>0, <3>2 DEF Decline, PutThenPush, Kept, Match
    <3>3. CASE Keys(t, r)
      BY <1>0, <3>3 DEF Keys, PutThenPush, Kept, Match
    <3> QED
      BY <2>1, <3>1, <3>2, <3>3
  <2>2. CASE Hashlock(t) \/ ReleaseRequest(t) \/ Release(t)
    BY <1>0, <2>2 DEF Hashlock, ReleaseRequest, Release, PutThenPush, Kept, Match
  <2>3. CASE FundedCommit(t)
    <3>1. th[t].role \in Roles
      BY DEF TypeOK, Thread
    <3>2. \/ UNCHANGED m
          \/ /\ m.funding[th[t].role] \in {None, th[t].out}
             /\ m' = [m EXCEPT !.funding[th[t].role] = th[t].out, !.status = Funds(th[t].role)]
      BY <2>3 DEF FundedCommit, PutThenPush, Goto
    <3> QED
      BY <1>0, <1>1, <3>1, <3>2 DEF Kept, Match
  <2>4. CASE RecordCommit(t)
    <3>1. th[t].role \in Roles
      BY DEF TypeOK, Thread
    <3> QED
      BY <1>0, <2>4, <3>1 DEF RecordCommit, Goto, Kept, Match
  <2>5. CASE ReinstateCommit(t)
    BY <1>0, <2>5 DEF ReinstateCommit, Kept, Match
  <2> QED
    BY <1>2, <2>1, <2>2, <2>3, <2>4, <2>5 DEF ThreadWrites
<1>3. CASE TowerWrites
  <2>1. CASE TickUnaccepted
    BY <1>0, <2>1 DEF TickUnaccepted, Kept, Match
  <2>2. CASE TickCancel
    BY <1>0, <2>2 DEF TickCancel, Kept, Match
  <2>3. CASE ClockWrite
    BY <1>0, <2>3 DEF ClockWrite, TowerGoto, Kept, Match
  <2>4. CASE CloseWrite
    BY <1>0, <2>4 DEF CloseWrite, Kept, Match
  <2> QED
    BY <1>3, <2>1, <2>2, <2>3, <2>4 DEF TowerWrites
<1> QED
  BY <1>1, <1>2, <1>3, Writers

-----------------------------------------------------------------------------
(* The inductive step, part by part                                        *)

\* While the lock is held for a two-step write, only its holder writes.
LEMMA WriteNeedsLock ==
    ASSUME IInv, Next, m' # m
    PROVE  \/ lock = None
           \/ \E t \in Threads : ReinstateCommit(t) /\ lock = t
           \/ TickCancel /\ lock = Tower
<1>1. ASSUME NEW t \in Threads, ThreadWrites(t)
      PROVE  lock = None \/ (ReinstateCommit(t) /\ lock = t)
  BY <1>1 DEF ThreadWrites, Accept, Decline, Keys, Hashlock, ReleaseRequest, Release, Free,
     FundedCommit, RecordCommit, ReinstateCommit, IInv, LockHeld
<1>2. ASSUME TowerWrites PROVE lock = None \/ (TickCancel /\ lock = Tower)
  BY <1>2 DEF TowerWrites, TickUnaccepted, TickCancel, ClockWrite, CloseWrite, IInv, LockHeld
<1> QED
  BY <1>1, <1>2, Writers

\* The match stays accounted for: every funded status on evidence, a released
\* match cancelled.
LEMMA MatchInvStep ==
    ASSUME IInv, Next
    PROVE  MatchInv'
<1> USE DEF MatchInv, FundedOnEvidence, ReleasedStaysCancelled
<1>0. /\ m \in Match /\ MatchInv /\ None \notin Outs
      /\ \A o \in Outs : o # None
  BY SwapMatchConstants DEF IInv, TypeOK
<1>1. CASE m' = m
  BY <1>0, <1>1 DEF LegOut
<1>2. ASSUME NEW t \in Threads, ThreadWrites(t) PROVE MatchInv'
  <2>0. /\ th[t].role \in Roles
        /\ th[t].pc \in {"funded", "record"} => th[t].out \in Outs /\ th[t].out # None
        /\ ThreadInv(t)
    BY <1>0 DEF IInv, TypeOK, Thread, OutNamed
  <2>1. ASSUME NEW r \in Roles, Accept(t, r) PROVE MatchInv'
    BY <1>0, <2>1 DEF Accept, PutThenPush, Match, LegOut, Other, Roles
  <2>2. ASSUME NEW r \in Roles, Decline(t, r) PROVE MatchInv'
    BY <1>0, <2>2 DEF Decline, PutThenPush, Match, LegOut
  <2>3. ASSUME NEW r \in Roles, Keys(t, r) PROVE MatchInv'
    BY <1>0, <2>3 DEF Keys, PutThenPush, Match, LegOut
  <2>4. CASE Hashlock(t) \/ ReleaseRequest(t)
    BY <1>0, <2>4 DEF Hashlock, ReleaseRequest, PutThenPush, Match, LegOut
  <2>5. CASE Release(t)
    BY <1>0, <2>5 DEF Release, releasable, PutThenPush, Match, LegOut
  <2>6. CASE FundedCommit(t)
    <3>0. \/ m' = m
          \/ /\ m.status = Needs(th[t].role)
             /\ m' = [m EXCEPT !.funding[th[t].role] = th[t].out, !.status = Funds(th[t].role)]
             /\ th[t].out \in LegOut(th[t].role) /\ th[t].out # None
      BY <2>0, <2>6 DEF FundedCommit, PutThenPush, Goto, ThreadInv
    <3>1. CASE m' = m
      BY <1>1, <3>1
    <3>a. CASE m' # m
      <4>1. /\ m'.status = Funds(th[t].role) /\ m.status = Needs(th[t].role)
            /\ m'.accepted = m.accepted /\ m'.missed = m.missed
            /\ m'.release_sigs = m.release_sigs
            /\ m'.funding = [m.funding EXCEPT ![th[t].role] = th[t].out]
        BY <1>0, <3>0, <3>a DEF Match
      <4>2. m.funding \in [Roles -> Outs \cup {None}]
        BY <1>0 DEF Match
      <4> HIDE DEF MatchInv
      <4>3. CASE th[t].role = "initiator"
        <5>1. /\ m'.status = "initiator_funded" /\ m.status = "accepted"
              /\ m'.funding["initiator"] \in XbtOut /\ m'.funding["initiator"] # None
              /\ m'.funding["participant"] = m.funding["participant"]
          BY <4>1, <4>2, <4>3, <3>0, <3>a DEF Needs, Funds, LegOut, Roles
        <5> QED
          BY <1>0, <4>1, <5>1 DEF MatchInv, LegOut, Roles
      <4>4. CASE th[t].role = "participant"
        <5>1. /\ m'.status = "participant_funded" /\ m.status = "initiator_funded"
              /\ m'.funding["participant"] \in BtcOut /\ m'.funding["participant"] # None
              /\ m'.funding["initiator"] = m.funding["initiator"]
          BY <4>1, <4>2, <4>4, <3>0, <3>a DEF Needs, Funds, LegOut, Roles
        <5> QED
          BY <1>0, <4>1, <5>1 DEF MatchInv, LegOut, Roles
      <4> QED
        BY <4>3, <4>4, <2>0 DEF Roles
    <3> QED
      BY <3>1, <3>a
  <2>7. CASE RecordCommit(t)
    BY <1>0, <2>0, <2>7 DEF RecordCommit, Goto, Match, LegOut, ThreadInv, Roles
  <2>8. CASE ReinstateCommit(t)
    BY <1>0, <2>0, <2>8 DEF ReinstateCommit, Match, LegOut, ThreadInv, eligible
  <2> QED
    BY <1>2, <2>1, <2>2, <2>3, <2>4, <2>5, <2>6, <2>7, <2>8 DEF ThreadWrites
<1>3. CASE TowerWrites
  <2>0. TowerInv
    BY DEF IInv
  <2>1. CASE TickUnaccepted
    BY <1>0, <2>1 DEF TickUnaccepted, Overdue_accept, Match, LegOut
  <2>2. CASE TickCancel
    BY <1>0, <2>0, <2>2 DEF TickCancel, TowerInv, Match, LegOut
  <2>3. CASE ClockWrite
    BY <1>0, <2>3 DEF ClockWrite, TowerGoto, Match, LegOut
  <2>4. CASE CloseWrite
    BY <1>0, <2>0, <2>4 DEF CloseWrite, TowerInv, Match, LegOut
  <2> QED
    BY <1>3, <2>1, <2>2, <2>3, <2>4 DEF TowerWrites
<1> QED
  BY <1>1, <1>2, <1>3, Writers

\* The lock stays with whoever is between the two halves of a write.
LEMMA LockHeldStep ==
    ASSUME IInv, Next
    PROVE  LockHeld'
<1>0. /\ LockHeld /\ th \in [Threads -> Thread] /\ Tower \notin Threads
      /\ None \notin Threads /\ None # Tower
  BY SwapMatchConstants DEF IInv, TypeOK
<1>1. ASSUME NEW t \in Threads, Post(t) PROVE LockHeld'
  <2>1. /\ th' = [th EXCEPT ![t] = th'[t]]
        /\ th'[t].pc \in {"push", "funded", "record", "reinstate", "put_watch"}
    BY <1>1, PostThread DEF IInv
  <2>2. tower' = tower /\ (lock' = lock \/ lock = None)
    BY <1>1 DEF Post, Accept, Decline, Keys, Hashlock, ReleaseRequest, Release, Free,
       FundedCheck, LateFundedCheck, WatchRefund, WatchRedeem, RecordCheck, PutThenPush, Goto
  <2> QED
    BY <1>0, <2>1, <2>2 DEF LockHeld
<1>2. ASSUME NEW t \in Threads, Serve(t) \/ ThreadFails(t) PROVE LockHeld'
  <2>1. CASE Push(t)
    BY <1>0, <2>1 DEF Push, LockHeld, IdleThread
  <2>2. CASE FundedCommit(t)
    BY <1>0, <2>2 DEF FundedCommit, PutThenPush, Goto, LockHeld, IdleThread
  <2>3. CASE RecordCommit(t)
    BY <1>0, <2>3 DEF RecordCommit, Goto, AfterRecord, LockHeld, IdleThread, Thread
  <2>4. CASE ReinstateRead(t)
    <3>a. th[t] \in Thread
      BY <1>0
    <3>b. /\ [th[t] EXCEPT !.pc = "reinstating", !.seen = m.funding["participant"]].pc # "lifted"
          /\ AfterReinstate(th[t]).pc # "lifted"
      BY <3>a, ThreadShapes DEF Thread
    <3>1. th' = [th EXCEPT ![t] = th'[t]] /\ th'[t].pc # "lifted"
      BY <1>0, <2>4, <3>b DEF ReinstateRead, Goto
    <3> QED
      BY <1>0, <2>4, <3>1 DEF ReinstateRead, Goto, LockHeld
  <2>5. CASE ReinstateLift(t)
    BY <1>0, <2>5 DEF ReinstateLift, Goto, AfterReinstate, LockHeld, IdleThread, Thread
  <2>6. CASE ReinstateCommit(t)
    BY <1>0, <2>6 DEF ReinstateCommit, LockHeld, IdleThread, Thread
  <2>7. CASE PutWatch(t)
    BY <1>0, <2>7 DEF PutWatch, LockHeld, IdleThread
  <2>8. CASE ThreadFails(t)
    BY <1>0, <2>8 DEF ThreadFails, LockHeld, IdleThread, Thread
  <2> QED
    BY <1>2, <2>1, <2>2, <2>3, <2>4, <2>5, <2>6, <2>7, <2>8 DEF Serve
<1>3. ASSUME TowerNext \/ TowerFails PROVE LockHeld'
  <2>1. tower \in TowerState
    BY DEF IInv, TypeOK
  <2>2. CASE \E r \in Roles : TickStrike(r)
    BY <1>0, <2>1, <2>2 DEF TickStrike, LockHeld, TowerState
  <2>3. CASE TickCancel \/ TowerFails
    <3>1. th' = th /\ lock' = (IF lock = Tower THEN None ELSE lock) /\ tower'.pc # "cancel"
      BY <1>0, <2>3 DEF TickCancel, TowerFails, TowerAt, IdleTower, LockHeld
    <3> QED
      BY <1>0, <3>1 DEF LockHeld
  <2>4. CASE TowerNext /\ ~TickCancel /\ ~\E r \in Roles : TickStrike(r)
    <3>1. UNCHANGED <<th, lock>>
      BY <2>4 DEF TowerNext, TowerStart, TickUnaccepted, TickNothing, ClockRead, ClockWrite,
         ClockRelay, CloseRead, CloseWrite, TowerGoto
    <3>2. /\ \A pc : TowerAt(pc).pc = pc
          /\ \A pc : [tower EXCEPT !.pc = pc, !.seen = m].pc = pc
      BY <2>1 DEF TowerAt, IdleTower, TowerState
    <3>3. tower'.pc # "cancel"
      <4>1. CASE TowerStart
        BY <4>1 DEF TowerStart
      <4>2. CASE TickUnaccepted \/ TickNothing \/ ClockWrite \/ ClockRelay \/ CloseWrite
        BY <3>2, <4>2 DEF TickUnaccepted, TickNothing, ClockWrite, ClockRelay, CloseWrite, TowerGoto
      <4>3. CASE ClockRead \/ CloseRead
        BY <3>2, <4>3 DEF ClockRead, CloseRead, TowerGoto
      <4> QED
        BY <2>4, <4>1, <4>2, <4>3 DEF TowerNext
    <3> QED
      BY <1>0, <3>1, <3>3 DEF LockHeld
  <2> QED
    BY <1>3, <2>2, <2>3, <2>4
<1>4. ASSUME Crash PROVE LockHeld'
  BY <1>0, <1>4 DEF Crash, LockHeld, IdleThread, IdleTower
<1>5. ASSUME Tick \/ \E o \in Outs : ChainNext(o) PROVE LockHeld'
  <2>1. UNCHANGED <<lock, th, tower>>
    BY <1>5 DEF Tick, ChainNext, Broadcast, Bury, Spend, Evict, Reorg, EvictSpend, Mine,
       Forward, Rewind, ChainStep, edgeVars
  <2> QED
    BY <1>0, <2>1 DEF LockHeld
<1> QED
  BY <1>1, <1>2, <1>3, <1>4, <1>5 DEF Next

\* A step of thread t leaves the other threads where they are; the other
\* steps leave all threads, or (a crash) make all of them idle.
LEMMA OtherThreads ==
    ASSUME TypeOK, Next, NEW u \in Threads
    PROVE  \/ th'[u] = th[u]
           \/ th'[u] = IdleThread
           \/ Post(u) \/ Serve(u) \/ ThreadFails(u)
<1>0. th \in [Threads -> Thread]
  BY DEF TypeOK
<1>1. ASSUME NEW t \in Threads, t # u, Post(t) PROVE th'[u] = th[u]
  BY <1>0, <1>1, PostThread
<1>2. ASSUME NEW t \in Threads, t # u, Serve(t) \/ ThreadFails(t) PROVE th'[u] = th[u]
  BY <1>0, <1>2 DEF Serve, ThreadFails, Push, FundedCommit, PutThenPush, RecordCommit,
     ReinstateRead, ReinstateLift, ReinstateCommit, PutWatch, Goto
<1>3. ASSUME TowerNext \/ TowerFails PROVE th'[u] = th[u]
  BY <1>3 DEF TowerNext, TowerFails, TowerStart, TickUnaccepted, TickStrike, TickCancel, TickNothing,
     ClockRead, ClockWrite, ClockRelay, CloseRead, CloseWrite, TowerGoto
<1>4. ASSUME Crash PROVE th'[u] = IdleThread
  BY <1>4 DEF Crash
<1>5. ASSUME Tick \/ \E o \in Outs : ChainNext(o) PROVE th'[u] = th[u]
  BY <1>5 DEF Tick, ChainNext, Broadcast, Bury, Spend, Evict, Reorg, EvictSpend, Mine,
     Forward, Rewind, ChainStep, edgeVars
<1> QED
  BY <1>1, <1>2, <1>3, <1>4, <1>5 DEF Next

\* What a thread that does not move knows stays true: what it found recorded
\* is kept, and nobody writes the match while it holds the lock.
LEMMA ThreadInvKept ==
    ASSUME IInv, Next, NEW u \in Threads, th'[u] = th[u]
    PROVE  ThreadInv(u)' /\ (th'[u].pc \notin {"idle", "push"} => th'[u].out \in Outs)
<1>k. Kept
  BY KeptStep DEF IInv
<1>0. /\ ThreadInv(u) /\ th[u] \in Thread /\ m \in Match
      /\ None \notin Outs
      /\ th[u].pc \notin {"idle", "push"} => th[u].out \in Outs
  BY SwapMatchConstants DEF IInv, OutNamed, TypeOK
<1>1. /\ th[u].role \in Roles /\ Other(th[u].role) \in Roles /\ Leg(th[u]) \in Roles
      /\ "participant" \in Roles /\ "initiator" \in Roles
  BY <1>0 DEF Thread, Roles, Other, Leg
<1>2. \A r \in Roles : \A y : Stored(r, y) => Stored(r, y)'
  <2> TAKE r \in Roles
  <2> TAKE y
  <2>1. /\ m.funding[r] # None => m'.funding[r] # None
        /\ m.keys[r] => m'.keys[r]
        /\ m.accepted[r] => m'.accepted[r]
        /\ m.hashlock => m'.hashlock
        /\ m.release_sigs => m'.release_sigs
    BY <1>k DEF Kept
  <2> QED
    BY <2>1 DEF Stored
<1>3. ASSUME th[u].pc = "lifted" PROVE m' = m
  <2>1. lock = u /\ u # None /\ u # Tower
    BY <1>3, SwapMatchConstants DEF IInv, LockHeld
  <2>2. ASSUME NEW t \in Threads, ReinstateCommit(t), lock = t PROVE FALSE
    <3>1. ReinstateCommit(u)
      BY <2>1, <2>2
    <3>2. th'[u].pc # "lifted"
      BY <3>1, <1>0 DEF ReinstateCommit, IInv, TypeOK, IdleThread, Thread
    <3> QED
      BY <3>2, <1>3
  <2> QED
    BY <2>1, <2>2, WriteNeedsLock
<1>4. ASSUME th[u].pc \in {"reinstate", "reinstating", "lifted", "put_watch"}
      PROVE  m'.funding[Leg(th[u])] = th[u].out
  <2>1. m.funding[Leg(th[u])] = th[u].out /\ th[u].out # None
    BY <1>0, <1>4 DEF ThreadInv
  <2> QED
    BY <1>k, <1>1, <2>1 DEF Kept
<1> QED
  BY <1>0, <1>1, <1>2, <1>3, <1>4 DEF ThreadInv, Leg, eligible

\* An idle thread, and one about to push what is stored, know enough.
LEMMA PushInv ==
    ASSUME NEW u \in Threads, TypeOK,
           \/ th'[u] = IdleThread
           \/ \E r \in Roles, y \in MsgTypes :
                /\ th'[u] = [IdleThread EXCEPT !.pc = "push", !.role = r, !.msg = y]
                /\ Stored(r, y)'
    PROVE  ThreadInv(u)' /\ th'[u].pc \in {"idle", "push"}
<1>1. CASE th'[u] = IdleThread
  BY <1>1 DEF ThreadInv, IdleThread
<1>2. ASSUME NEW r \in Roles, NEW y \in MsgTypes,
             th'[u] = [IdleThread EXCEPT !.pc = "push", !.role = r, !.msg = y],
             Stored(r, y)'
      PROVE  ThreadInv(u)' /\ th'[u].pc \in {"idle", "push"}
  <2>1. th'[u].pc = "push" /\ th'[u].role = r /\ th'[u].msg = y
    BY <1>2 DEF IdleThread
  <2> QED
    BY <1>2, <2>1 DEF ThreadInv
<1> QED
  BY <1>1, <1>2

\* A thread that takes a request knows what its handler checked.
LEMMA PostInv ==
    ASSUME IInv, NEW u \in Threads, Post(u)
    PROVE  ThreadInv(u)' /\ (th'[u].pc \notin {"idle", "push"} => th'[u].out \in Outs)
<1>0. /\ TypeOK /\ m \in Match /\ th \in [Threads -> Thread] /\ None \notin Outs
      /\ \A r \in Roles : m.funding[r] # None => m.funding[r] \in LegOut(r)
  BY SwapMatchConstants DEF IInv, TypeOK, MatchInv, FundedOnEvidence
<1>1. ASSUME NEW mm \in Match, NEW r \in Roles, NEW y \in MsgTypes, NEW holder,
             PutThenPush(u, mm, r, y, holder),
             /\ y # "funded"
             /\ y = "keys" => mm.keys[r]
             /\ y = "accept" => mm.accepted[r]
             /\ y = "hashlock" => mm.hashlock
             /\ y = "release" => mm.release_sigs
      PROVE  ThreadInv(u)' /\ th'[u].pc \in {"idle", "push"}
  <2>1. th'[u] = [IdleThread EXCEPT !.pc = "push", !.role = r, !.msg = y] /\ m' = mm
    BY <1>0, <1>1 DEF PutThenPush
  <2>2. Stored(r, y)'
    BY <1>1, <2>1 DEF Stored
  <2> QED
    BY <1>0, <2>1, <2>2, PushInv
<1>2. ASSUME NEW r \in Roles, Accept(u, r) \/ Decline(u, r) \/ Keys(u, r)
      PROVE  ThreadInv(u)' /\ th'[u].pc \in {"idle", "push"}
  <2> USE DEF MsgTypes
  <2>1. CASE Accept(u, r)
    <3> DEFINE mm == [m EXCEPT !.accepted[r] = TRUE,
                               !.status = IF m.accepted[Other(r)] THEN "accepted" ELSE @]
    <3>1. mm \in Match /\ mm.accepted[r]
      BY <1>0 DEF Match, MatchStatus
    <3>2. PutThenPush(u, mm, r, "accept", u)
      BY <2>1 DEF Accept
    <3> QED
      BY <1>1, <3>1, <3>2
  <2>2. CASE Decline(u, r)
    <3> DEFINE mm == [m EXCEPT !.status = "cancelled", !.closed_at = now]
    <3>1. mm \in Match
      BY <1>0 DEF TypeOK, Match, MatchStatus
    <3>2. PutThenPush(u, mm, r, "decline", None)
      BY <2>2 DEF Decline
    <3> QED
      BY <1>1, <3>1, <3>2
  <2>3. CASE Keys(u, r)
    <3> DEFINE mm == [m EXCEPT !.keys[r] = TRUE]
    <3>1. mm \in Match /\ mm.keys[r]
      BY <1>0 DEF Match
    <3>2. PutThenPush(u, mm, r, "keys", u)
      BY <2>3 DEF Keys
    <3> QED
      BY <1>1, <3>1, <3>2
  <2> QED
    BY <1>2, <2>1, <2>2, <2>3
<1>3. ASSUME Hashlock(u) \/ ReleaseRequest(u) \/ Release(u)
      PROVE  ThreadInv(u)' /\ th'[u].pc \in {"idle", "push"}
  <2>1. /\ [m EXCEPT !.hashlock = TRUE] \in Match /\ [m EXCEPT !.hashlock = TRUE].hashlock
        /\ [m EXCEPT !.release_txs = TRUE] \in Match
        /\ [m EXCEPT !.release_sigs = TRUE] \in Match /\ [m EXCEPT !.release_sigs = TRUE].release_sigs
    BY <1>0 DEF Match
  <2> QED
    BY <1>1, <1>3, <2>1 DEF Hashlock, ReleaseRequest, Release, MsgTypes, Roles
<1>4. ASSUME NEW r \in Roles, NEW o \in Outs, FundedCheck(u, r, o) \/ WatchRedeem(u, r, o)
      PROVE  ThreadInv(u)' /\ th'[u].out \in Outs
  <2>0. o # None /\ m' = m
    BY <1>0, <1>4 DEF FundedCheck, WatchRedeem, Goto
  <2>1. CASE FundedCheck(u, r, o)
    <3>1. th'[u] = At("funded", r, "funded", o)
      BY <1>0, <2>1 DEF FundedCheck, Goto
    <3>2. th'[u].pc = "funded" /\ th'[u].role = r /\ th'[u].out = o
      BY <3>1, InitialValues, ThreadShapes
    <3>3. o \in LegOut(r)
      BY <1>0, <2>0, <2>1 DEF FundedCheck, LegPaid
    <3> QED
      BY <3>2, <3>3 DEF ThreadInv, LegOut
  <2>2. CASE WatchRedeem(u, r, o)
    <3>1. th'[u] = At("put_watch", r, "redeem", o)
      BY <1>0, <2>2 DEF WatchRedeem, Goto
    <3>2. /\ th'[u].pc = "put_watch" /\ th'[u].role = r /\ th'[u].out = o
          /\ th'[u].via = "redeem"
      BY <3>1, InitialValues, ThreadShapes
    <3>3. m'.funding[Other(r)] = o
      BY <2>0, <2>2 DEF WatchRedeem
    <3> QED
      BY <3>2, <3>3 DEF ThreadInv, Leg, Kinds, Other
  <2> QED
    BY <1>4, <2>1, <2>2
<1>5. ASSUME NEW r \in Roles, NEW o \in Outs, NEW via \in {"late", "refund"},
             RecordCheck(u, At("record", r, via, o))
      PROVE  ThreadInv(u)' /\ th'[u].out \in Outs
  <2> DEFINE a == At("record", r, via, o)
  <2>0. a \in Thread /\ a.role = r /\ a.via = via /\ a.out = o /\ a.pc = "record"
    <3>1. a \in Thread
      BY InitialValues, ThreadFields DEF ThreadPc, Kinds
    <3>2. a.role = r /\ a.via = via /\ a.out = o /\ a.pc = "record"
      BY InitialValues, ThreadShapes
    <3> QED
      BY <3>1, <3>2
  <2> HIDE DEF a
  <2>a. RecordCheck(u, a)
    BY <1>5 DEF a
  <2>1. CASE m.funding[r] = o /\ Goto(u, AfterRecord(a))
    <3>1. m' = m /\ th'[u] = AfterRecord(a)
      BY <1>0, <2>1 DEF Goto
    <3>2. /\ th'[u].role = r /\ th'[u].via = via /\ th'[u].out = o
          /\ th'[u].pc \in {"reinstate", "put_watch"}
          /\ th'[u].pc = "put_watch" => via = "refund"
      BY <2>0, <3>1, ThreadShapes
    <3>3. m'.funding[r] = o /\ Leg(th'[u]) = r
      BY <2>1, <3>1, <3>2 DEF Leg
    <3> QED
      BY <3>2, <3>3 DEF ThreadInv, Kinds, Leg
  <2>2. CASE LegPaid(r, o) /\ Goto(u, [a EXCEPT !.pc = "record"])
    <3>1. m' = m /\ th'[u] = [a EXCEPT !.pc = "record"]
      BY <1>0, <2>2 DEF Goto
    <3>2. th'[u].role = r /\ th'[u].via = via /\ th'[u].out = o /\ th'[u].pc = "record"
      BY <2>0, <3>1 DEF Thread
    <3>3. o \in LegOut(r)
      BY <2>2 DEF LegPaid
    <3> QED
      BY <3>2, <3>3 DEF ThreadInv, LegOut
  <2> QED
    BY <2>0, <2>a, <2>1, <2>2 DEF RecordCheck
<1> QED
  BY <1>2, <1>3, <1>4, <1>5 DEF Post, LateFundedCheck, WatchRefund, Roles

\* A thread that goes on knows what it knew, what it checked again under the
\* lock and what it wrote.
LEMMA ServeInv ==
    ASSUME IInv, Next, NEW u \in Threads, Serve(u) \/ ThreadFails(u)
    PROVE  ThreadInv(u)' /\ (th'[u].pc \notin {"idle", "push"} => th'[u].out \in Outs)
<1>0. /\ TypeOK /\ m \in Match /\ th \in [Threads -> Thread] /\ None \notin Outs
      /\ ThreadInv(u) /\ th[u] \in Thread /\ th[u].role \in Roles
      /\ th[u].pc \notin {"idle", "push"} => th[u].out \in Outs
  BY SwapMatchConstants DEF IInv, OutNamed, TypeOK, Thread
<1>i. ASSUME th'[u] = IdleThread
      PROVE  ThreadInv(u)' /\ (th'[u].pc \notin {"idle", "push"} => th'[u].out \in Outs)
  BY <1>0, <1>i, PushInv
\* A thread that keeps its request and moves to put_watch or to reinstate.
<1>m. ASSUME th'[u].role = th[u].role, th'[u].via = th[u].via, th'[u].out = th[u].out,
             th'[u].pc \in {"reinstate", "put_watch"},
             th[u].via \in {"late", "refund"},
             th'[u].pc = "put_watch" => th[u].via = "refund",
             th[u].pc \notin {"idle", "push"},
             m'.funding[th[u].role] = th[u].out
      PROVE  ThreadInv(u)' /\ th'[u].out \in Outs
  <2>1. Leg(th'[u]) = th[u].role
    BY <1>m DEF Leg
  <2> QED
    BY <1>0, <1>m, <2>1 DEF ThreadInv, Kinds, Leg
<1>1. CASE Push(u) \/ PutWatch(u)
  <2>1. th'[u] = IdleThread
    BY <1>0, <1>1 DEF Push, PutWatch
  <2> QED
    BY <1>i, <2>1
<1>2. CASE FundedCommit(u)
  <2>1. CASE th'[u] = IdleThread
    BY <1>i, <2>1
  <2>2. CASE th'[u] # IdleThread
    <3>1. /\ th'[u] = [IdleThread EXCEPT !.pc = "push", !.role = th[u].role, !.msg = "funded"]
          /\ m' = [m EXCEPT !.funding[th[u].role] = th[u].out, !.status = Funds(th[u].role)]
          /\ th[u].out # None
      BY <1>0, <1>2, <2>2 DEF FundedCommit, PutThenPush, Goto
    <3>2. m'.funding[th[u].role] = th[u].out
      BY <1>0, <3>1 DEF Match
    <3> QED
      BY <1>0, <3>1, <3>2, PushInv DEF MsgTypes, Stored
  <2> QED
    BY <2>1, <2>2
<1>3. CASE RecordCommit(u)
  <2>1. CASE th'[u] = IdleThread
    BY <1>i, <2>1
  <2>2. CASE th'[u] # IdleThread
    <3>1. /\ th'[u] = AfterRecord(th[u]) /\ th[u].pc = "record"
          /\ m' = [m EXCEPT !.funding[th[u].role] = th[u].out]
      BY <1>0, <1>3, <2>2 DEF RecordCommit, Goto
    <3>2. m'.funding[th[u].role] = th[u].out
      BY <1>0, <3>1 DEF Match
    <3>3. th[u].via \in {"late", "refund"}
      BY <1>0, <3>1 DEF ThreadInv
    <3> QED
      BY <1>0, <1>m, <3>1, <3>2, <3>3, ThreadShapes
  <2> QED
    BY <2>1, <2>2
<1>4. CASE ReinstateRead(u) \/ ReinstateLift(u)
  <2>0. /\ m' = m /\ th[u].pc \in {"reinstate", "reinstating"}
        /\ th[u].via \in {"late", "refund"}
        /\ Leg(th[u]) = th[u].role /\ m.funding[th[u].role] = th[u].out
    <3>1. m' = m /\ th[u].pc \in {"reinstate", "reinstating"}
      BY <1>4 DEF ReinstateRead, ReinstateLift, Goto
    <3>2. th[u].via \in {"late", "refund"} /\ m.funding[Leg(th[u])] = th[u].out
      BY <1>0, <3>1 DEF ThreadInv
    <3> QED
      BY <3>1, <3>2 DEF Leg
  <2>1. CASE th'[u] = AfterReinstate(th[u])
    <3>1. CASE th'[u].pc = "idle"
      <4>1. th'[u] = IdleThread
        BY <1>0, <2>1, <3>1 DEF AfterReinstate, Thread
      <4> QED
        BY <1>i, <4>1
    <3>2. CASE th'[u].pc # "idle"
      BY <1>0, <1>m, <2>0, <2>1, <3>2, ThreadShapes
    <3> QED
      BY <3>1, <3>2
  <2>2. CASE /\ eligible(m) /\ m.funding["participant"] # None /\ InTime(m)
             /\ th'[u] = [th[u] EXCEPT !.pc = "reinstating", !.seen = m.funding["participant"]]
    <3>1. /\ th'[u].pc = "reinstating" /\ th'[u].seen # None
          /\ th'[u].role = th[u].role /\ th'[u].via = th[u].via /\ th'[u].out = th[u].out
      BY <1>0, <2>2 DEF Thread
    <3>2. Leg(th'[u]) = th[u].role
      BY <2>0, <3>1 DEF Leg
    <3> QED
      BY <1>0, <2>0, <3>1, <3>2 DEF ThreadInv, Leg
  <2>3. CASE /\ eligible(m) /\ m.funding["participant"] # None
             /\ th'[u] = [th[u] EXCEPT !.pc = "lifted"]
    <3>1. /\ th'[u].pc = "lifted"
          /\ th'[u].role = th[u].role /\ th'[u].via = th[u].via /\ th'[u].out = th[u].out
      BY <1>0, <2>3 DEF Thread
    <3>2. Leg(th'[u]) = th[u].role
      BY <2>0, <3>1 DEF Leg
    <3> QED
      BY <1>0, <2>0, <2>3, <3>1, <3>2 DEF ThreadInv, Leg, eligible
  <2>4. CASE ReinstateRead(u)
    <3>1. \/ th'[u] = AfterReinstate(th[u])
          \/ /\ eligible(m) /\ InTime(m)
             /\ th'[u] = [th[u] EXCEPT !.pc = "reinstating", !.seen = m.funding["participant"]]
      BY <1>0, <2>4 DEF ReinstateRead, Goto
    <3>2. InTime(m) => m.funding["participant"] # None
      BY DEF InTime
    <3> QED
      BY <2>1, <2>2, <3>1, <3>2
  <2>5. CASE ReinstateLift(u)
    <3>1. th[u].seen # None
      BY <1>0, <2>5 DEF ReinstateLift, ThreadInv
    <3>2. \/ th'[u] = AfterReinstate(th[u])
          \/ /\ eligible(m) /\ m.funding["participant"] = th[u].seen
             /\ th'[u] = [th[u] EXCEPT !.pc = "lifted"]
      BY <1>0, <2>5 DEF ReinstateLift, Goto
    <3> QED
      BY <2>1, <2>3, <3>1, <3>2
  <2> QED
    BY <1>4, <2>4, <2>5
<1>5. CASE ReinstateCommit(u)
  <2>0. /\ th[u].pc = "lifted" /\ th[u].via \in {"late", "refund"}
        /\ m.funding["participant"] # None
        /\ m.funding[th[u].role] = th[u].out /\ m'.funding = m.funding
    <3>1. th[u].pc = "lifted" /\ th[u].via \in {"late", "refund"} /\ m.funding["participant"] # None
      BY <1>0, <1>5 DEF ReinstateCommit, ThreadInv
    <3>2. m.funding[Leg(th[u])] = th[u].out
      BY <1>0, <3>1 DEF ThreadInv
    <3>3. m'.funding = m.funding
      BY <1>0, <1>5 DEF ReinstateCommit, Match
    <3> QED
      BY <3>1, <3>2, <3>3 DEF Leg
  <2>1. CASE th[u].via = "late"
    <3>1. th'[u] = [IdleThread EXCEPT !.pc = "push", !.role = "participant", !.msg = "funded"]
      BY <1>0, <1>5, <2>1 DEF ReinstateCommit
    <3>2. Stored("participant", "funded")'
      BY <2>0 DEF Stored
    <3> QED
      BY <1>0, <3>1, <3>2, PushInv DEF MsgTypes, Roles
  <2>2. CASE th[u].via = "refund"
    <3>1. th'[u] = [th[u] EXCEPT !.pc = "put_watch"]
      BY <1>0, <1>5, <2>2 DEF ReinstateCommit
    <3>2. /\ th'[u].pc = "put_watch"
          /\ th'[u].role = th[u].role /\ th'[u].via = th[u].via /\ th'[u].out = th[u].out
      BY <1>0, <3>1 DEF Thread
    <3> QED
      BY <1>m, <2>0, <2>2, <3>2
  <2> QED
    BY <2>0, <2>1, <2>2
<1>6. CASE ThreadFails(u)
  <2>0. m' = m
    BY <1>6 DEF ThreadFails
  <2>1. CASE th'[u] = IdleThread
    BY <1>i, <2>1
  <2>2. CASE th'[u] # IdleThread
    <3>1. /\ th[u].via = "refund" /\ th[u].pc \in {"reinstate", "reinstating", "lifted"}
          /\ th'[u] = [th[u] EXCEPT !.pc = "put_watch"]
      BY <1>0, <1>6, <2>2 DEF ThreadFails
    <3>2. /\ th'[u].pc = "put_watch"
          /\ th'[u].role = th[u].role /\ th'[u].via = th[u].via /\ th'[u].out = th[u].out
      BY <1>0, <3>1 DEF Thread
    <3>3. m.funding[th[u].role] = th[u].out
      BY <1>0, <3>1 DEF ThreadInv, Leg
    <3> QED
      BY <1>m, <2>0, <3>1, <3>2, <3>3
  <2> QED
    BY <2>1, <2>2
<1> QED
  BY <1>1, <1>2, <1>3, <1>4, <1>5, <1>6 DEF Serve

\* The watchtower's knowledge is kept the same way.
LEMMA TowerInvStep ==
    ASSUME IInv, Next
    PROVE  TowerInv'
<1>0. /\ TowerInv /\ tower \in TowerState /\ m \in Match /\ Kept
      /\ Tower \notin Threads /\ None # Tower
  BY KeptStep, SwapMatchConstants DEF IInv, TypeOK
<1>a. /\ \A pc : TowerAt(pc).pc = pc
      /\ \A pc : /\ [tower EXCEPT !.pc = pc, !.seen = m].pc = pc
                 /\ [tower EXCEPT !.pc = pc, !.seen = m].seen = m
      /\ \A pc : [tower EXCEPT !.pc = pc].pc = pc
      /\ IdleTower.pc = "idle"
  BY <1>0 DEF TowerAt, IdleTower, TowerState
<1>1. CASE tower' = tower
  <2>1. ASSUME tower.pc = "cancel" PROVE m' = m
    <3>1. lock = Tower /\ \A t \in Threads : lock # t
      BY <1>0, <2>1 DEF IInv, LockHeld
    <3>2. ~TickCancel
      BY <1>1, <1>a, <2>1 DEF TickCancel
    <3> QED
      BY <1>0, <3>1, <3>2, WriteNeedsLock
  <2>2. m.fund_by # NoTime => m'.fund_by # NoTime
    BY <1>0 DEF Kept
  <2> QED
    BY <1>0, <1>1, <2>1, <2>2 DEF TowerInv
<1>2. CASE tower'.pc \notin {"cancel", "close_write", "deadline"}
  BY <1>2 DEF TowerInv
<1>3. ASSUME NEW r \in Roles, TickStrike(r) PROVE TowerInv'
  <2>1. m' = m /\ tower'.pc = "cancel" /\ m.status \in {"accepted", "initiator_funded"}
    BY <1>3, <1>a DEF TickStrike, Overdue_initiator, Overdue_participant
  <2> QED
    BY <2>1 DEF TowerInv
<1>4. CASE ClockWrite
  <2>1. CASE tower'.pc = "deadline"
    <3>1. m' = [m EXCEPT !.fund_by = IF tower.at + ParticipantFundSecs < FundLatest
                                       THEN tower.at + ParticipantFundSecs ELSE FundLatest]
      BY <1>4, <1>a, <2>1 DEF ClockWrite, TowerGoto
    <3>2. m'.fund_by \in Nat
      BY <1>0, <3>1, SwapMatchConstants DEF Match, TowerState, Times
    <3> QED
      BY <2>1, <3>2 DEF TowerInv, NoTime
  <2>2. CASE tower'.pc = "close"
    BY <2>2 DEF TowerInv
  <2> QED
    BY <1>4, <1>a, <2>1, <2>2 DEF ClockWrite, TowerGoto
<1>5. CASE CloseRead
  <2>1. CASE tower'.pc = "idle"
    BY <2>1 DEF TowerInv
  <2>2. CASE tower'.pc = "close_write" /\ tower'.seen = m
             /\ m.status \in {"initiator_funded", "participant_funded"}
    BY <2>2 DEF TowerInv
  <2> QED
    BY <1>5, <1>a, <2>1, <2>2 DEF CloseRead, TowerGoto
<1>6. ASSUME TowerStart \/ TickUnaccepted \/ TickCancel \/ TickNothing \/ ClockRead
               \/ ClockRelay \/ CloseWrite \/ TowerFails \/ Crash
      PROVE  tower'.pc \notin {"cancel", "close_write", "deadline"}
  <2>1. CASE TowerStart \/ Crash
    BY <1>a, <2>1 DEF TowerStart, Crash
  <2>2. CASE TickUnaccepted \/ TickCancel \/ TickNothing \/ ClockRelay \/ CloseWrite
    BY <1>a, <2>2 DEF TickUnaccepted, TickCancel, TickNothing, ClockRelay, CloseWrite, TowerGoto
  <2>3. CASE ClockRead
    BY <1>a, <2>3 DEF ClockRead, TowerGoto
  <2>4. CASE TowerFails
    BY <1>a, <2>4 DEF TowerFails
  <2> QED
    BY <1>6, <2>1, <2>2, <2>3, <2>4
<1>7. ASSUME NEW t \in Threads, Post(t) \/ Serve(t) \/ ThreadFails(t) PROVE tower' = tower
  BY <1>7 DEF Post, Serve, Accept, Decline, Keys, Hashlock, ReleaseRequest, Release,
     FundedCheck, LateFundedCheck, WatchRefund, WatchRedeem, RecordCheck, PutThenPush, Goto,
     Push, FundedCommit, RecordCommit, ReinstateRead, ReinstateLift, ReinstateCommit, PutWatch,
     ThreadFails
<1>8. ASSUME Tick \/ \E o \in Outs : ChainNext(o) PROVE tower' = tower
  BY <1>8 DEF Tick, ChainNext, Broadcast, Bury, Spend, Evict, Reorg, EvictSpend, Mine,
     Forward, Rewind, ChainStep, edgeVars
<1> QED
  BY <1>1, <1>2, <1>3, <1>4, <1>5, <1>6, <1>7, <1>8 DEF Next, TowerNext

\* What is relayed was stored when it was pushed and is kept.
LEMMA RelayedStep ==
    ASSUME IInv, Next
    PROVE  RelayedIsStored'
<1>0. /\ RelayedIsStored /\ Kept /\ m \in Match
      /\ relayed \in [Roles \cup {"edge"} -> [MsgTypes -> Nat]]
  BY KeptStep DEF IInv, TypeOK
<1>k. /\ \A r \in Roles : /\ m.funding[r] # None => m'.funding[r] # None
                          /\ m.keys[r] => m'.keys[r]
                          /\ m.accepted[r] => m'.accepted[r]
      /\ m.hashlock => m'.hashlock
      /\ m.fund_by # NoTime => m'.fund_by # NoTime
      /\ m.release_sigs => m'.release_sigs
  BY <1>0 DEF Kept
<1>1. CASE relayed' = relayed
  BY <1>0, <1>k, <1>1 DEF RelayedIsStored, Roles
<1>2. ASSUME NEW t \in Threads, Push(t) PROVE RelayedIsStored'
  <2>0. /\ m' = m /\ th[t].role \in Roles /\ th[t].msg \in MsgTypes
        /\ Stored(th[t].role, th[t].msg)
        /\ relayed' = [relayed EXCEPT ![th[t].role][th[t].msg] = @ + 1]
    BY <1>2 DEF Push, IInv, ThreadInv, TypeOK, Thread
  <2>1. \A s \in Roles \cup {"edge"}, y \in MsgTypes :
           relayed'[s][y] > 0 => relayed[s][y] > 0 \/ (s = th[t].role /\ y = th[t].msg)
    BY <1>0, <2>0
  <2> QED
    BY <1>0, <2>0, <2>1 DEF RelayedIsStored, Stored, Roles, MsgTypes
<1>3. CASE ClockRelay
  <2>1. m' = m /\ m.fund_by # NoTime /\ relayed' = [relayed EXCEPT !["edge"]["deadline"] = @ + 1]
    BY <1>3 DEF ClockRelay, IInv, TowerInv
  <2>2. \A s \in Roles, y \in MsgTypes : relayed'[s][y] = relayed[s][y]
    BY <1>0, <2>1 DEF Roles
  <2> QED
    BY <1>0, <2>1, <2>2 DEF RelayedIsStored, Roles, MsgTypes
<1>4. ASSUME NEW t \in Threads, Post(t) \/ Serve(t) \/ ThreadFails(t), ~Push(t)
      PROVE  relayed' = relayed
  BY <1>4 DEF Post, Serve, Accept, Decline, Keys, Hashlock, ReleaseRequest, Release,
     FundedCheck, LateFundedCheck, WatchRefund, WatchRedeem, RecordCheck, PutThenPush, Goto,
     FundedCommit, RecordCommit, ReinstateRead, ReinstateLift, ReinstateCommit, PutWatch,
     ThreadFails
<1>5. ASSUME TowerNext \/ TowerFails, ~ClockRelay PROVE relayed' = relayed
  BY <1>5 DEF TowerNext, TowerFails, TowerStart, TickUnaccepted, TickStrike, TickCancel, TickNothing,
     ClockRead, ClockWrite, CloseRead, CloseWrite, TowerGoto
<1>6. ASSUME Crash \/ Tick \/ \E o \in Outs : ChainNext(o) PROVE relayed' = relayed
  BY <1>6 DEF Crash, Tick, ChainNext, Broadcast, Bury, Spend, Evict, Reorg, EvictSpend, Mine,
     Forward, Rewind, ChainStep, edgeVars
<1> QED
  BY <1>1, <1>2, <1>3, <1>4, <1>5, <1>6 DEF Next

\* A job is stored for a recorded funding, which is kept.
LEMMA JobsStep ==
    ASSUME IInv, Next
    PROVE  JobsSpendRecorded'
<1>0. /\ JobsSpendRecorded /\ Kept /\ m \in Match /\ None \notin Outs
      /\ jobs \subseteq Roles \X Kinds \X Outs
  BY KeptStep, SwapMatchConstants DEF IInv, TypeOK
<1>1. \A j \in jobs : m'.funding[j[1]] = j[3]
  <2> TAKE j \in jobs
  <2>1. j[1] \in Roles /\ j[3] \in Outs /\ m.funding[j[1]] = j[3]
    BY <1>0 DEF JobsSpendRecorded
  <2> QED
    BY <1>0, <2>1 DEF Kept
<1>2. ASSUME NEW t \in Threads, PutWatch(t) PROVE JobsSpendRecorded'
  <2> DEFINE owner == IF th[t].via = "refund" THEN th[t].role ELSE Other(th[t].role)
  <2> DEFINE kind == IF th[t].via = "refund" THEN "refund" ELSE "redeem"
  <2>1. \A j \in jobs' : j \in jobs \/ j = <<owner, kind, th[t].out>>
    BY <1>2 DEF PutWatch
  <2>2. m' = m /\ m.funding[owner] = th[t].out
    BY <1>2 DEF PutWatch, IInv, ThreadInv, Leg, Kinds
  <2> QED
    BY <1>1, <2>1, <2>2 DEF JobsSpendRecorded
<1>3. ASSUME NEW t \in Threads, Post(t) \/ Serve(t) \/ ThreadFails(t), ~PutWatch(t)
      PROVE  jobs' = jobs
  BY <1>3 DEF Post, Serve, Accept, Decline, Keys, Hashlock, ReleaseRequest, Release,
     FundedCheck, LateFundedCheck, WatchRefund, WatchRedeem, RecordCheck, PutThenPush, Goto,
     Push, FundedCommit, RecordCommit, ReinstateRead, ReinstateLift, ReinstateCommit, ThreadFails
<1>4. ASSUME TowerNext \/ TowerFails PROVE jobs' = jobs
  BY <1>4 DEF TowerNext, TowerFails, TowerStart, TickUnaccepted, TickStrike, TickCancel, TickNothing,
     ClockRead, ClockWrite, ClockRelay, CloseRead, CloseWrite, TowerGoto
<1>5. ASSUME Crash \/ Tick \/ \E o \in Outs : ChainNext(o) PROVE jobs' = jobs
  BY <1>5 DEF Crash, Tick, ChainNext, Broadcast, Bury, Spend, Evict, Reorg, EvictSpend, Mine,
     Forward, Rewind, ChainStep, edgeVars
<1> QED
  BY <1>1, <1>2, <1>3, <1>4, <1>5 DEF Next, JobsSpendRecorded

-----------------------------------------------------------------------------
(* The theorems                                                            *)

\* The invariant is inductive.
LEMMA InitIInv == Init => IInv
<1> SUFFICES ASSUME Init PROVE IInv
  OBVIOUS
<1>1. TypeOK
  BY InitTypeOK
<1>2. OutNamed /\ LockHeld /\ TowerInv /\ JobsSpendRecorded /\ \A t \in Threads : ThreadInv(t)
  BY DEF Init, OutNamed, LockHeld, TowerInv, JobsSpendRecorded, ThreadInv, IdleThread, IdleTower
<1>3. MatchInv
  BY DEF Init, MatchInv, FundedOnEvidence, ReleasedStaysCancelled, NewMatch
<1>4. RelayedIsStored
  BY DEF Init, RelayedIsStored, MsgTypes, Roles
<1> QED
  BY <1>1, <1>2, <1>3, <1>4 DEF IInv

\* Every step keeps it.
LEMMA IInvStep == IInv /\ [Next]_vars => IInv'
<1> SUFFICES ASSUME IInv, [Next]_vars PROVE IInv'
  OBVIOUS
<1>1. CASE Next
  <2>1. TypeOK'
    BY <1>1, PostTypeOK, ServeTypeOK, TowerTypeOK, WorldTypeOK DEF IInv, Next
  <2>2. ASSUME NEW u \in Threads
        PROVE  ThreadInv(u)' /\ (th'[u].pc \notin {"idle", "push"} => th'[u].out \in Outs)
    <3>1. CASE th'[u] = IdleThread
      BY <3>1, PushInv DEF IInv
    <3> QED
      BY <1>1, <3>1, OtherThreads, ThreadInvKept, PostInv, ServeInv DEF IInv
  <2>3. OutNamed' /\ \A u \in Threads : ThreadInv(u)'
    BY <2>2 DEF OutNamed
  <2> QED
    BY <1>1, <2>1, <2>3, LockHeldStep, MatchInvStep, TowerInvStep, RelayedStep, JobsStep DEF IInv
<1>2. CASE UNCHANGED vars
  BY <1>2 DEF vars, IInv, TypeOK, OutNamed, LockHeld, MatchInv, ThreadInv, TowerInv, Stored, Leg,
     LegOut, eligible, RelayedIsStored, JobsSpendRecorded, FundedOnEvidence, ReleasedStaysCancelled
<1> QED
  BY <1>1, <1>2

\* IInv is an invariant of the specification.
THEOREM Invariance == Spec => []IInv
BY InitIInv, IInvStep, PTL DEF Spec

\* Every variable of the edge, the threads and the chains keeps to its type.
THEOREM TypeCorrect == Spec => []TypeOK
<1>1. IInv => TypeOK
  BY DEF IInv
<1> QED
  BY <1>1, Invariance, PTL

\* A released match stays cancelled: whatever was read before the release was
\* stored, no `funded`, no refund watch and no reinstatement brings it back.
THEOREM MatchSafe == Spec => []ReleasedStaysCancelled
<1>1. IInv => ReleasedStaysCancelled
  BY DEF IInv, MatchInv
<1> QED
  BY <1>1, Invariance, PTL

\* Whatever the phones post, the chains take back and the process loses, a
\* funded status stands on recorded fundings of the right legs that both sides
\* accepted, what was relayed is stored, and stored jobs spend recorded fundings.
THEOREM MatchOnRecord == Spec => []OnRecord
<1>1. IInv => OnRecord
  BY DEF IInv, MatchInv, OnRecord
<1> QED
  BY <1>1, Invariance, PTL

\* Fundings, the participant's deadline and the release are never overwritten.
THEOREM RecordedOnce == Spec => SetOnce
<1> DEFINE A == /\ \A r \in Roles : m.funding[r] # None => m'.funding[r] = m.funding[r]
                /\ m.fund_by # NoTime => m'.fund_by = m.fund_by
                /\ m.release_txs => m'.release_txs
                /\ m.release_sigs => m'.release_sigs
<1>1. IInv /\ [Next]_vars => [A]_m
  <2>1. ASSUME IInv, Next PROVE A
    BY <2>1, KeptStep DEF IInv, Kept
  <2>2. UNCHANGED vars => UNCHANGED m
    BY DEF vars
  <2> QED
    BY <2>1, <2>2
<1>2. [][A]_m => SetOnce
  BY DEF SetOnce
<1> HIDE DEF A
<1> QED
  BY <1>1, <1>2, Invariance, PTL DEF Spec

\* Every step changes the status as Onward says: what is stored was checked under the lock, or is what the
\* watchtower read.
LEMMA OnwardStep ==
    ASSUME IInv, Next
    PROVE  Onward
<1>0. m \in Match /\ TowerInv
  BY DEF IInv, TypeOK
<1>1. ASSUME NEW t \in Threads, ThreadWrites(t) PROVE Onward
  <2>0. ThreadInv(t)
    BY DEF IInv
  <2>1. ASSUME NEW r \in Roles, Accept(t, r) \/ Decline(t, r) \/ Keys(t, r) PROVE Onward
    BY <1>0, <2>1 DEF Accept, Decline, Keys, PutThenPush, Match, Onward
  <2>2. CASE Hashlock(t) \/ ReleaseRequest(t) \/ Release(t)
    BY <1>0, <2>2 DEF Hashlock, ReleaseRequest, Release, PutThenPush, Match, Onward
  <2>3. CASE FundedCommit(t)
    BY <1>0, <2>3 DEF FundedCommit, PutThenPush, Goto, Match, Needs, Funds, Onward
  <2>4. CASE RecordCommit(t)
    BY <1>0, <2>4 DEF RecordCommit, Goto, Match, Onward
  <2>5. CASE ReinstateCommit(t)
    BY <1>0, <2>0, <2>5 DEF ReinstateCommit, Match, ThreadInv, eligible, Onward
  <2> QED
    BY <1>1, <2>1, <2>2, <2>3, <2>4, <2>5 DEF ThreadWrites
<1>2. ASSUME TowerWrites PROVE Onward
  <2>1. CASE TickUnaccepted
    BY <1>0, <2>1 DEF TickUnaccepted, Overdue_accept, Match, Onward
  <2>2. CASE TickCancel
    BY <1>0, <2>2 DEF TickCancel, TowerInv, Match, Onward
  <2>3. CASE ClockWrite
    BY <1>0, <2>3 DEF ClockWrite, TowerGoto, Match, Onward
  <2>4. CASE CloseWrite
    BY <1>0, <2>4 DEF CloseWrite, TowerInv, Match, Onward
  <2> QED
    BY <1>2, <2>1, <2>2, <2>3, <2>4 DEF TowerWrites
<1>3. m' = m => Onward
  BY DEF Onward
<1> QED
  BY <1>1, <1>2, <1>3, Writers

\* A match moves only forward: the one way out of cancelled is the
\* reinstatement of a recorded funding, and there is none out of closed.
THEOREM MovesForward == Spec => ForwardOnly
<1>1. IInv /\ [Next]_vars => [Onward]_m
  BY OnwardStep DEF vars
<1>2. [][Onward]_m => ForwardOnly
  BY DEF ForwardOnly
<1> QED
  BY <1>1, <1>2, Invariance, PTL DEF Spec

-----------------------------------------------------------------------------
(* Messages are relayed once                                               *)

\* A message of type y from s was decided: the guard of the handler that would relay it
\* again does not hold any more.
Said(s, y) ==
    \/ s \in Roles /\ y = "accept" /\ m.accepted[s]
    \/ s \in Roles /\ y = "keys" /\ m.keys[s]
    \/ s \in Roles /\ y = "decline" /\ m.status # "proposed"
    \/ s = "initiator" /\ y = "hashlock" /\ m.hashlock
    \/ s = "initiator" /\ y = "release_request" /\ m.release_txs
    \/ s = "participant" /\ y = "release" /\ m.release_sigs
    \/ s = "initiator" /\ y = "funded" /\ m.status \notin {"proposed", "accepted"}
    \/ s = "participant" /\ y = "funded" /\ m.status \in {"participant_funded", "closed"}
    \/ s = "edge" /\ y = "deadline" /\ m.fund_by # NoTime

\* Thread t is about to push a message of type y from s.
Pushing(t, s, y) == th[t].pc = "push" /\ th[t].role = s /\ th[t].msg = y

\* What was relayed was decided, once; what a thread or the watchtower is about to push was
\* decided and not relayed, and nobody else is about to push it.
OnceInv ==
    /\ RelayedOnce
    /\ \A s \in Roles \cup {"edge"}, y \in MsgTypes : relayed[s][y] > 0 => Said(s, y)
    /\ \A t \in Threads : \A s \in Roles, y \in MsgTypes : Pushing(t, s, y) =>
          /\ Said(s, y) /\ relayed[s][y] = 0
          /\ \A u \in Threads : Pushing(u, s, y) => u = t
    /\ tower.pc = "deadline" => relayed["edge"]["deadline"] = 0

\* What was decided stays decided.
LEMMA SaidStays ==
    ASSUME IInv, Next, NEW s, NEW y, Said(s, y)
    PROVE  Said(s, y)'
<1>1. Kept /\ Onward /\ m \in Match
  BY KeptStep, OnwardStep DEF IInv, TypeOK
<1>2. /\ s \in Roles => (m.accepted[s] => m'.accepted[s]) /\ (m.keys[s] => m'.keys[s])
      /\ m.hashlock => m'.hashlock
      /\ m.release_txs => m'.release_txs
      /\ m.release_sigs => m'.release_sigs
      /\ m.fund_by # NoTime => m'.fund_by # NoTime
  BY <1>1 DEF Kept
<1>3. /\ m.status # "proposed" => m'.status # "proposed"
      /\ m.status \notin {"proposed", "accepted"} => m'.status \notin {"proposed", "accepted"}
      /\ m.status \in {"participant_funded", "closed"} => m'.status \in {"participant_funded", "closed"}
  BY <1>1 DEF Onward
<1> QED
  BY <1>2, <1>3 DEF Said

\* A thread begins to push a message only by deciding it.
LEMMA BeginsPush ==
    ASSUME IInv, NEW t \in Threads, Post(t) \/ Serve(t) \/ ThreadFails(t),
           NEW s \in Roles, NEW y \in MsgTypes, Pushing(t, s, y)'
    PROVE  ~Said(s, y) /\ Said(s, y)'
<1>0. m \in Match /\ th \in [Threads -> Thread] /\ th[t] \in Thread /\ ThreadInv(t) /\ MatchInv
  BY DEF IInv, TypeOK
<1>1. ASSUME NEW mm, NEW r, NEW z, NEW holder, PutThenPush(t, mm, r, z, holder)
      PROVE  m' = mm /\ s = r /\ y = z
  BY <1>0, <1>1 DEF PutThenPush, Pushing, IdleThread
<1>2. ASSUME NEW thread, Goto(t, thread) PROVE thread.pc = "push"
  BY <1>0, <1>2 DEF Goto, Pushing
<1>3. ASSUME NEW r \in Roles, Accept(t, r) PROVE ~Said(s, y) /\ Said(s, y)'
  <2>1. /\ s = r /\ y = "accept" /\ ~m.accepted[r]
        /\ m' = [m EXCEPT !.accepted[r] = TRUE,
                          !.status = IF m.accepted[Other(r)] THEN "accepted" ELSE @]
    BY <1>1, <1>3 DEF Accept
  <2> QED
    BY <1>0, <2>1 DEF Said, Match
<1>4. ASSUME NEW r \in Roles, Decline(t, r) PROVE ~Said(s, y) /\ Said(s, y)'
  <2>1. /\ s = r /\ y = "decline" /\ m.status = "proposed"
        /\ m' = [m EXCEPT !.status = "cancelled", !.closed_at = now]
    BY <1>1, <1>4 DEF Decline
  <2> QED
    BY <1>0, <2>1 DEF Said, Match
<1>5. ASSUME NEW r \in Roles, Keys(t, r) PROVE ~Said(s, y) /\ Said(s, y)'
  <2>1. s = r /\ y = "keys" /\ ~m.keys[r] /\ m' = [m EXCEPT !.keys[r] = TRUE]
    BY <1>1, <1>5 DEF Keys
  <2> QED
    BY <1>0, <2>1 DEF Said, Match
<1>6. CASE Hashlock(t)
  <2>1. s = "initiator" /\ y = "hashlock" /\ ~m.hashlock /\ m' = [m EXCEPT !.hashlock = TRUE]
    BY <1>1, <1>6 DEF Hashlock
  <2> QED
    BY <1>0, <2>1 DEF Said, Match
<1>7. CASE ReleaseRequest(t)
  <2>1. s = "initiator" /\ y = "release_request" /\ ~m.release_txs /\ m' = [m EXCEPT !.release_txs = TRUE]
    BY <1>1, <1>7 DEF ReleaseRequest
  <2> QED
    BY <1>0, <2>1 DEF Said, Match
<1>8. CASE Release(t)
  <2>1. s = "participant" /\ y = "release" /\ ~m.release_sigs /\ m' = [m EXCEPT !.release_sigs = TRUE]
    BY <1>1, <1>8 DEF Release
  <2> QED
    BY <1>0, <2>1 DEF Said, Match
<1>9. CASE FundedCommit(t)
  <2>1. ~Goto(t, IdleThread)
    BY <1>2 DEF IdleThread
  <2>2. /\ s = th[t].role /\ y = "funded" /\ m.status = Needs(s)
        /\ m' = [m EXCEPT !.funding[s] = th[t].out, !.status = Funds(s)]
    BY <1>1, <1>9, <2>1 DEF FundedCommit
  <2> QED
    BY <1>0, <2>2 DEF Said, Match, Needs, Funds, Roles
<1>10. CASE ReinstateCommit(t)
  <2>1. /\ th'[t] = IF th[t].via = "late"
                      THEN [IdleThread EXCEPT !.pc = "push", !.role = "participant", !.msg = "funded"]
                      ELSE [th[t] EXCEPT !.pc = "put_watch"]
        /\ m' = [m EXCEPT !.status = "participant_funded", !.missed = FALSE, !.closed_at = NoTime]
        /\ th[t].pc = "lifted"
    BY <1>0, <1>10 DEF ReinstateCommit
  <2>2. s = "participant" /\ y = "funded"
    BY <1>0, <2>1 DEF Pushing, IdleThread, Thread
  <2>3. m.status = "cancelled"
    BY <1>0, <2>1 DEF ThreadInv, eligible
  <2> QED
    BY <1>0, <2>1, <2>2, <2>3 DEF Said, Match
<1>11. ASSUME NEW r \in Roles, NEW o \in Outs, FundedCheck(t, r, o) \/ WatchRedeem(t, r, o)
       PROVE  FALSE
  BY <1>2, <1>11, ThreadShapes, InitialValues DEF FundedCheck, WatchRedeem
<1>12. ASSUME NEW r \in Roles, NEW o \in Outs, NEW via \in {"late", "refund"},
              RecordCheck(t, At("record", r, via, o))
       PROVE  FALSE
  <2>1. At("record", r, via, o) \in Thread
    BY InitialValues, ThreadFields DEF ThreadPc, Kinds
  <2>2. /\ AfterRecord(At("record", r, via, o)).pc # "push"
        /\ [At("record", r, via, o) EXCEPT !.pc = "record"].pc # "push"
    BY <2>1, ThreadShapes DEF Thread
  <2> QED
    BY <1>2, <1>12, <2>2 DEF RecordCheck
<1>13. CASE Push(t) \/ PutWatch(t) \/ ThreadFails(t)
  BY <1>0, <1>13 DEF Push, PutWatch, ThreadFails, Pushing, IdleThread, Thread
<1>14. CASE RecordCommit(t) \/ ReinstateRead(t) \/ ReinstateLift(t)
  <2>1. /\ AfterRecord(th[t]).pc # "push" /\ AfterReinstate(th[t]).pc # "push"
        /\ [th[t] EXCEPT !.pc = "lifted"].pc = "lifted"
        /\ [th[t] EXCEPT !.pc = "reinstating", !.seen = m.funding["participant"]].pc = "reinstating"
        /\ IdleThread.pc = "idle"
    BY <1>0, ThreadShapes DEF Thread, IdleThread
  <2> QED
    BY <1>0, <1>2, <1>14, <2>1 DEF RecordCommit, ReinstateRead, ReinstateLift, Pushing
<1> QED
  BY <1>3, <1>4, <1>5, <1>6, <1>7, <1>8, <1>9, <1>10, <1>11, <1>12, <1>13, <1>14
     DEF Post, Serve, LateFundedCheck, WatchRefund, Roles

\* One thread moves at a time.
LEMMA ThreadAlone ==
    ASSUME TypeOK, NEW t \in Threads, Post(t) \/ Serve(t) \/ ThreadFails(t),
           NEW u \in Threads, u # t
    PROVE  th'[u] = th[u]
<1>0. th \in [Threads -> Thread]
  BY DEF TypeOK
<1>1. CASE Post(t)
  BY <1>0, <1>1, PostThread
<1>2. CASE Serve(t) \/ ThreadFails(t)
  BY <1>0, <1>2 DEF Serve, ThreadFails, Push, FundedCommit, PutThenPush, RecordCommit,
     ReinstateRead, ReinstateLift, ReinstateCommit, PutWatch, Goto
<1> QED
  BY <1>1, <1>2


\* The stage the watchtower goes to, and what it takes along.
LEMMA TowerShapes ==
    ASSUME TypeOK
    PROVE  /\ \A pc \in TowerPc : TowerAt(pc).pc = pc
           /\ \A pc \in TowerPc : /\ [tower EXCEPT !.pc = pc, !.seen = m].pc = pc
                                  /\ [tower EXCEPT !.pc = pc, !.seen = m].seen = m
                                  /\ [tower EXCEPT !.pc = pc, !.seen = m].at = tower.at
BY DEF TowerAt, IdleTower, TypeOK, TowerState

\* What a message was pushed for stays so; one that is pushed was decided now, by one thread.
LEMMA OnceStep ==
    ASSUME IInv, OnceInv, Next
    PROVE  OnceInv'
<1> DEFINE Senders == Roles \cup {"edge"}
<1>0. /\ TypeOK /\ relayed \in [Senders -> [MsgTypes -> Nat]] /\ th \in [Threads -> Thread]
  BY DEF IInv, TypeOK
<1>s. \A s \in Senders, y \in MsgTypes : Said(s, y) => Said(s, y)'
  BY SaidStays
\* A thread that pushes after the step did before, or decided its message in the step.
<1>t. ASSUME NEW u \in Threads, NEW s \in Roles, NEW y \in MsgTypes, Pushing(u, s, y)'
      PROVE  \/ Pushing(u, s, y) /\ th'[u] = th[u]
             \/ (Post(u) \/ Serve(u) \/ ThreadFails(u)) /\ ~Said(s, y) /\ Said(s, y)'
  <2>1. CASE th'[u] = th[u]
    BY <1>t, <2>1 DEF Pushing
  <2>2. CASE th'[u] = IdleThread
    BY <1>t, <2>2 DEF Pushing, IdleThread
  <2>3. CASE Post(u) \/ Serve(u) \/ ThreadFails(u)
    BY <1>t, <2>3, BeginsPush
  <2> QED
    BY <1>0, <2>1, <2>2, <2>3, OtherThreads
<1>p. \A u \in Threads : \A s \in Roles, y \in MsgTypes : Pushing(u, s, y)' => Said(s, y)'
  <2> SUFFICES ASSUME NEW u \in Threads, NEW s \in Roles, NEW y \in MsgTypes, Pushing(u, s, y)'
               PROVE  Said(s, y)'
    OBVIOUS
  <2>1. Pushing(u, s, y) => Said(s, y)
    BY DEF OnceInv
  <2> QED
    BY <1>s, <1>t, <2>1
\* Of two threads that push the same after the step, the second cannot have decided it.
<1>u. ASSUME NEW t \in Threads, NEW u \in Threads, NEW s \in Roles, NEW y \in MsgTypes,
             Pushing(t, s, y)', Pushing(u, s, y)'
      PROVE  u = t
  <2>1. Pushing(t, s, y) => Said(s, y) /\ (Pushing(u, s, y) => u = t)
    BY DEF OnceInv
  <2>2. Pushing(u, s, y) => Said(s, y)
    BY DEF OnceInv
  <2>3. CASE Pushing(t, s, y) \/ Pushing(u, s, y)
    BY <1>t, <1>u, <2>1, <2>2, <2>3
  <2>4. ASSUME ~Pushing(t, s, y), ~Pushing(u, s, y), u # t PROVE FALSE
    <3>1. th'[t] # th[t] /\ th'[u] # th[u]
      BY <1>u, <2>4 DEF Pushing
    <3>2. Post(t) \/ Serve(t) \/ ThreadFails(t)
      BY <1>t, <1>u, <2>4
    <3> QED
      BY <1>0, <2>4, <3>1, <3>2, ThreadAlone
  <2> QED
    BY <2>3, <2>4
<1>1. ASSUME NEW t \in Threads, Push(t) PROVE OnceInv'
  <2>0. th[t].role \in Roles /\ th[t].msg \in MsgTypes /\ Pushing(t, th[t].role, th[t].msg)
    BY <1>0, <1>1 DEF Push, Pushing, Thread
  <2>1. Said(th[t].role, th[t].msg) /\ relayed[th[t].role][th[t].msg] = 0
    BY <2>0 DEF OnceInv
  <2>2. \A s \in Senders, y \in MsgTypes : relayed'[s][y] =
           IF s = th[t].role /\ y = th[t].msg THEN 1 ELSE relayed[s][y]
    BY <1>0, <1>1, <2>0, <2>1 DEF Push
  <2>3. RelayedOnce' /\ \A s \in Senders, y \in MsgTypes : relayed'[s][y] > 0 => Said(s, y)'
    BY <1>0, <1>s, <2>1, <2>2 DEF OnceInv, RelayedOnce
  <2>4. ASSUME NEW u \in Threads, NEW s \in Roles, NEW y \in MsgTypes, Pushing(u, s, y)'
        PROVE  relayed'[s][y] = 0
    <3>1. u # t
      BY <1>0, <1>1, <2>4 DEF Push, Pushing, IdleThread
    <3>2. Pushing(u, s, y)
      BY <1>0, <1>1, <2>4, <3>1 DEF Push, Pushing
    <3>3. relayed[s][y] = 0 /\ (Pushing(t, s, y) => t = u)
      BY <3>2 DEF OnceInv
    <3>4. ~(s = th[t].role /\ y = th[t].msg)
      BY <2>0, <3>1, <3>3
    <3> QED
      BY <2>2, <3>3, <3>4
  <2>5. tower' = tower /\ relayed'["edge"]["deadline"] = relayed["edge"]["deadline"]
    BY <1>0, <1>1, <2>0, <2>2 DEF Push, Roles, MsgTypes
  <2> QED
    BY <1>p, <1>u, <2>3, <2>4, <2>5 DEF OnceInv
<1>2. ASSUME relayed' = relayed, tower'.pc = "deadline" => tower.pc = "deadline" \/ m.fund_by = NoTime
      PROVE OnceInv'
  <2>1. RelayedOnce' /\ \A s \in Senders, y \in MsgTypes : relayed'[s][y] > 0 => Said(s, y)'
    BY <1>2, <1>s DEF OnceInv, RelayedOnce
  <2>2. ASSUME NEW u \in Threads, NEW s \in Roles, NEW y \in MsgTypes, Pushing(u, s, y)'
        PROVE  relayed'[s][y] = 0
    <3>1. Pushing(u, s, y) => relayed[s][y] = 0
      BY DEF OnceInv
    <3>2. ~Said(s, y) => relayed[s][y] = 0
      BY <1>0 DEF OnceInv
    <3> QED
      BY <1>2, <1>t, <2>2, <3>1, <3>2
  <2>3. tower'.pc = "deadline" => relayed'["edge"]["deadline"] = 0
    <3>1. m.fund_by = NoTime => ~Said("edge", "deadline")
      BY DEF Said, Roles
    <3>2. ~Said("edge", "deadline") => relayed["edge"]["deadline"] = 0
      BY <1>0 DEF OnceInv, MsgTypes
    <3> QED
      BY <1>2, <3>1, <3>2 DEF OnceInv
  <2> QED
    BY <1>p, <1>u, <2>1, <2>2, <2>3 DEF OnceInv
<1>3. CASE ClockRelay
  <2>1. /\ relayed["edge"]["deadline"] = 0 /\ Said("edge", "deadline")
        /\ th' = th /\ tower'.pc = "close" /\ "edge" \notin Roles
    BY <1>3 DEF ClockRelay, OnceInv, IInv, TowerInv, Said, TowerAt, Roles
  <2>2. \A s \in Senders, y \in MsgTypes : relayed'[s][y] =
           IF s = "edge" /\ y = "deadline" THEN 1 ELSE relayed[s][y]
    BY <1>0, <1>3, <2>1 DEF ClockRelay, MsgTypes
  <2>3. RelayedOnce' /\ \A s \in Senders, y \in MsgTypes : relayed'[s][y] > 0 => Said(s, y)'
    BY <1>0, <1>s, <2>1, <2>2 DEF OnceInv, RelayedOnce
  <2>4. ASSUME NEW u \in Threads, NEW s \in Roles, NEW y \in MsgTypes, Pushing(u, s, y)'
        PROVE  relayed'[s][y] = 0
    <3>1. Pushing(u, s, y)
      BY <2>1, <2>4 DEF Pushing
    <3>2. relayed[s][y] = 0 /\ s # "edge"
      BY <2>1, <3>1 DEF OnceInv
    <3> QED
      BY <2>2, <3>2
  <2> QED
    BY <1>p, <1>u, <2>1, <2>3, <2>4 DEF OnceInv
<1>4. ASSUME NEW t \in Threads, Post(t) \/ Serve(t) \/ ThreadFails(t), ~Push(t)
      PROVE  relayed' = relayed /\ tower' = tower
  BY <1>4 DEF Post, Serve, Accept, Decline, Keys, Hashlock, ReleaseRequest, Release,
     FundedCheck, LateFundedCheck, WatchRefund, WatchRedeem, RecordCheck, PutThenPush, Goto,
     FundedCommit, RecordCommit, ReinstateRead, ReinstateLift, ReinstateCommit, PutWatch,
     ThreadFails
<1>5. ASSUME TowerNext \/ TowerFails, ~ClockRelay
      PROVE  relayed' = relayed /\ (tower'.pc = "deadline" => m.fund_by = NoTime)
  <2>1. CASE ClockWrite
    BY <2>1 DEF ClockWrite, TowerGoto, TowerAt
  <2>2. CASE TowerStart \/ TickUnaccepted \/ (\E r \in Roles : TickStrike(r)) \/ TickCancel \/ TickNothing
    BY <2>2, <1>0 DEF TowerStart, TickUnaccepted, TickStrike, TickCancel, TickNothing, TowerGoto,
       TowerAt, TypeOK, TowerState
  <2>3. CASE ClockRead \/ CloseRead \/ CloseWrite
    <3>1. tower'.pc \in {"clock_write", "close", "close_write", "idle"} /\ relayed' = relayed
      <4>1. CASE ClockRead
        BY <1>0, <4>1, TowerShapes DEF ClockRead, TowerGoto, TowerPc
      <4>2. CASE CloseRead
        BY <1>0, <4>2, TowerShapes DEF CloseRead, TowerGoto, TowerPc
      <4>3. CASE CloseWrite
        BY <1>0, <4>3, TowerShapes DEF CloseWrite, TowerPc
      <4> QED
        BY <2>3, <4>1, <4>2, <4>3
    <3> QED
      BY <3>1
  <2>4. CASE TowerFails
    <3>1. TowerAt("clock").pc = "clock" /\ TowerAt("close").pc = "close" /\ TowerAt("idle").pc = "idle"
      BY <1>0, TowerShapes DEF TowerPc
    <3>2. tower' \in {TowerAt("clock"), TowerAt("close"), TowerAt("idle")} /\ relayed' = relayed
      BY <2>4 DEF TowerFails
    <3> QED
      BY <3>1, <3>2
  <2> QED
    BY <1>5, <2>1, <2>2, <2>3, <2>4 DEF TowerNext
<1>6. ASSUME Crash \/ Tick \/ \E o \in Outs : ChainNext(o)
      PROVE  relayed' = relayed /\ (tower'.pc = "deadline" => tower.pc = "deadline")
  BY <1>6 DEF Crash, Tick, ChainNext, Broadcast, Bury, Spend, Evict, Reorg, EvictSpend, Mine,
     Forward, Rewind, ChainStep, edgeVars, IdleTower
<1> QED
  BY <1>1, <1>2, <1>3, <1>4, <1>5, <1>6 DEF Next

\* Every message type is relayed at most once from each side, however often it is posted and
\* whichever handler records the funding (post_message, late_participant_funded).
THEOREM RelayedAtMostOnce == Spec => []RelayedOnce
<1>1. Init => OnceInv
  BY DEF Init, OnceInv, RelayedOnce, Pushing, IdleThread, IdleTower, MsgTypes, Roles
<1>2. IInv /\ OnceInv /\ [Next]_vars => OnceInv'
  <2>1. ASSUME OnceInv, UNCHANGED vars PROVE OnceInv'
    BY <2>1 DEF vars, OnceInv, RelayedOnce, Pushing, Said
  <2> QED
    BY <2>1, OnceStep
<1>3. OnceInv => RelayedOnce
  BY DEF OnceInv
<1> QED
  BY <1>1, <1>2, <1>3, Invariance, PTL DEF Spec

-----------------------------------------------------------------------------
(* Closing                                                                 *)

\* While the chains have taken nothing back, what was found created is still created and
\* what the watchtower found spent is still spent.
CloseInv ==
    rewinds = 0 =>
      /\ \A r \in Roles : m.funding[r] # None => Created(m.funding[r])
      /\ \A t \in Threads : th[t].pc \in {"funded", "record"} => Created(th[t].out)
      /\ tower.pc = "close_write" =>
           \A r \in Roles : tower.seen.funding[r] # None => chain[tower.seen.funding[r]] = "spent"

\* A chain that takes nothing back keeps what is created and what is spent.
LEMMA ChainGrows ==
    ASSUME TypeOK, Next, rewinds' = 0
    PROVE  /\ rewinds = 0
           /\ \A o \in Outs : /\ Created(o) => Created(o)'
                              /\ chain[o] = "spent" => chain'[o] = "spent"
<1>0. chain \in [Outs -> ChainState] /\ rewinds \in Nat
  BY DEF TypeOK
<1>1. ASSUME NEW o \in Outs, ChainNext(o)
      PROVE  rewinds = 0 /\ \A p \in Outs : /\ Created(p) => Created(p)'
                                            /\ chain[p] = "spent" => chain'[p] = "spent"
  <2>1. ~(Evict(o) \/ Reorg(o) \/ EvictSpend(o))
    BY <1>0 DEF Evict, Reorg, EvictSpend, Rewind
  <2> QED
    BY <1>0, <1>1, <2>1 DEF ChainNext, Broadcast, Bury, Spend, Mine, Forward, ChainStep, Created
<1>2. ASSUME UNCHANGED chainVars
      PROVE  rewinds = 0 /\ \A p \in Outs : /\ Created(p) => Created(p)'
                                            /\ chain[p] = "spent" => chain'[p] = "spent"
  BY <1>2 DEF chainVars, Created
<1>3. ASSUME NEW t \in Threads, Post(t) \/ Serve(t) \/ ThreadFails(t) PROVE UNCHANGED chainVars
  BY <1>3 DEF Post, Serve, Accept, Decline, Keys, Hashlock, ReleaseRequest, Release,
     FundedCheck, LateFundedCheck, WatchRefund, WatchRedeem, RecordCheck, PutThenPush, Goto, Push,
     FundedCommit, RecordCommit, ReinstateRead, ReinstateLift, ReinstateCommit, PutWatch, ThreadFails
<1>4. ASSUME TowerNext \/ TowerFails \/ Crash \/ Tick PROVE UNCHANGED chainVars
  BY <1>4 DEF TowerNext, TowerFails, TowerStart, TickUnaccepted, TickStrike, TickCancel, TickNothing,
     ClockRead, ClockWrite, ClockRelay, CloseRead, CloseWrite, TowerGoto, Crash, Tick
<1> QED
  BY <1>1, <1>2, <1>3, <1>4 DEF Next

\* A funding is stored that was stored before, or that the thread storing it found created.
LEMMA FundingFrom ==
    ASSUME IInv, Next, NEW r \in Roles, m'.funding[r] # m.funding[r]
    PROVE  \E t \in Threads : th[t].pc \in {"funded", "record"} /\ m'.funding[r] = th[t].out
<1>0. m \in Match /\ th \in [Threads -> Thread]
  BY DEF IInv, TypeOK
<1>1. ASSUME NEW t \in Threads, ThreadWrites(t)
      PROVE  th[t].pc \in {"funded", "record"} /\ m'.funding[r] = th[t].out
  <2>1. CASE FundedCommit(t)
    <3>1. \/ m' = m
          \/ m' = [m EXCEPT !.funding[th[t].role] = th[t].out, !.status = Funds(th[t].role)]
      BY <2>1 DEF FundedCommit, PutThenPush, Goto
    <3>2. th[t].pc = "funded" /\ th[t].role \in Roles
      BY <1>0, <2>1 DEF FundedCommit, Thread
    <3> QED
      BY <1>0, <3>1, <3>2 DEF Match
  <2>2. CASE RecordCommit(t)
    BY <1>0, <2>2 DEF RecordCommit, Goto, Match, Thread
  <2>3. ASSUME NEW q \in Roles, Accept(t, q) \/ Decline(t, q) \/ Keys(t, q) PROVE FALSE
    BY <1>0, <2>3 DEF Accept, Decline, Keys, PutThenPush, Match
  <2>4. CASE Hashlock(t) \/ ReleaseRequest(t) \/ Release(t) \/ ReinstateCommit(t)
    BY <1>0, <2>4 DEF Hashlock, ReleaseRequest, Release, ReinstateCommit, PutThenPush, Match
  <2> QED
    BY <1>1, <2>1, <2>2, <2>3, <2>4 DEF ThreadWrites
<1>2. ~TowerWrites
  BY <1>0 DEF TowerWrites, TickUnaccepted, TickCancel, ClockWrite, CloseWrite, TowerGoto, Match
<1> QED
  BY <1>1, <1>2, Writers

\* A thread that is to record an outpoint has just found it created or recorded.
LEMMA RecordsCreated ==
    ASSUME IInv, CloseInv, rewinds = 0, NEW u \in Threads, Post(u) \/ Serve(u) \/ ThreadFails(u),
           th'[u].pc \in {"funded", "record"}
    PROVE  Created(th'[u].out)
<1>0. m \in Match /\ th \in [Threads -> Thread] /\ th[u] \in Thread /\ None \notin Outs
  BY SwapMatchConstants DEF IInv, TypeOK
<1>1. ASSUME NEW thread, Goto(u, thread) PROVE th'[u] = thread
  BY <1>0, <1>1 DEF Goto
<1>2. ASSUME NEW mm, NEW r, NEW z, NEW holder, PutThenPush(u, mm, r, z, holder) PROVE FALSE
  BY <1>0, <1>2 DEF PutThenPush, IdleThread
<1>3. ASSUME NEW r \in Roles, NEW o \in Outs, FundedCheck(u, r, o) PROVE Created(th'[u].out)
  <2>1. th'[u].out = o
    BY <1>1, <1>3, ThreadShapes, InitialValues DEF FundedCheck
  <2>2. Created(o)
    BY <1>0, <1>3 DEF FundedCheck, LegPaid, CloseInv
  <2> QED
    BY <2>1, <2>2
<1>4. ASSUME NEW r \in Roles, NEW o \in Outs, WatchRedeem(u, r, o) PROVE FALSE
  BY <1>1, <1>4, ThreadShapes, InitialValues DEF WatchRedeem
<1>5. ASSUME NEW r \in Roles, NEW o \in Outs, NEW via \in {"late", "refund"},
             RecordCheck(u, At("record", r, via, o))
      PROVE  Created(th'[u].out)
  <2>1. At("record", r, via, o) \in Thread
    BY InitialValues, ThreadFields DEF ThreadPc, Kinds
  <2>2. /\ AfterRecord(At("record", r, via, o)).pc \in {"reinstate", "put_watch"}
        /\ [At("record", r, via, o) EXCEPT !.pc = "record"].out = o
        /\ At("record", r, via, o).out = o
    BY <2>1, ThreadShapes DEF Thread
  <2> QED
    BY <1>1, <1>5, <2>2 DEF RecordCheck, LegPaid
<1>6. CASE Push(u) \/ PutWatch(u) \/ ThreadFails(u) \/ ReinstateCommit(u)
  <2>1. CASE Push(u) \/ PutWatch(u) \/ ThreadFails(u)
    <3>1. th'[u] = IdleThread \/ th'[u] = [th[u] EXCEPT !.pc = "put_watch"]
      BY <1>0, <2>1 DEF Push, PutWatch, ThreadFails
    <3> QED
      BY <1>0, <3>1 DEF IdleThread, Thread
  <2>2. CASE ReinstateCommit(u)
    <3>1. \/ th'[u] = [IdleThread EXCEPT !.pc = "push", !.role = "participant", !.msg = "funded"]
          \/ th'[u] = [th[u] EXCEPT !.pc = "put_watch"]
      BY <1>0, <2>2 DEF ReinstateCommit
    <3> QED
      BY <1>0, <3>1 DEF IdleThread, Thread
  <2> QED
    BY <1>6, <2>1, <2>2
<1>7. CASE FundedCommit(u) \/ RecordCommit(u) \/ ReinstateRead(u) \/ ReinstateLift(u)
  <2>1. /\ AfterRecord(th[u]).pc \in {"reinstate", "put_watch"}
        /\ AfterReinstate(th[u]).pc \in {"idle", "put_watch"}
        /\ [th[u] EXCEPT !.pc = "lifted"].pc = "lifted"
        /\ [th[u] EXCEPT !.pc = "reinstating", !.seen = m.funding["participant"]].pc = "reinstating"
        /\ IdleThread.pc = "idle"
    BY <1>0, ThreadShapes DEF Thread, IdleThread
  <2> QED
    BY <1>0, <1>1, <1>2, <1>7, <2>1 DEF FundedCommit, RecordCommit, ReinstateRead, ReinstateLift
<1> QED
  BY <1>2, <1>3, <1>4, <1>5, <1>6, <1>7 DEF Post, Serve, Accept, Decline, Keys, Hashlock,
     ReleaseRequest, Release, LateFundedCheck, WatchRefund, Roles

\* The watchtower is about to close only what it has just found spent, or had found so.
LEMMA CloseSeen ==
    ASSUME TypeOK, Next, tower'.pc = "close_write"
    PROVE  \/ tower' = tower
           \/ UNCHANGED chainVars /\ tower'.seen = m /\ AllSpent(m)
<1>0. tower \in TowerState
  BY DEF TypeOK
<1>1. CASE CloseRead
  BY <1>1, TowerShapes DEF CloseRead, TowerGoto, TowerPc
<1>2. ASSUME TowerNext, ~CloseRead PROVE FALSE
  <2>1. ~TowerStart /\ ~TickUnaccepted /\ ~TickNothing
    BY TowerShapes DEF TowerStart, TickUnaccepted, TickNothing, TowerGoto, TowerPc
  <2>2. ~(\E r \in Roles : TickStrike(r)) /\ ~TickCancel
    BY <1>0, TowerShapes DEF TickStrike, TickCancel, TowerGoto, TowerPc, TowerState
  <2>3. ~ClockRead /\ ~ClockWrite /\ ~ClockRelay /\ ~CloseWrite
    BY TowerShapes DEF ClockRead, ClockWrite, ClockRelay, CloseWrite, TowerGoto, TowerPc
  <2> QED
    BY <1>2, <2>1, <2>2, <2>3 DEF TowerNext
<1>3. CASE TowerFails \/ Crash
  <2>1. IdleTower.pc = "idle" /\ TowerAt("clock").pc = "clock" /\ TowerAt("close").pc = "close"
        /\ TowerAt("idle").pc = "idle"
    BY TowerShapes DEF TowerPc, IdleTower
  <2>2. tower' \in {TowerAt("clock"), TowerAt("close"), TowerAt("idle"), IdleTower}
    BY <1>3 DEF TowerFails, Crash
  <2> QED
    BY <2>1, <2>2
<1>4. ASSUME NEW t \in Threads, Post(t) \/ Serve(t) \/ ThreadFails(t) PROVE tower' = tower
  BY <1>4 DEF Post, Serve, Accept, Decline, Keys, Hashlock, ReleaseRequest, Release,
     FundedCheck, LateFundedCheck, WatchRefund, WatchRedeem, RecordCheck, PutThenPush, Goto, Push,
     FundedCommit, RecordCommit, ReinstateRead, ReinstateLift, ReinstateCommit, PutWatch, ThreadFails
<1>5. ASSUME Tick \/ \E o \in Outs : ChainNext(o) PROVE tower' = tower
  BY <1>5 DEF Tick, ChainNext, Broadcast, Bury, Spend, Evict, Reorg, EvictSpend, Mine,
     Forward, Rewind, ChainStep, edgeVars
<1> QED
  BY <1>1, <1>2, <1>3, <1>4, <1>5 DEF Next

\* Every step keeps it.
LEMMA CloseInvStep ==
    ASSUME IInv, CloseInv, Next
    PROVE  CloseInv'
<1> SUFFICES ASSUME rewinds' = 0
             PROVE  /\ \A r \in Roles : m'.funding[r] # None => (Created(m.funding[r]))'
                    /\ \A t \in Threads : th'[t].pc \in {"funded", "record"} => (Created(th[t].out))'
                    /\ tower'.pc = "close_write" =>
                         \A r \in Roles : tower'.seen.funding[r] # None => chain'[tower'.seen.funding[r]] = "spent"
  BY DEF CloseInv, Created
<1>0. /\ TypeOK /\ TypeOK' /\ None \notin Outs /\ m \in Match /\ m' \in Match
      /\ th \in [Threads -> Thread] /\ th' \in [Threads -> Thread] /\ tower \in TowerState
      /\ chain \in [Outs -> ChainState]
  BY IInvStep, SwapMatchConstants DEF IInv, TypeOK
<1>1. /\ rewinds = 0
      /\ \A o \in Outs : (Created(o) => Created(o)') /\ (chain[o] = "spent" => chain'[o] = "spent")
  BY <1>0, ChainGrows
<1>2. /\ \A r \in Roles : m.funding[r] # None => Created(m.funding[r])
      /\ \A t \in Threads : th[t].pc \in {"funded", "record"} => Created(th[t].out)
      /\ tower.pc = "close_write" =>
           \A r \in Roles : tower.seen.funding[r] # None => chain[tower.seen.funding[r]] = "spent"
  BY <1>1 DEF CloseInv
<1>3. ASSUME NEW r \in Roles, m'.funding[r] # None PROVE (Created(m.funding[r]))'
  <2>1. m'.funding[r] \in Outs
    BY <1>0, <1>3 DEF Match
  <2>2. CASE m'.funding[r] = m.funding[r]
    <3>1. Created(m.funding[r]) /\ m.funding[r] \in Outs
      BY <1>2, <1>3, <2>1, <2>2
    <3> QED
      BY <1>1, <2>2, <3>1 DEF Created
  <2>3. CASE m'.funding[r] # m.funding[r]
    <3>1. PICK t \in Threads : th[t].pc \in {"funded", "record"} /\ m'.funding[r] = th[t].out
      BY <2>3, FundingFrom
    <3>2. Created(th[t].out) /\ th[t].out \in Outs
      BY <1>2, <2>1, <3>1
    <3> QED
      BY <1>1, <3>1, <3>2 DEF Created
  <2> QED
    BY <2>2, <2>3
<1>4. ASSUME NEW u \in Threads, th'[u].pc \in {"funded", "record"} PROVE (Created(th[u].out))'
  <2>0. th'[u].out \in Outs
    BY <1>4, IInvStep DEF IInv, OutNamed
  <2>1. CASE th'[u] = th[u]
    BY <1>1, <1>2, <1>4, <2>0, <2>1 DEF Created
  <2>2. CASE th'[u] = IdleThread
    BY <1>4, <2>2 DEF IdleThread
  <2>3. CASE Post(u) \/ Serve(u) \/ ThreadFails(u)
    BY <1>1, <1>4, <2>0, <2>3, RecordsCreated DEF Created
  <2> QED
    BY <1>0, <2>1, <2>2, <2>3, OtherThreads
<1>5. ASSUME tower'.pc = "close_write", NEW r \in Roles, tower'.seen.funding[r] # None
      PROVE  chain'[tower'.seen.funding[r]] = "spent"
  <2>1. CASE tower' = tower
    <3>1. tower.seen.funding[r] \in Outs
      BY <1>0, <1>5, <2>1 DEF TowerState, Match
    <3> QED
      BY <1>1, <1>2, <1>5, <2>1, <3>1
  <2>2. CASE UNCHANGED chainVars /\ tower'.seen = m /\ AllSpent(m)
    <3>1. m.funding[r] \in Outs /\ Created(m.funding[r]) /\ ~Unspent(m.funding[r])
      BY <1>0, <1>2, <1>5, <2>2 DEF Match, AllSpent
    <3>2. chain[m.funding[r]] = "spent"
      BY <1>0, <3>1 DEF Created, Unspent, ChainState
    <3> QED
      BY <2>2, <3>2 DEF chainVars
  <2> QED
    BY <1>0, <1>5, <2>1, <2>2, CloseSeen
<1> QED
  BY <1>3, <1>4, <1>5

\* While the chains take nothing back, the watchtower closes a match only when every funding
\* on record at its write is spent (close_if_spent compares with what it read).
THEOREM ClosedWhenSpent == Spec => ClosesOnlySpent
<1> DEFINE A == m.status # "closed" /\ m'.status = "closed" /\ rewinds = 0 =>
                  \A r \in Roles : m.funding[r] # None => ~Unspent(m.funding[r])
<1>1. Init => CloseInv
  BY DEF Init, CloseInv, NewMatch, IdleThread, IdleTower
<1>2. IInv /\ CloseInv /\ [Next]_vars => CloseInv'
  <2>1. ASSUME CloseInv, UNCHANGED vars PROVE CloseInv'
    BY <2>1 DEF vars, CloseInv, Created
  <2> QED
    BY <2>1, CloseInvStep
<1>3. IInv /\ CloseInv /\ [Next]_vars => [A]_m
  <2>1. ASSUME IInv, CloseInv, Next, m.status # "closed", m'.status = "closed", rewinds = 0,
               NEW r \in Roles, m.funding[r] # None
        PROVE  ~Unspent(m.funding[r])
    <3>0. m \in Match
      BY <2>1 DEF IInv, TypeOK
    <3>1. ASSUME NEW t \in Threads, ThreadWrites(t) PROVE FALSE
      <4>1. ASSUME NEW q \in Roles, Accept(t, q) \/ Decline(t, q) \/ Keys(t, q) PROVE FALSE
        BY <2>1, <3>0, <4>1 DEF Accept, Decline, Keys, PutThenPush, Match
      <4>2. CASE Hashlock(t) \/ ReleaseRequest(t) \/ Release(t)
        BY <2>1, <3>0, <4>2 DEF Hashlock, ReleaseRequest, Release, PutThenPush, Match
      <4>3. CASE FundedCommit(t) \/ RecordCommit(t) \/ ReinstateCommit(t)
        BY <2>1, <3>0, <4>3 DEF FundedCommit, RecordCommit, ReinstateCommit, PutThenPush, Goto, Match, Funds
      <4> QED
        BY <3>1, <4>1, <4>2, <4>3 DEF ThreadWrites
    <3>2. CloseWrite
      <4>1. ~(TickUnaccepted \/ TickCancel \/ ClockWrite)
        BY <2>1, <3>0 DEF TickUnaccepted, TickCancel, ClockWrite, TowerGoto, Match
      <4> QED
        BY <2>1, <3>1, <4>1, Writers DEF TowerWrites
    <3>3. tower.pc = "close_write" /\ m.funding = tower.seen.funding
      BY <2>1, <3>2 DEF CloseWrite
    <3> QED
      BY <2>1, <3>3 DEF CloseInv, Unspent
  <2>2. ASSUME IInv, CloseInv, Next PROVE A
    BY <2>1, <2>2
  <2>3. UNCHANGED vars => UNCHANGED m
    BY DEF vars
  <2> QED
    BY <2>2, <2>3
<1>4. [][A]_m => ClosesOnlySpent
  BY DEF ClosesOnlySpent
<1> HIDE DEF A
<1> QED
  BY <1>1, <1>2, <1>3, <1>4, Invariance, PTL DEF Spec

-----------------------------------------------------------------------------
(* Strikes                                                                 *)

\* A thread has lifted the strike of the match it is about to reinstate.
Lifting == \E t \in Threads : th[t].pc = "lifted"

\* A strike at `at` against r belongs to the match as it is stored, or as the holder of the
\* lock is about to store it.
Struck(r, at) ==
    IF tower.pc = "cancel" THEN at = tower.at /\ m.status = Needs(r)
    ELSE IF r = "participant" THEN m.missed /\ m.closed_at = at /\ ~Lifting
    ELSE m.status = "cancelled" /\ ~m.missed /\ m.closed_at = at

StrikeInv ==
    faults = 0 =>
      \A t \in Times :
        /\ strikes["participant"][t] = IF Struck("participant", t) THEN 1 ELSE 0
        /\ strikes["initiator"][t] <= IF Struck("initiator", t) THEN 1 ELSE 0

\* A write that leaves a missed deadline and the closing of a cancelled match alone.
StrikeKept ==
    /\ m'.missed = m.missed
    /\ m.status = "cancelled" => m'.status = "cancelled" /\ m'.closed_at = m.closed_at

\* Such a write leaves the strikes exact.
LEMMA StrikeQuiet ==
    ASSUME IInv, StrikeInv, StrikeKept, strikes' = strikes, faults' = faults,
           tower.pc # "cancel", tower'.pc # "cancel", Lifting' <=> Lifting
    PROVE  StrikeInv'
<1> SUFFICES ASSUME faults = 0, NEW t \in Times
             PROVE  /\ strikes["participant"][t] = IF Struck("participant", t)' THEN 1 ELSE 0
                    /\ strikes["initiator"][t] <= IF Struck("initiator", t)' THEN 1 ELSE 0
  BY DEF StrikeInv
<1>0. m.missed => m.status = "cancelled"
  BY DEF IInv, MatchInv
<1>1. Struck("participant", t)' <=> Struck("participant", t)
  BY <1>0 DEF Struck, StrikeKept
<1>2. Struck("initiator", t) => Struck("initiator", t)'
  BY <1>0 DEF Struck, StrikeKept
<1>3. /\ strikes["participant"][t] = IF Struck("participant", t) THEN 1 ELSE 0
      /\ strikes["initiator"][t] <= IF Struck("initiator", t) THEN 1 ELSE 0
      /\ strikes["initiator"][t] \in Nat
  BY DEF StrikeInv, IInv, TypeOK, Roles
<1> QED
  BY <1>1, <1>2, <1>3

\* While the watchtower is between its strike and its cancel, nothing that counts changes.
LEMMA StrikeHeld ==
    ASSUME StrikeInv, strikes' = strikes, faults' = faults, m' = m, tower.pc = "cancel", tower' = tower
    PROVE  StrikeInv'
BY DEF StrikeInv, Struck

\* Steps other than a reinstatement's leave alone which threads have lifted a strike.
LEMMA LiftingSame ==
    ASSUME TypeOK, NEW t \in Threads, Post(t) \/ Serve(t), ~ReinstateLift(t), ~ReinstateCommit(t)
    PROVE  Lifting' <=> Lifting
<1>0. th \in [Threads -> Thread] /\ th[t] \in Thread
  BY DEF TypeOK
<1>1. th[t].pc # "lifted" /\ th'[t].pc # "lifted"
  <2>1. CASE Post(t)
    <3>1. th'[t].pc # "lifted"
      BY <2>1, PostThread
    <3>2. th[t].pc = "idle"
      BY <2>1 DEF Post, Accept, Decline, Keys, Hashlock, ReleaseRequest, Release, Free,
         FundedCheck, LateFundedCheck, WatchRefund, WatchRedeem
    <3> QED
      BY <3>1, <3>2
  <2>2. CASE Push(t) \/ FundedCommit(t) \/ PutWatch(t)
    <3>1. th[t].pc \in {"push", "funded", "put_watch"}
      BY <2>2 DEF Push, FundedCommit, PutWatch
    <3>2. \/ th'[t] = IdleThread
          \/ th'[t] = [IdleThread EXCEPT !.pc = "push", !.role = th[t].role, !.msg = "funded"]
      <4>1. CASE Push(t) \/ PutWatch(t)
        BY <1>0, <4>1 DEF Push, PutWatch
      <4>2. CASE FundedCommit(t)
        BY <1>0, <4>2 DEF FundedCommit, PutThenPush, Goto
      <4> QED
        BY <2>2, <4>1, <4>2
    <3>3. /\ IdleThread.pc = "idle"
          /\ [IdleThread EXCEPT !.pc = "push", !.role = th[t].role, !.msg = "funded"].pc = "push"
      BY DEF IdleThread
    <3> QED
      BY <3>1, <3>2, <3>3
  <2>3. CASE RecordCommit(t) \/ ReinstateRead(t)
    <3>1. /\ AfterRecord(th[t]).pc # "lifted" /\ AfterReinstate(th[t]).pc # "lifted"
          /\ [th[t] EXCEPT !.pc = "reinstating", !.seen = m.funding["participant"]].pc = "reinstating"
          /\ IdleThread.pc = "idle"
      BY <1>0, ThreadShapes DEF Thread, IdleThread
    <3> QED
      BY <1>0, <2>3, <3>1 DEF RecordCommit, ReinstateRead, Goto
  <2> QED
    BY <2>1, <2>2, <2>3 DEF Serve
<1>2. \A u \in Threads : u # t => th'[u] = th[u]
  BY ThreadAlone
<1> QED
  BY <1>1, <1>2 DEF Lifting

\* A thread's write other than a reinstatement's leaves the strikes exact.
LEMMA ThreadStrikes ==
    ASSUME IInv, StrikeInv, Next, NEW t \in Threads, Post(t) \/ Serve(t),
           ~ReinstateLift(t), ~ReinstateCommit(t)
    PROVE  StrikeInv'
<1>0. m \in Match /\ TypeOK
  BY DEF IInv, TypeOK
<1>1. strikes' = strikes /\ faults' = faults /\ tower' = tower
  BY DEF Post, Serve, Accept, Decline, Keys, Hashlock, ReleaseRequest, Release,
     FundedCheck, LateFundedCheck, WatchRefund, WatchRedeem, RecordCheck, PutThenPush, Goto, Push,
     FundedCommit, RecordCommit, ReinstateRead, PutWatch
<1>2. Lifting' <=> Lifting
  BY <1>0, LiftingSame
<1>3. StrikeKept
  <2>1. m' = m \/ ThreadWrites(t)
    BY DEF Post, Serve, ThreadWrites, FundedCheck, LateFundedCheck, WatchRefund, WatchRedeem,
       RecordCheck, Goto, Push, ReinstateRead, PutWatch
  <2>2. ASSUME NEW r \in Roles, Accept(t, r) \/ Decline(t, r) \/ Keys(t, r) PROVE StrikeKept
    BY <1>0, <2>2 DEF Accept, Decline, Keys, PutThenPush, Match, StrikeKept
  <2>3. CASE Hashlock(t) \/ ReleaseRequest(t) \/ Release(t)
    BY <1>0, <2>3 DEF Hashlock, ReleaseRequest, Release, PutThenPush, Match, StrikeKept
  <2>4. CASE FundedCommit(t)
    BY <1>0, <2>4 DEF FundedCommit, PutThenPush, Goto, Match, Needs, StrikeKept
  <2>5. CASE RecordCommit(t)
    BY <1>0, <2>5 DEF RecordCommit, Goto, Match, StrikeKept
  <2>6. m' = m => StrikeKept
    BY DEF StrikeKept
  <2> QED
    BY <2>1, <2>2, <2>3, <2>4, <2>5, <2>6 DEF ThreadWrites
<1>4. CASE tower.pc = "cancel"
  <2>1. lock = Tower /\ Tower # None /\ Tower \notin Threads
    BY <1>4, SwapMatchConstants DEF IInv, LockHeld
  <2>2. ~TickCancel
    BY <1>0, <1>1, <1>4 DEF TickCancel, TowerAt
  <2>3. m' = m
    BY <2>1, <2>2, WriteNeedsLock
  <2> QED
    BY <1>1, <1>4, <2>3, StrikeHeld
<1>5. CASE tower.pc # "cancel"
  BY <1>1, <1>2, <1>3, <1>5, StrikeQuiet
<1> QED
  BY <1>4, <1>5

\* A reinstatement lifts the strike before the match is written, both under the lock.
LEMMA ReinstateStrikes ==
    ASSUME IInv, StrikeInv, NEW t \in Threads, ReinstateLift(t) \/ ReinstateCommit(t)
    PROVE  StrikeInv'
<1>0. /\ m \in Match /\ th \in [Threads -> Thread] /\ th[t] \in Thread
      /\ strikes \in [Roles -> [Times -> Nat]] /\ t # Tower /\ t # None /\ Tower # None
      /\ "participant" \in Roles /\ "initiator" \in Roles
  BY SwapMatchConstants DEF IInv, TypeOK, Roles
<1>1. CASE ReinstateLift(t)
  <2>1. tower.pc # "cancel" /\ tower' = tower /\ m' = m /\ faults' = faults
    BY <1>0, <1>1 DEF ReinstateLift, Goto, IInv, LockHeld
  <2>2. ~Lifting
    BY <1>0, <1>1, SwapMatchConstants DEF ReinstateLift, IInv, LockHeld, Lifting
  <2>3. CASE Goto(t, AfterReinstate(th[t]))
    <3>1. AfterReinstate(th[t]).pc # "lifted"
      BY <1>0, ThreadShapes
    <3>2. ~Lifting'
      BY <1>0, <2>2, <2>3, <3>1 DEF Goto, Lifting
    <3>3. StrikeKept /\ strikes' = strikes
      BY <2>1, <2>3 DEF Goto, StrikeKept
    <3> QED
      BY <2>1, <2>2, <3>2, <3>3, StrikeQuiet
  <2>4. CASE ~Goto(t, AfterReinstate(th[t]))
    <3>1. /\ eligible(m) /\ strikes' = remove_strike(strikes, "participant", m.closed_at)
          /\ th' = [th EXCEPT ![t].pc = "lifted"]
      BY <1>1, <2>4 DEF ReinstateLift
    <3>2. Lifting'
      BY <1>0, <3>1 DEF Lifting, Thread
    <3> SUFFICES ASSUME faults = 0, NEW at \in Times
                 PROVE  /\ strikes'["participant"][at] = IF Struck("participant", at)' THEN 1 ELSE 0
                        /\ strikes'["initiator"][at] <= IF Struck("initiator", at)' THEN 1 ELSE 0
      BY <2>1 DEF StrikeInv
    <3>3. m.missed /\ m.status = "cancelled"
      BY <3>1 DEF eligible
    <3>4. /\ strikes["participant"][at] = IF m.closed_at = at THEN 1 ELSE 0
          /\ strikes["initiator"][at] = 0
      BY <1>0, <2>1, <2>2, <3>3 DEF StrikeInv, Struck
    <3>5. /\ strikes'["participant"][at] = 0
          /\ strikes'["initiator"][at] = strikes["initiator"][at]
      BY <1>0, <3>1, <3>4 DEF remove_strike
    <3>6. ~Struck("participant", at)' /\ ~Struck("initiator", at)'
      BY <2>1, <3>2, <3>3 DEF Struck
    <3> QED
      BY <3>4, <3>5, <3>6
  <2> QED
    BY <2>3, <2>4
<1>2. CASE ReinstateCommit(t)
  <2>1. /\ th[t].pc = "lifted" /\ Lifting /\ eligible(m)
        /\ m' = [m EXCEPT !.status = "participant_funded", !.missed = FALSE, !.closed_at = NoTime]
        /\ strikes' = strikes /\ faults' = faults /\ tower' = tower
    BY <1>2 DEF ReinstateCommit, Lifting, IInv, ThreadInv
  <2>2. lock = t /\ tower.pc # "cancel"
    BY <1>0, <2>1 DEF IInv, LockHeld
  <2> SUFFICES ASSUME faults = 0, NEW at \in Times
               PROVE  /\ strikes["participant"][at] = IF Struck("participant", at)' THEN 1 ELSE 0
                      /\ strikes["initiator"][at] <= IF Struck("initiator", at)' THEN 1 ELSE 0
    BY <2>1 DEF StrikeInv
  <2>3. strikes["participant"][at] = 0 /\ strikes["initiator"][at] = 0
    BY <1>0, <2>1, <2>2 DEF StrikeInv, Struck, eligible
  <2>4. ~Struck("participant", at)' /\ ~Struck("initiator", at)'
    BY <1>0, <2>1, <2>2 DEF Struck, Match
  <2> QED
    BY <2>3, <2>4
<1> QED
  BY <1>1, <1>2

\* The watchtower strikes for the deadline of the match it then cancels.
LEMMA TowerStrikes ==
    ASSUME IInv, StrikeInv, TowerNext
    PROVE  StrikeInv'
<1>0. /\ TypeOK /\ m \in Match /\ tower \in TowerState /\ tower.at \in Times
      /\ strikes \in [Roles -> [Times -> Nat]] /\ TowerInv /\ LockHeld /\ Tower # None
      /\ "participant" \in Roles /\ "initiator" \in Roles
  BY SwapMatchConstants DEF IInv, TypeOK, TowerState, Roles
<1>1. ASSUME NEW r \in Roles, TickStrike(r) PROVE StrikeInv'
  <2>1. /\ tower.pc = "tick" /\ tower'.pc = "cancel" /\ tower'.at = tower.at
        /\ m' = m /\ faults' = faults /\ m.status = Needs(r)
        /\ strikes' = [strikes EXCEPT ![r][tower.at] = @ + 1]
    BY <1>0, <1>1 DEF TickStrike, TowerState, Overdue_initiator, Overdue_participant, Needs, Roles
  <2> SUFFICES ASSUME faults = 0, NEW at \in Times
               PROVE  /\ strikes'["participant"][at] = IF Struck("participant", at)' THEN 1 ELSE 0
                      /\ strikes'["initiator"][at] <= IF Struck("initiator", at)' THEN 1 ELSE 0
    BY <2>1 DEF StrikeInv
  <2>2. m.status # "cancelled" /\ ~m.missed
    BY <2>1 DEF Needs, IInv, MatchInv
  <2>3. strikes["participant"][at] = 0 /\ strikes["initiator"][at] = 0
    BY <1>0, <2>1, <2>2 DEF StrikeInv, Struck
  <2>4. \A q \in Roles : strikes'[q][at] = IF q = r /\ at = tower.at THEN 1 ELSE 0
    BY <1>0, <2>1, <2>3 DEF Roles
  <2>5. \A q \in Roles : Struck(q, at)' <=> q = r /\ at = tower.at
    BY <2>1 DEF Struck, Needs, Roles
  <2> QED
    BY <1>0, <2>4, <2>5
<1>2. CASE TickCancel
  <2>1. /\ tower.pc = "cancel" /\ tower'.pc = "clock" /\ lock = Tower
        /\ strikes' = strikes /\ faults' = faults /\ m.status \in {"accepted", "initiator_funded"}
        /\ m' = [m EXCEPT !.status = "cancelled", !.closed_at = tower.at,
                          !.missed = @ \/ m.status = "initiator_funded"]
    BY <1>0, <1>2 DEF TickCancel, TowerAt, TowerInv, LockHeld
  <2>2. ~m.missed
    BY <2>1 DEF IInv, MatchInv
  <2>3. ~Lifting'
    BY <1>0, <1>2, <2>1, SwapMatchConstants DEF TickCancel, Lifting, LockHeld
  <2>4. /\ m'.status = "cancelled" /\ m'.closed_at = tower.at
        /\ m'.missed <=> m.status = "initiator_funded"
    BY <1>0, <2>1, <2>2 DEF Match
  <2> SUFFICES ASSUME faults = 0, NEW at \in Times
               PROVE  /\ strikes["participant"][at] = IF Struck("participant", at)' THEN 1 ELSE 0
                      /\ strikes["initiator"][at] <= IF Struck("initiator", at)' THEN 1 ELSE 0
    BY <2>1 DEF StrikeInv
  <2>5. /\ strikes["participant"][at] = IF at = tower.at /\ m.status = "initiator_funded" THEN 1 ELSE 0
        /\ strikes["initiator"][at] <= IF at = tower.at /\ m.status = "accepted" THEN 1 ELSE 0
    BY <2>1 DEF StrikeInv, Struck, Needs
  <2>6. /\ Struck("participant", at)' <=> at = tower.at /\ m.status = "initiator_funded"
        /\ Struck("initiator", at)' <=> at = tower.at /\ m.status # "initiator_funded"
    BY <2>1, <2>3, <2>4 DEF Struck
  <2> QED
    BY <2>1, <2>5, <2>6
<1>3. ASSUME StrikeKept, strikes' = strikes, faults' = faults, th' = th,
             tower.pc # "cancel", tower'.pc # "cancel"
      PROVE  StrikeInv'
  BY <1>3, StrikeQuiet DEF Lifting
<1>4. CASE TowerStart \/ TickNothing \/ ClockRead \/ ClockRelay \/ CloseRead
  <2>1. tower.pc # "cancel" /\ tower'.pc # "cancel"
    <3>1. CASE TowerStart
      BY <3>1 DEF TowerStart
    <3>2. CASE TickNothing \/ ClockRelay
      BY <1>0, <3>2, TowerShapes DEF TickNothing, ClockRelay, TowerGoto, TowerPc
    <3>3. CASE ClockRead \/ CloseRead
      BY <1>0, <3>3, TowerShapes DEF ClockRead, CloseRead, TowerGoto, TowerPc
    <3> QED
      BY <1>4, <3>1, <3>2, <3>3
  <2>2. UNCHANGED <<m, strikes, faults, th>>
    BY <1>4 DEF TowerStart, TickNothing, ClockRead, ClockRelay, CloseRead, TowerGoto
  <2> QED
    BY <1>3, <2>1, <2>2 DEF StrikeKept
<1>5. CASE TickUnaccepted \/ ClockWrite
  <2>1. StrikeKept
    BY <1>0, <1>5 DEF TickUnaccepted, ClockWrite, TowerGoto, Overdue_accept, StrikeKept, Match
  <2>2. /\ strikes' = strikes /\ faults' = faults /\ th' = th
        /\ tower.pc # "cancel" /\ tower'.pc # "cancel"
    BY <1>5 DEF TickUnaccepted, ClockWrite, TowerGoto, TowerAt, IdleTower
  <2> QED
    BY <1>3, <2>1, <2>2
<1>6. CASE CloseWrite
  <2>1. StrikeKept
    BY <1>0, <1>6 DEF CloseWrite, StrikeKept, Match, TowerInv
  <2>2. /\ strikes' = strikes /\ faults' = faults /\ th' = th
        /\ tower.pc # "cancel" /\ tower'.pc # "cancel"
    BY <1>6 DEF CloseWrite, TowerAt, IdleTower
  <2> QED
    BY <1>3, <2>1, <2>2
<1> QED
  BY <1>1, <1>2, <1>4, <1>5, <1>6 DEF TowerNext

\* Every step keeps the strikes exact.
LEMMA StrikeStep ==
    ASSUME IInv, StrikeInv, Next
    PROVE  StrikeInv'
<1>1. ASSUME NEW t \in Threads, Post(t) \/ Serve(t) PROVE StrikeInv'
  BY <1>1, ThreadStrikes, ReinstateStrikes
<1>2. CASE TowerNext
  BY <1>2, TowerStrikes
<1>3. CASE TowerFails \/ Crash \/ \E t \in Threads : ThreadFails(t)
  <2>1. faults' = faults + 1 /\ faults \in Nat
    BY <1>3 DEF TowerFails, Crash, ThreadFails, IInv, TypeOK
  <2> QED
    BY <2>1 DEF StrikeInv
<1>4. CASE Tick \/ \E o \in Outs : ChainNext(o)
  <2>1. UNCHANGED <<m, strikes, th, tower, faults>>
    BY <1>4 DEF Tick, ChainNext, Broadcast, Bury, Spend, Evict, Reorg, EvictSpend, Mine,
       Forward, Rewind, ChainStep, edgeVars
  <2> QED
    BY <2>1 DEF StrikeInv, Struck, Lifting
<1> QED
  BY <1>1, <1>2, <1>3, <1>4 DEF Next

\* Without faults and with the lock free, the participant is struck once exactly while the
\* match stands cancelled for its deadline, the initiator at most once and for another reason
\* (tick_match strikes and cancels, reinstate_if_funded_in_time lifts and reinstates).
THEOREM StrikesAreExact == Spec => []StrikesExact
<1>1. Init => StrikeInv
  BY DEF Init, StrikeInv, Struck, IdleTower, NewMatch, Roles
<1>2. IInv /\ StrikeInv /\ [Next]_vars => StrikeInv'
  <2>1. ASSUME StrikeInv, UNCHANGED vars PROVE StrikeInv'
    BY <2>1 DEF vars, StrikeInv, Struck, Lifting
  <2> QED
    BY <2>1, StrikeStep
<1>3. IInv /\ StrikeInv => StrikesExact
  <2> SUFFICES ASSUME IInv, StrikeInv, faults = 0, lock = None, NEW t \in Times
               PROVE  /\ strikes["participant"][t] = IF m.missed /\ m.closed_at = t THEN 1 ELSE 0
                      /\ strikes["initiator"][t] <=
                           IF m.status = "cancelled" /\ ~m.missed /\ m.closed_at = t THEN 1 ELSE 0
    BY DEF StrikesExact
  <2>1. tower.pc # "cancel" /\ ~Lifting
    BY SwapMatchConstants DEF IInv, LockHeld, Lifting
  <2> QED
    BY <2>1 DEF StrikeInv, Struck
<1> QED
  BY <1>1, <1>2, <1>3, Invariance, PTL DEF Spec

=============================================================================

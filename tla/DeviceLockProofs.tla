-------------------------- MODULE DeviceLockProofs --------------------------
(***************************************************************************)
(* Safety of DeviceLock for any number of phones, start workers, calls and *)
(* faults.  On one phone everything follows from who owns the process-wide *)
(* claim and what a lock operation under way works for; between phones,    *)
(* from what a version somebody still knows says of the record in VSS.     *)
(***************************************************************************)
EXTENDS DeviceLock, FiniteSetTheorems, TLAPS

-----------------------------------------------------------------------------
(* The inductive invariant                                                 *)

\* Where a start worker owns the claim, where it has the lock, and where it has built on it.
Claiming == {"probe", "lock", "locking", "build", "start", "connect", "install", "drop", "unlock", "unclaim"}
Locked == {"build", "start", "connect", "install", "drop", "unlock"}

\* The claim has one owner: a worker, the node installed, or what ends it.
ClaimInv(d) ==
    /\ \A w \in Workers : wk[d][w].pc \in Claiming =>
           /\ claim[d] = "starting" /\ inner[d] = None /\ ender[d] = None
           /\ \A v \in Workers : wk[d][v].pc \in Claiming => v = w
    /\ inner[d] # None => claim[d] = "running" /\ ender[d] = None
    /\ ender[d] # None => claim[d] = "stopping"

\* What a lock operation under way works for is still there and waits for it.
OpInv(d) ==
    op[d] # None =>
        /\ op[d].kind \in {"acquire", "takeover"} =>
               op[d].who \in Workers /\ wk[d][op[d].who].pc = "locking"
        /\ op[d].kind = "release" =>
               /\ slot[d] = None
               /\ \/ op[d].who = "stop" /\ ender[d] = "release"
                  \/ op[d].who \in Workers /\ wk[d][op[d].who].pc = "unlock"
        /\ op[d].kind = "refresh" =>
               /\ op[d].gen <= gen[d] /\ op[d].ver = slot[d]
               /\ op[d].gen = gen[d] => inner[d] # None
               /\ inner[d] # None \/ ender[d] \in {"stop", "release"}

\* A generation names one run: the one installed, checked, or found to have lost its lock.
GenInv(d) ==
    /\ inner[d] \in {None, gen[d]}
    /\ checker[d] # None => checker[d] = inner[d]
    /\ losing[d] # None =>
           /\ losing[d] <= gen[d]
           /\ losing[d] = gen[d] => inner[d] # None /\ slot[d] = None /\ op[d] = None

\* A version in the slot is given back by somebody.
SlotInv(d) ==
    slot[d] # None =>
        \/ inner[d] # None
        \/ ender[d] \in {"stop", "release"}
        \/ \E w \in Workers : wk[d][w].pc \in Locked /\ wk[d][w].held = slot[d]

PhoneInv(d) == ClaimInv(d) /\ OpInv(d) /\ GenInv(d) /\ SlotInv(d)

\* The version of its own record that a phone still knows: it holds it, or is about to write
\* or delete at it.
Knows(d, v) ==
    \/ slot[d] = v
    \/ /\ op[d] # None /\ op[d].ver = v
       /\ op[d].kind = "release" \/ (op[d].kind = "acquire" /\ op[d].pc = "put" /\ v # 0)

\* A version known is that of the phone's own record, or, after a takeover, an older one.
KnowsInv(d) ==
    /\ d \in ousted => ~Own(d)
    /\ ~reset => \A v \in Nat : Knows(d, v) =>
           /\ store # None
           /\ IF d \in ousted THEN v < store.ver ELSE Own(d) /\ v <= store.ver

\* A phone that has the lock and means to use it, or still has a node.
Using(d) ==
    \/ \E w \in Workers : wk[d][w].pc \in {"build"} \cup WithNode
    \/ inner[d] # None
    \/ ender[d] \in {"stop", "lost"}

\* ... has its record in VSS, unless a takeover or a reset took it.
UsingInv(d) == Using(d) => Own(d) \/ d \in ousted \/ reset

\* While every round trip was answered, a phone knows the version of the record it owns.
AnsweredInv(d) ==
    faults = 0 /\ Own(d) =>
        \/ slot[d] = store.ver
        \/ op[d] # None /\ op[d].kind = "release" /\ op[d].ver = store.ver

Sound(d) == PhoneInv(d) /\ KnowsInv(d) /\ UsingInv(d) /\ AnsweredInv(d)

IInv ==
    /\ TypeOK
    /\ \A d \in Devices : Sound(d)


-----------------------------------------------------------------------------
(* One phone's step and the others                                         *)

\* A step leaves a phone's process as it is.
Same(d) ==
    /\ gen'[d] = gen[d] /\ inner'[d] = inner[d] /\ slot'[d] = slot[d] /\ claim'[d] = claim[d]
    /\ wk'[d] = wk[d] /\ ender'[d] = ender[d] /\ checker'[d] = checker[d]
    /\ losing'[d] = losing[d] /\ op'[d] = op[d]

\* A step counts a fault or none.
Counted == faults' \in {faults, faults + 1}

\* A phone whose process is left alone stays as sound as the record in VSS lets it.
LEMMA SamePhone ==
    ASSUME NEW d \in Devices, Same(d), PhoneInv(d)
    PROVE  PhoneInv(d)'
<1>1. ClaimInv(d)' /\ SlotInv(d)'
  BY DEF Same, PhoneInv, ClaimInv, SlotInv
<1>2. OpInv(d)' /\ GenInv(d)'
  BY DEF Same, PhoneInv, OpInv, GenInv
<1> QED
  BY <1>1, <1>2 DEF PhoneInv

\* A step that leaves the record in VSS alone keeps what the other phones know of it.
LEMMA OthersUntouched ==
    ASSUME TypeOK, NEW e \in Devices, Sound(e), Same(e), Untouched, Counted
    PROVE  Sound(e)'
<1>1. PhoneInv(e)'
  BY SamePhone DEF Sound
<1>2. KnowsInv(e)' /\ UsingInv(e)'
  BY DEF Sound, KnowsInv, UsingInv, Using, Knows, Own, Same, Untouched
<1>3. AnsweredInv(e)'
  BY DEF Sound, AnsweredInv, Own, Same, Untouched, Counted, TypeOK
<1> QED
  BY <1>1, <1>2, <1>3 DEF Sound

\* What a phone may write over: after a takeover anything, else its own record or none.
MayWrite(d) == op[d].kind = "takeover" \/ store = None \/ Own(d) \/ reset

\* A write keeps what the other phones know: a takeover ousts the phone it takes from.
LEMMA OthersWritten ==
    ASSUME TypeOK, NEW d \in Devices, NEW e \in Devices, e # d, Sound(e), Same(e), Counted,
           NEW ver \in Nat, Applies(ver), MayWrite(d), Written(d, ver)
    PROVE  Sound(e)'
<1>1. PhoneInv(e)'
  BY SamePhone DEF Sound
<1>2. /\ store' = [dev |-> d, ver |-> ver + 1] /\ store' # None /\ ~Own(e)'
      /\ store'.ver = ver + 1
  BY DeviceLockConstants DEF Written, Own, Lock
<1>3. e \in ousted => e \in ousted'
  BY DEF Written
<1>4. Own(e) => e \in ousted' \/ reset
  BY DEF MayWrite, Written, Own
<1>5. store # None => store.ver = ver /\ store.ver \in Nat
  BY DEF Applies, TypeOK, Lock
<1>6. KnowsInv(e)'
  <2>1. e \in ousted' => e \in ousted \/ Own(e)
    BY DEF Written, Own
  <2> SUFFICES ASSUME ~reset', NEW v \in Nat, Knows(e, v)'
               PROVE  e \in ousted' /\ v < ver + 1
    BY <1>2 DEF KnowsInv
  <2>2. ~reset /\ Knows(e, v)
    BY DEF Written, Knows, Same
  <2>3. store # None /\ v <= store.ver /\ (e \in ousted \/ Own(e))
    BY <2>2, <1>5 DEF Sound, KnowsInv
  <2> QED
    BY <2>2, <2>3, <1>3, <1>4, <1>5
<1>7. UsingInv(e)'
  <2>1. Using(e)' => Using(e)
    BY DEF Using, Same
  <2>2. reset' = reset
    BY DEF Written
  <2> QED
    BY <2>1, <2>2, <1>3, <1>4 DEF Sound, UsingInv
<1>8. AnsweredInv(e)'
  BY <1>2 DEF AnsweredInv
<1> QED
  BY <1>1, <1>6, <1>7, <1>8 DEF Sound

\* So does the deletion of a phone's own record; of another's, only once there was a reset.
LEMMA OthersDeleted ==
    ASSUME TypeOK, NEW d \in Devices, NEW e \in Devices, e # d, Sound(e), Same(e), Counted,
           Own(d) \/ reset, Deleted
    PROVE  Sound(e)'
<1>1. PhoneInv(e)'
  BY SamePhone DEF Sound
<1>2. ~Own(e)' /\ ousted' = ousted /\ (reset => reset') /\ (~reset => ~Own(e))
  BY DEF Deleted, Own
<1>3. KnowsInv(e)'
  <2> SUFFICES ASSUME ~reset', NEW v \in Nat, Knows(e, v)'
               PROVE  FALSE
    BY <1>2 DEF KnowsInv
  <2>1. ~reset /\ Knows(e, v)
    BY <1>2 DEF Knows, Same
  <2>2. e \in ousted
    BY <2>1, <1>2 DEF Sound, KnowsInv
  <2>3. slot[e] # None \/ op[e] # None
    BY <2>1, DeviceLockConstants DEF Knows
  <2> QED
    BY <2>1, <2>2, <2>3 DEF Deleted
<1>4. UsingInv(e)'
  <2>1. Using(e)' => Using(e)
    BY DEF Using, Same
  <2> QED
    BY <2>1, <1>2 DEF Sound, UsingInv
<1>5. AnsweredInv(e)'
  BY <1>2 DEF AnsweredInv
<1> QED
  BY <1>1, <1>3, <1>4, <1>5 DEF Sound

-----------------------------------------------------------------------------
(* Types                                                                   *)

\* A write or a deletion leaves a record of its type, or none.
LEMMA StoreTypes ==
    ASSUME TypeOK, NEW d \in Devices, NEW ver \in Nat, Untouched \/ Written(d, ver) \/ Deleted
    PROVE  store' \in Lock \cup {None} /\ ousted' \subseteq Devices /\ reset' \in BOOLEAN
<1>1. CASE Untouched
  BY <1>1 DEF Untouched, TypeOK
<1>2. CASE Written(d, ver)
  <2>1. store' \in Lock
    BY <1>2 DEF Written, Lock
  <2>2. store # None => store.dev \in Devices
    BY DEF TypeOK, Lock
  <2> QED
    BY <1>2, <2>1, <2>2 DEF Written, TypeOK
<1>3. CASE Deleted
  BY <1>3 DEF Deleted, TypeOK
<1> QED
  BY <1>1, <1>2, <1>3

\* What a step of the worker or of the phone leaves of the rest keeps its type.
LEMMA WorkerStepTypes ==
    ASSUME TypeOK, NEW d \in Devices, NEW w \in Workers,
           \/ TakeClaim(d, w) \/ Probe(d, w) \/ TakeLock(d, w) \/ Build(d, w) \/ Install(d, w)
           \/ spawn_lock_checker(d, w) \/ Unclaim(d, w) \/ StartTimeout(d, w)
    PROVE  TypeOK'
<1>1. wk[d][w] \in Worker /\ wk[d][w].gen \in Nat /\ wk[d][w].mode \in {"acquire", "takeover"}
  BY DEF TypeOK, Worker
<1>2. wk' \in [Devices -> [Workers -> Worker]]
  <2>1. ASSUME NEW pc \in Stage, Move(d, w, pc) PROVE wk' \in [Devices -> [Workers -> Worker]]
    <3>1. [wk[d][w] EXCEPT !.pc = pc] \in Worker
      BY <1>1 DEF Worker
    <3> QED
      BY <2>1, <3>1 DEF Move, TypeOK
  <2>2. ASSUME wk' = [wk EXCEPT ![d][w] = NoWorker] PROVE wk' \in [Devices -> [Workers -> Worker]]
    BY <2>2 DEF TypeOK, NoWorker, Worker, Stage
  <2>3. ASSUME StartTimeout(d, w) PROVE wk' \in [Devices -> [Workers -> Worker]]
    <3>1. [wk[d][w] EXCEPT !.awaited = FALSE] \in Worker
      BY <1>1 DEF Worker
    <3> QED
      BY <2>3, <3>1 DEF StartTimeout, TypeOK
  <2> QED
    BY <2>1, <2>2, <2>3 DEF TakeClaim, Probe, TakeLock, Build, Install, spawn_lock_checker, Unclaim, Stage
<1>3. op' \in [Devices -> LockOp \cup {None}]
  <2>1. [kind |-> wk[d][w].mode, pc |-> "get", ver |-> 0, again |-> FALSE, who |-> w, gen |-> 0] \in LockOp
    BY <1>1 DEF LockOp
  <2> QED
    BY <2>1 DEF TakeClaim, Probe, TakeLock, Build, Install, spawn_lock_checker, Unclaim, StartTimeout, TypeOK
<1>4. gen' \in [Devices -> Nat] /\ calls' \in Nat /\ faults' \in Nat
  <2>1. CASE StartTimeout(d, w)
    BY <2>1 DEF StartTimeout, TypeOK, Call
  <2>2. CASE ~StartTimeout(d, w)
    <3>1. UNCHANGED <<gen, calls, faults>>
      BY <2>2 DEF TakeClaim, Probe, TakeLock, Build, Install, spawn_lock_checker, Unclaim
    <3> QED
      BY <3>1 DEF TypeOK
  <2> QED
    BY <2>1, <2>2
<1>5. /\ inner' \in [Devices -> Nat \cup {None}]
      /\ claim' \in [Devices -> {"none", "starting", "running", "stopping"}]
  BY <1>1 DEF TakeClaim, Probe, TakeLock, Build, Install, spawn_lock_checker, Unclaim, StartTimeout, TypeOK
<1>6. checker' \in [Devices -> Nat \cup {None}]
  BY DEF TakeClaim, Probe, TakeLock, Build, Install, spawn_lock_checker, Unclaim, StartTimeout, TypeOK
<1>7. UNCHANGED <<store, ousted, reset, slot, losing, ender>>
  BY DEF TakeClaim, Probe, TakeLock, Build, Install, spawn_lock_checker, Unclaim, StartTimeout, Untouched
<1> QED
  BY <1>2, <1>3, <1>4, <1>5, <1>6, <1>7 DEF TypeOK

\* So does a step of a lock operation.
LEMMA OpStepTypes ==
    ASSUME TypeOK, NEW d \in Devices, OpInv(d),
           LockGet(d) \/ LockPut(d) \/ ReleaseDelete(d) \/ refresh(d)
    PROVE  TypeOK' /\ Counted
<1>1. op[d] # None /\ op[d] \in LockOp /\ op[d].ver \in Nat /\ op[d].gen \in Nat
  BY DEF LockGet, LockPut, ReleaseDelete, refresh, TypeOK, LockOp
<1>2. store # None => store.ver \in Nat /\ store.dev \in Devices
  BY DEF TypeOK, Lock
<1>3. store' \in Lock \cup {None} /\ ousted' \subseteq Devices /\ reset' \in BOOLEAN
  <2>1. Untouched \/ Written(d, op[d].ver) \/ Deleted
    BY DEF LockGet, LockPut, ReleaseDelete, refresh, Put, PutUnanswered
  <2> QED
    BY <2>1, <1>1, StoreTypes
<1>4. faults' \in {faults, faults + 1}
  BY DEF LockGet, LockPut, ReleaseDelete, refresh, Put, PutUnanswered, Fault
<1>5. wk' \in [Devices -> [Workers -> Worker]] /\ ender' \in [Devices -> {None, "stop", "release", "lost", "unclaim"}]
  <2>1. ASSUME NEW w \in Workers, NEW pc \in Stage, NEW v \in Nat
        PROVE  [wk[d][w] EXCEPT !.pc = pc] \in Worker /\ [wk[d][w] EXCEPT !.pc = pc, !.held = v] \in Worker
    <3>1. wk[d][w] \in Worker
      BY DEF TypeOK
    <3> QED
      BY <3>1 DEF Worker
  <2>2. ASSUME NEW w \in Workers, NEW pc \in Stage, wk' = [wk EXCEPT ![d][w].pc = pc]
        PROVE  wk' \in [Devices -> [Workers -> Worker]]
    <3>1. [wk[d][w] EXCEPT !.pc = pc] \in Worker
      BY <2>1
    <3> QED
      BY <2>2, <3>1 DEF TypeOK
  <2>3. ASSUME NEW w \in Workers, NEW v \in Nat, wk' = [wk EXCEPT ![d][w].pc = "build", ![d][w].held = v]
        PROVE  wk' \in [Devices -> [Workers -> Worker]]
    <3>1. [wk[d][w] EXCEPT !.pc = "build", !.held = v] \in Worker
      BY <2>1 DEF Stage
    <3>2. wk' = [wk EXCEPT ![d] = [wk[d] EXCEPT ![w] = [wk[d][w] EXCEPT !.pc = "build", !.held = v]]]
      BY <2>3 DEF TypeOK
    <3>3. [wk[d] EXCEPT ![w] = [wk[d][w] EXCEPT !.pc = "build", !.held = v]] \in [Workers -> Worker]
      BY <3>1 DEF TypeOK
    <3> QED
      BY <3>2, <3>3 DEF TypeOK
  <2>4. ASSUME LockGet(d) \/ LockPut(d)
        PROVE  wk' \in [Devices -> [Workers -> Worker]] /\ ender' = ender
    <3>1. op[d].who \in Workers
      BY <2>4, <1>1 DEF OpInv, LockGet, LockPut
    <3>2. op[d].ver + 1 \in Nat
      BY <1>1
    <3>3. \/ wk' = wk
          \/ wk' = [wk EXCEPT ![d][op[d].who].pc = "unclaim"]
          \/ wk' = [wk EXCEPT ![d][op[d].who].pc = "build", ![d][op[d].who].held = op[d].ver + 1]
      BY <2>4 DEF LockGet, LockPut, LockFails
    <3>4. ender' = ender
      BY <2>4 DEF LockGet, LockPut
    <3>5. wk \in [Devices -> [Workers -> Worker]] /\ "unclaim" \in Stage
      BY DEF TypeOK, Stage
    <3> QED
      BY <3>1, <3>2, <3>3, <3>4, <3>5, <2>2, <2>3
  <2>5. ASSUME ReleaseDelete(d)
        PROVE  /\ wk' \in [Devices -> [Workers -> Worker]]
               /\ ender' \in [Devices -> {None, "stop", "release", "lost", "unclaim"}]
    <3>1. op[d].who = "stop" \/ (op[d].who \in Workers /\ op[d].who # "stop")
      BY <2>5, <1>1, DeviceLockConstants DEF OpInv, ReleaseDelete
    <3>2. CASE op[d].who = "stop"
      BY <2>5, <3>2 DEF ReleaseDelete, Released, TypeOK
    <3>3. CASE op[d].who \in Workers /\ op[d].who # "stop"
      BY <2>5, <3>3, <2>2 DEF ReleaseDelete, Released, TypeOK, Move, Stage
    <3> QED
      BY <3>1, <3>2, <3>3
  <2>6. refresh(d) => UNCHANGED <<wk, ender>>
    BY DEF refresh
  <2> QED
    BY <2>4, <2>5, <2>6 DEF TypeOK
<1>6. /\ slot' \in [Devices -> Nat \cup {None}]
      /\ losing' \in [Devices -> Nat \cup {None}]
  <2>1. CASE refresh(d)
    <3>1. /\ losing' = losing \/ losing' = [losing EXCEPT ![d] = op[d].gen]
          /\ \/ slot' = slot \/ slot' = [slot EXCEPT ![d] = None]
             \/ slot' = [slot EXCEPT ![d] = op[d].ver + 1]
             \/ store # None /\ slot' = [slot EXCEPT ![d] = store.ver]
      BY <2>1 DEF refresh, Lost, Own
    <3>2. slot \in [Devices -> Nat \cup {None}] /\ losing \in [Devices -> Nat \cup {None}]
      BY DEF TypeOK
    <3>3. losing' \in [Devices -> Nat \cup {None}]
      BY <3>1, <3>2, <1>1
    <3>4. slot' \in [Devices -> Nat \cup {None}]
      <4>1. op[d].ver + 1 \in Nat
        BY <1>1
      <4> QED
        BY <3>1, <3>2, <1>2, <4>1
    <3> QED
      BY <3>3, <3>4
  <2>2. CASE ~refresh(d)
    <3>1. losing' = losing /\ (slot' = slot \/ slot' = [slot EXCEPT ![d] = op[d].ver + 1])
      BY <2>2 DEF LockGet, LockPut, LockFails, ReleaseDelete
    <3> QED
      BY <3>1, <1>1 DEF TypeOK
  <2> QED
    BY <2>1, <2>2
<1>7. op' \in [Devices -> LockOp \cup {None}]
  <2>1. op \in [Devices -> LockOp \cup {None}]
    BY DEF TypeOK
  <2>2. ASSUME NEW x \in LockOp \cup {None} PROVE [op EXCEPT ![d] = x] \in [Devices -> LockOp \cup {None}]
    BY <2>1
  <2>3. ASSUME LockGet(d) PROVE op' \in [Devices -> LockOp \cup {None}]
    <3>1. [op[d] EXCEPT !.pc = "put", !.ver = IF store = None THEN 0 ELSE store.ver] \in LockOp
      BY <1>1, <1>2 DEF LockOp
    <3> QED
      BY <2>1, <2>3, <3>1 DEF LockGet, LockFails
  <2>4. ASSUME LockPut(d) PROVE op' \in [Devices -> LockOp \cup {None}]
    <3>1. [op[d] EXCEPT !.pc = "get", !.again = TRUE] \in LockOp
      BY <1>1 DEF LockOp
    <3> QED
      BY <2>1, <2>4, <3>1 DEF LockPut, LockFails
  <2>5. ASSUME refresh(d) PROVE op' \in [Devices -> LockOp \cup {None}]
    <3>1. [op[d] EXCEPT !.pc = "get"] \in LockOp
      BY <1>1 DEF LockOp
    <3>2. store # None => [op[d] EXCEPT !.pc = "put", !.ver = store.ver, !.again = TRUE] \in LockOp
      BY <1>1, <1>2 DEF LockOp
    <3> QED
      BY <2>1, <2>5, <3>1, <3>2 DEF refresh, Lost, Own
  <2>6. ASSUME ReleaseDelete(d) PROVE op' \in [Devices -> LockOp \cup {None}]
    BY <2>1, <2>6 DEF ReleaseDelete
  <2> QED
    BY <2>3, <2>4, <2>5, <2>6
<1>8. UNCHANGED <<gen, inner, claim, checker, calls>>
  BY DEF LockGet, LockPut, ReleaseDelete, refresh
<1> QED
  BY <1>3, <1>4, <1>5, <1>6, <1>7, <1>8 DEF TypeOK, Counted

\* So does a step of the phone that is not one of its lock operation under way.
LEMMA PhoneStepTypes ==
    ASSUME TypeOK, NEW d \in Devices,
           \/ \E mode \in {"acquire", "takeover"} : start_impl(d, mode)
           \/ release_lock(d) \/ stop(d) \/ EndRun(d) \/ refresh_lock(d) \/ lose_lock(d) \/ Die(d)
    PROVE  TypeOK' /\ Counted
<1>1. Untouched /\ faults' \in {faults, faults + 1}
  BY DEF start_impl, release_lock, stop, EndRun, refresh_lock, lose_lock, Die, Fault
<1>2. CASE \E mode \in {"acquire", "takeover"} : start_impl(d, mode)
  <2>1. PICK mode \in {"acquire", "takeover"} : start_impl(d, mode)
    BY <1>2
  <2>2. PICK w \in Workers :
           wk' = [wk EXCEPT ![d][w] = [pc |-> "claim", gen |-> gen[d], mode |-> mode, held |-> 0,
                                          awaited |-> TRUE]]
    BY <2>1 DEF start_impl
  <2>3. [pc |-> "claim", gen |-> gen[d], mode |-> mode, held |-> 0, awaited |-> TRUE] \in Worker
    BY DEF TypeOK, Worker, Stage
  <2>4. calls' \in Nat /\ UNCHANGED <<gen, inner, slot, claim, ender, checker, losing, op, faults>>
    BY <2>1 DEF start_impl, Call, TypeOK
  <2>5. wk' \in [Devices -> [Workers -> Worker]]
    BY <2>2, <2>3 DEF TypeOK
  <2> QED
    BY <1>1, <2>4, <2>5 DEF TypeOK, Untouched, Counted
<1>3. CASE release_lock(d)
  <2>1. PICK who \in {"stop"} \cup Workers :
           IF slot[d] = None \/ who \notin GivesBack(d)
           THEN Released(d, who) /\ UNCHANGED <<op, slot>>
           ELSE /\ op' = [op EXCEPT ![d] = [kind |-> "release", pc |-> "delete", ver |-> slot[d],
                                            again |-> FALSE, who |-> who, gen |-> 0]]
                /\ slot' = [slot EXCEPT ![d] = None]
                /\ UNCHANGED <<wk, ender>>
    BY <1>3 DEF release_lock
  <2>2. UNCHANGED <<gen, inner, claim, checker, losing, calls, faults>>
    BY <1>3 DEF release_lock
  <2>3. /\ wk' \in [Devices -> [Workers -> Worker]]
        /\ ender' \in [Devices -> {None, "stop", "release", "lost", "unclaim"}]
    <3>1. CASE UNCHANGED <<wk, ender>>
      BY <3>1 DEF TypeOK
    <3>2. CASE Released(d, who) /\ who = "stop"
      BY <3>2 DEF Released, TypeOK
    <3>3. CASE Released(d, who) /\ who # "stop"
      <4>1. who \in Workers /\ wk[d][who] \in Worker
        BY <3>3 DEF TypeOK
      <4>2. [wk[d][who] EXCEPT !.pc = "unclaim"] \in Worker
        BY <4>1 DEF Worker, Stage
      <4> QED
        <5>1. ender' = ender /\ wk' = [wk EXCEPT ![d][who].pc = "unclaim"]
          BY <3>3 DEF Released, Move
        <5>2. wk \in [Devices -> [Workers -> Worker]]
              /\ ender \in [Devices -> {None, "stop", "release", "lost", "unclaim"}]
          BY DEF TypeOK
        <5> QED
          BY <5>1, <5>2, <4>1, <4>2
    <3> QED
      BY <2>1, <3>1, <3>2, <3>3
  <2>4. op' \in [Devices -> LockOp \cup {None}] /\ slot' \in [Devices -> Nat \cup {None}]
    <3>1. slot[d] # None =>
            [kind |-> "release", pc |-> "delete", ver |-> slot[d], again |-> FALSE, who |-> who,
             gen |-> 0] \in LockOp
      BY DEF TypeOK, LockOp
    <3> QED
      BY <2>1, <3>1 DEF TypeOK
  <2> QED
    BY <1>1, <2>2, <2>3, <2>4 DEF TypeOK, Untouched, Counted
<1>4. CASE stop(d)
  <2>1. /\ gen' \in [Devices -> Nat] /\ calls' \in Nat
        /\ inner' \in [Devices -> Nat \cup {None}] /\ checker' \in [Devices -> Nat \cup {None}]
    BY <1>4 DEF stop, Call, TypeOK
  <2>2. /\ claim' \in [Devices -> {"none", "starting", "running", "stopping"}]
        /\ ender' \in [Devices -> {None, "stop", "release", "lost", "unclaim"}]
    BY <1>4 DEF stop, TypeOK
  <2>3. UNCHANGED <<slot, wk, losing, op, faults>>
    BY <1>4 DEF stop
  <2> QED
    BY <1>1, <2>1, <2>2, <2>3 DEF TypeOK, Untouched, Counted
<1>5. CASE EndRun(d)
  <2>1. /\ claim' \in [Devices -> {"none", "starting", "running", "stopping"}]
        /\ ender' \in [Devices -> {None, "stop", "release", "lost", "unclaim"}]
    BY <1>5 DEF EndRun, TypeOK
  <2>2. UNCHANGED <<gen, inner, slot, wk, checker, losing, op, calls, faults>>
    BY <1>5 DEF EndRun
  <2> QED
    BY <1>1, <2>1, <2>2 DEF TypeOK, Untouched, Counted
<1>6. CASE refresh_lock(d)
  <2>1. PICK g \in {checker[d], inner[d]} \ {None} :
           /\ slot[d] # None
           /\ op' = [op EXCEPT ![d] = [kind |-> "refresh", pc |-> "put", ver |-> slot[d],
                                       again |-> FALSE, who |-> "check", gen |-> g]]
    BY <1>6 DEF refresh_lock
  <2>2. [kind |-> "refresh", pc |-> "put", ver |-> slot[d], again |-> FALSE, who |-> "check",
         gen |-> g] \in LockOp
    BY <2>1 DEF TypeOK, LockOp
  <2>3. op' \in [Devices -> LockOp \cup {None}]
    BY <2>1, <2>2 DEF TypeOK
  <2>4. UNCHANGED <<gen, inner, slot, claim, wk, ender, checker, losing, calls, faults>>
    BY <1>6 DEF refresh_lock
  <2> QED
    BY <1>1, <2>3, <2>4 DEF TypeOK, Untouched, Counted
<1>7. CASE lose_lock(d)
  <2>1. /\ gen' \in [Devices -> Nat] /\ inner' \in [Devices -> Nat \cup {None}]
        /\ checker' \in [Devices -> Nat \cup {None}] /\ losing' \in [Devices -> Nat \cup {None}]
    <3>1. /\ gen' = gen \/ gen' = [gen EXCEPT ![d] = gen[d] + 1]
          /\ inner' = inner \/ inner' = [inner EXCEPT ![d] = None]
          /\ checker' = checker \/ checker' = [checker EXCEPT ![d] = None]
          /\ losing' = [losing EXCEPT ![d] = None]
      BY <1>7 DEF lose_lock
    <3>2. gen' \in [Devices -> Nat]
      BY <3>1 DEF TypeOK
    <3>3. inner' \in [Devices -> Nat \cup {None}] /\ checker' \in [Devices -> Nat \cup {None}]
      BY <3>1 DEF TypeOK
    <3> QED
      BY <3>1, <3>2, <3>3 DEF TypeOK
  <2>2. /\ claim' \in [Devices -> {"none", "starting", "running", "stopping"}]
        /\ ender' \in [Devices -> {None, "stop", "release", "lost", "unclaim"}]
    BY <1>7 DEF lose_lock, TypeOK
  <2>3. UNCHANGED <<slot, wk, op, calls, faults>>
    BY <1>7 DEF lose_lock
  <2> QED
    BY <1>1, <2>1, <2>2, <2>3 DEF TypeOK, Untouched, Counted
<1>8. CASE Die(d)
  <2>1. /\ gen' \in [Devices -> Nat] /\ faults' \in Nat /\ calls' = calls
        /\ inner' \in [Devices -> Nat \cup {None}] /\ slot' \in [Devices -> Nat \cup {None}]
        /\ checker' \in [Devices -> Nat \cup {None}] /\ losing' \in [Devices -> Nat \cup {None}]
    BY <1>8 DEF Die, TypeOK, Fault
  <2>2. /\ claim' \in [Devices -> {"none", "starting", "running", "stopping"}]
        /\ ender' \in [Devices -> {None, "stop", "release", "lost", "unclaim"}]
        /\ op' \in [Devices -> LockOp \cup {None}]
    BY <1>8 DEF Die, TypeOK
  <2>3. wk' \in [Devices -> [Workers -> Worker]]
    <3>1. [w \in Workers |-> NoWorker] \in [Workers -> Worker]
      BY DEF NoWorker, Worker, Stage
    <3> QED
      BY <1>8, <3>1 DEF Die, TypeOK
  <2> QED
    BY <1>1, <2>1, <2>2, <2>3 DEF TypeOK, Untouched, Counted
<1> QED
  BY <1>2, <1>3, <1>4, <1>5, <1>6, <1>7, <1>8

-----------------------------------------------------------------------------
(* Start workers                                                           *)

\* A worker that moves on leaves the other workers alone, and keeps what it holds.
LEMMA Moved ==
    ASSUME TypeOK, NEW d \in Devices, NEW w \in Workers, NEW pc, Move(d, w, pc)
    PROVE  /\ wk'[d][w].pc = pc /\ wk'[d][w].gen = wk[d][w].gen /\ wk'[d][w].held = wk[d][w].held
           /\ \A v \in Workers : v # w => wk'[d][v] = wk[d][v]
           /\ \A e \in Devices : e # d => wk'[e] = wk[e]
<1>1. wk \in [Devices -> [Workers -> Worker]] /\ wk[d][w] \in Worker
  BY DEF TypeOK
<1>2. wk'[d] = [wk[d] EXCEPT ![w].pc = pc]
  BY <1>1 DEF Move
<1>3. wk'[d][w] = [wk[d][w] EXCEPT !.pc = pc]
  BY <1>1, <1>2
<1> QED
  BY <1>1, <1>2, <1>3 DEF Move, Worker

\* A worker that ends leaves the other workers alone.
LEMMA Gone ==
    ASSUME TypeOK, NEW d \in Devices, NEW w \in Workers, wk' = [wk EXCEPT ![d][w] = NoWorker]
    PROVE  /\ wk'[d][w].pc = "none"
           /\ \A v \in Workers : v # w => wk'[d][v] = wk[d][v]
           /\ \A e \in Devices : e # d => wk'[e] = wk[e]
<1>1. wk'[d][w] = NoWorker
  BY DEF TypeOK
<1> QED
  BY <1>1 DEF TypeOK, NoWorker

\* A step of a worker leaves the record in VSS and the other phones alone.
LEMMA WorkerStepSame ==
    ASSUME TypeOK, NEW d \in Devices, NEW w \in Workers,
           \/ TakeClaim(d, w) \/ Probe(d, w) \/ TakeLock(d, w) \/ Build(d, w) \/ Install(d, w)
           \/ spawn_lock_checker(d, w) \/ Unclaim(d, w) \/ StartTimeout(d, w)
    PROVE  Untouched /\ Counted /\ \A e \in Devices : e # d => Same(e)
<1>1. Untouched /\ faults' = faults
  BY DEF TakeClaim, Probe, TakeLock, Build, Install, spawn_lock_checker, Unclaim, StartTimeout
<1>2. ASSUME NEW e \in Devices, e # d PROVE wk'[e] = wk[e]
  <2>1. StartTimeout(d, w) => wk'[e] = wk[e]
    BY <1>2 DEF StartTimeout, TypeOK
  <2>2. wk' = [wk EXCEPT ![d][w] = NoWorker] => wk'[e] = wk[e]
    BY <1>2, Gone
  <2>3. ASSUME NEW pc, Move(d, w, pc) PROVE wk'[e] = wk[e]
    BY <1>2, <2>3, Moved
  <2> QED
    BY <2>1, <2>2, <2>3 DEF TakeClaim, Probe, TakeLock, Build, Install, spawn_lock_checker, Unclaim
<1>3. ASSUME NEW e \in Devices, e # d
      PROVE  /\ gen'[e] = gen[e] /\ inner'[e] = inner[e] /\ slot'[e] = slot[e] /\ claim'[e] = claim[e]
             /\ ender'[e] = ender[e] /\ checker'[e] = checker[e] /\ losing'[e] = losing[e]
             /\ op'[e] = op[e]
  BY <1>3 DEF TakeClaim, Probe, TakeLock, Build, Install, spawn_lock_checker, Unclaim, StartTimeout, TypeOK
<1> QED
  BY <1>1, <1>2, <1>3 DEF Same, Counted

\* A worker that takes the claim or moves on keeps its phone sound.
LEMMA ClaimSound ==
    ASSUME TypeOK, NEW d \in Devices, Sound(d), NEW w \in Workers,
           TakeClaim(d, w) \/ Probe(d, w)
    PROVE  Sound(d)'
<1>1. /\ UNCHANGED <<store, ousted, reset, gen, inner, slot, ender, checker, losing, op, faults>>
      /\ claim'[d] = claim[d] \/ (claim[d] = "none" /\ claim'[d] = "starting" /\ At(d, w, "claim"))
  BY DEF TakeClaim, Probe, Untouched, ClaimFree, TypeOK
<1>2. /\ \A v \in Workers : v # w => wk'[d][v] = wk[d][v]
      /\ wk[d][w].pc \in {"claim", "probe"}
      /\ \/ wk[d][w].pc = "claim" /\ wk'[d][w].pc = "probe" /\ claim[d] = "none" /\ claim'[d] = "starting"
         \/ wk[d][w].pc = "claim" /\ wk'[d][w].pc = "none" /\ claim'[d] = claim[d]
         \/ wk[d][w].pc = "probe" /\ wk'[d][w].pc \in {"lock", "unclaim"} /\ claim'[d] = claim[d]
  <2>1. CASE TakeClaim(d, w) /\ Move(d, w, "probe")
    BY <2>1, Moved DEF TakeClaim, At, ClaimFree, TypeOK, NoWorker
  <2>2. CASE TakeClaim(d, w) /\ wk' = [wk EXCEPT ![d][w] = NoWorker] /\ claim' = claim
    BY <2>2, Gone DEF TakeClaim, At
  <2>3. CASE Probe(d, w)
    BY <2>3, Moved DEF Probe, At
  <2> QED
    BY <2>1, <2>2, <2>3 DEF TakeClaim
<1>3. ClaimInv(d)'
  BY <1>1, <1>2 DEF Sound, PhoneInv, ClaimInv, Claiming
<1>4. OpInv(d)' /\ GenInv(d)'
  BY <1>1, <1>2 DEF Sound, PhoneInv, OpInv, GenInv
<1>5. SlotInv(d)'
  BY <1>1, <1>2 DEF Sound, PhoneInv, SlotInv, Locked
<1>6. KnowsInv(d)' /\ AnsweredInv(d)'
  BY <1>1 DEF Sound, KnowsInv, AnsweredInv, Knows, Own
<1>7. UsingInv(d)'
  BY <1>1, <1>2 DEF Sound, UsingInv, Using, WithNode, Own
<1> QED
  BY <1>3, <1>4, <1>5, <1>6, <1>7 DEF Sound, PhoneInv

\* So does a worker that waits for the lock, builds its node, or gives it up.
LEMMA BuildSound ==
    ASSUME TypeOK, NEW d \in Devices, Sound(d), NEW w \in Workers, Build(d, w)
    PROVE  Sound(d)'
<1>1. UNCHANGED <<store, ousted, reset, gen, inner, slot, claim, ender, checker, losing, op, faults>>
  BY DEF Build, Untouched
<1>2. /\ \A v \in Workers : v # w => wk'[d][v] = wk[d][v]
      /\ wk'[d][w].held = wk[d][w].held
      /\ wk[d][w].pc \in {"build", "start", "connect", "drop"}
      /\ wk'[d][w].pc \in {"start", "connect", "install", "drop", "unlock"}
  <2>1. PICK pc \in {"start", "connect", "install", "drop", "unlock"} : Move(d, w, pc)
    BY DEF Build
  <2>2. wk[d][w].pc \in {"build", "start", "connect", "drop"}
    BY DEF Build, At
  <2> QED
    BY <2>1, <2>2, Moved
<1>3. ClaimInv(d)'
  BY <1>1, <1>2 DEF Sound, PhoneInv, ClaimInv, Claiming
<1>4. OpInv(d)' /\ GenInv(d)'
  BY <1>1, <1>2 DEF Sound, PhoneInv, OpInv, GenInv
<1>5. SlotInv(d)'
  BY <1>1, <1>2 DEF Sound, PhoneInv, SlotInv, Locked
<1>6. KnowsInv(d)' /\ AnsweredInv(d)'
  BY <1>1 DEF Sound, KnowsInv, AnsweredInv, Knows, Own
<1>7. UsingInv(d)'
  BY <1>1, <1>2 DEF Sound, UsingInv, Using, WithNode, Own
<1> QED
  BY <1>3, <1>4, <1>5, <1>6, <1>7 DEF Sound, PhoneInv

\* So does a worker that begins its lock operation: it knows no version yet.
LEMMA TakeLockSound ==
    ASSUME TypeOK, NEW d \in Devices, Sound(d), NEW w \in Workers, TakeLock(d, w)
    PROVE  Sound(d)'
<1>1. /\ UNCHANGED <<store, ousted, reset, gen, inner, slot, claim, ender, checker, losing, faults>>
      /\ op[d] = None /\ wk[d][w].pc = "lock"
  BY DEF TakeLock, Untouched, At
<1>2. /\ \A v \in Workers : v # w => wk'[d][v] = wk[d][v]
      /\ wk'[d][w].pc = "locking"
  BY Moved DEF TakeLock
<1>3. /\ op'[d].kind \in {"acquire", "takeover"} /\ op'[d].pc = "get" /\ op'[d].who = w
  <2>1. op'[d] = [kind |-> wk[d][w].mode, pc |-> "get", ver |-> 0, again |-> FALSE, who |-> w, gen |-> 0]
    BY DEF TakeLock, TypeOK
  <2>2. wk[d][w].mode \in {"acquire", "takeover"}
    BY DEF TypeOK, Worker
  <2> QED
    BY <2>1, <2>2
<1>4. ClaimInv(d)'
  BY <1>1, <1>2 DEF Sound, PhoneInv, ClaimInv, Claiming
<1>5. slot[d] = None
  BY <1>1, DeviceLockConstants DEF Sound, PhoneInv, SlotInv, ClaimInv, Claiming, Locked
<1>6. OpInv(d)'
  BY <1>1, <1>2, <1>3 DEF OpInv
<1>7. GenInv(d)'
  BY <1>1 DEF Sound, PhoneInv, GenInv, ClaimInv, Claiming
<1>8. SlotInv(d)'
  BY <1>1, <1>5 DEF SlotInv
<1>9. KnowsInv(d)'
  BY <1>1, <1>3, <1>5, DeviceLockConstants DEF Sound, KnowsInv, Knows, Own
<1>10. AnsweredInv(d)'
  BY <1>1 DEF Sound, AnsweredInv, Own
<1>11. UsingInv(d)'
  BY <1>1, <1>2 DEF Sound, UsingInv, Using, WithNode, Own
<1> QED
  BY <1>4, <1>6, <1>7, <1>8, <1>9, <1>10, <1>11 DEF Sound, PhoneInv

\* So does a worker that installs its node, and one that finds its run over.
LEMMA InstallSound ==
    ASSUME TypeOK, NEW d \in Devices, Sound(d), NEW w \in Workers, Install(d, w)
    PROVE  Sound(d)'
<1>1. /\ UNCHANGED <<store, ousted, reset, gen, slot, ender, checker, losing, op, faults>>
      /\ wk[d][w].pc = "install" /\ wk[d][w].gen \in Nat
  BY DEF Install, Untouched, At, TypeOK, Worker
<1>2. inner[d] = None /\ ender[d] = None /\ claim[d] = "starting"
      /\ \A v \in Workers : v # w => wk[d][v].pc \notin Claiming
  BY <1>1 DEF Sound, PhoneInv, ClaimInv, Claiming
<1>3. checker[d] = None /\ (op[d] # None => op[d].kind # "refresh")
  BY <1>2, DeviceLockConstants DEF Sound, PhoneInv, GenInv, OpInv
<1>4. op[d] = None
  <2>1. op[d] # None => op[d].kind \in {"acquire", "takeover", "release", "refresh"}
    BY DEF TypeOK, LockOp
  <2> QED
    BY <1>1, <1>2, <1>3, <2>1, DeviceLockConstants DEF Sound, PhoneInv, OpInv, Claiming
<1>5. losing[d] # gen[d]
  BY <1>2, DeviceLockConstants DEF Sound, PhoneInv, GenInv, TypeOK
<1>6. CASE MayInstall(d, w)
  <2>1. /\ \A v \in Workers : v # w => wk'[d][v] = wk[d][v]
        /\ wk'[d][w].pc = "spawn"
        /\ inner'[d] = gen[d] /\ claim'[d] = "running" /\ gen[d] \in Nat
    BY <1>1, <1>6, Moved DEF Install, MayInstall, TypeOK
  <2>2. ClaimInv(d)'
    BY <1>1, <1>2, <2>1 DEF ClaimInv, Claiming
  <2>3. OpInv(d)' /\ GenInv(d)' /\ SlotInv(d)'
    BY <1>1, <1>3, <1>4, <1>5, <2>1, DeviceLockConstants DEF Sound, PhoneInv, OpInv, GenInv, SlotInv
  <2>4. KnowsInv(d)' /\ AnsweredInv(d)'
    BY <1>1 DEF Sound, KnowsInv, AnsweredInv, Knows, Own
  <2>5. UsingInv(d)'
    BY <1>1 DEF Sound, UsingInv, Using, WithNode, Own
  <2> QED
    BY <2>2, <2>3, <2>4, <2>5 DEF Sound, PhoneInv
<1>7. CASE ~MayInstall(d, w)
  <2>1. /\ \A v \in Workers : v # w => wk'[d][v] = wk[d][v]
        /\ wk'[d][w].pc = "drop" /\ wk'[d][w].held = wk[d][w].held
        /\ inner' = inner /\ claim' = claim
    BY <1>7, Moved DEF Install
  <2>2. ClaimInv(d)'
    BY <1>1, <2>1 DEF Sound, PhoneInv, ClaimInv, Claiming
  <2>3. OpInv(d)' /\ GenInv(d)'
    BY <1>1, <1>4, <2>1 DEF Sound, PhoneInv, OpInv, GenInv
  <2>4. SlotInv(d)'
    BY <1>1, <2>1 DEF Sound, PhoneInv, SlotInv, Locked
  <2>5. KnowsInv(d)' /\ AnsweredInv(d)'
    BY <1>1 DEF Sound, KnowsInv, AnsweredInv, Knows, Own
  <2>6. UsingInv(d)'
    BY <1>1, <2>1 DEF Sound, UsingInv, Using, WithNode, Own
  <2> QED
    BY <2>2, <2>3, <2>4, <2>5, <2>6 DEF Sound, PhoneInv
<1> QED
  BY <1>6, <1>7

\* So does a worker that ends, its node installed or its claim given up.
LEMMA WorkerEndSound ==
    ASSUME TypeOK, NEW d \in Devices, Sound(d), NEW w \in Workers,
           spawn_lock_checker(d, w) \/ Unclaim(d, w)
    PROVE  Sound(d)'
<1>1. /\ UNCHANGED <<store, ousted, reset, gen, inner, slot, ender, losing, op, faults>>
      /\ wk[d][w].pc \in {"spawn", "unclaim"}
      /\ wk[d][w].pc = "spawn" => claim' = claim
      /\ claim'[d] = claim[d] \/ claim'[d] = "none"
      /\ checker'[d] = checker[d] \/ (inner[d] # None /\ checker'[d] = gen[d])
  BY DEF spawn_lock_checker, Unclaim, Untouched, At, TypeOK
<1>2. /\ \A v \in Workers : v # w => wk'[d][v] = wk[d][v]
      /\ wk'[d][w].pc = "none"
  BY Gone DEF spawn_lock_checker, Unclaim
<1>3. ClaimInv(d)'
  BY <1>1, <1>2 DEF Sound, PhoneInv, ClaimInv, Claiming
<1>4. OpInv(d)'
  BY <1>1, <1>2 DEF Sound, PhoneInv, OpInv
<1>5. GenInv(d)'
  BY <1>1 DEF Sound, PhoneInv, GenInv
<1>6. SlotInv(d)'
  BY <1>1, <1>2 DEF Sound, PhoneInv, SlotInv, Locked
<1>7. KnowsInv(d)' /\ AnsweredInv(d)'
  BY <1>1 DEF Sound, KnowsInv, AnsweredInv, Knows, Own
<1>8. UsingInv(d)'
  BY <1>1, <1>2 DEF Sound, UsingInv, Using, WithNode, Own
<1> QED
  BY <1>3, <1>4, <1>5, <1>6, <1>7, <1>8 DEF Sound, PhoneInv

\* So does a start that is asked for, and a caller that waits no longer for one: with nothing
\* installed, every generation still named somewhere is an older one then.
LEMMA CallerSound ==
    ASSUME TypeOK, NEW d \in Devices, Sound(d),
           \/ \E mode \in {"acquire", "takeover"} : start_impl(d, mode)
           \/ \E w \in Workers : StartTimeout(d, w)
    PROVE  Sound(d)'
<1>1. /\ UNCHANGED <<store, ousted, reset, inner, slot, claim, ender, checker, losing, op, faults>>
      /\ inner[d] = None /\ gen[d] \in Nat /\ gen'[d] \in {gen[d], gen[d] + 1}
  BY DEF start_impl, StartTimeout, Untouched, TypeOK
<1>2. \A v \in Workers : /\ \/ wk'[d][v].pc = wk[d][v].pc
                            \/ wk[d][v].pc = "none" /\ wk'[d][v].pc = "claim"
                         /\ wk[d][v].pc # "none" => wk'[d][v].held = wk[d][v].held
  <2>1. CASE \E mode \in {"acquire", "takeover"} : start_impl(d, mode)
    <3>1. PICK mode \in {"acquire", "takeover"} : start_impl(d, mode)
      BY <2>1
    <3>2. PICK w \in Workers :
            /\ At(d, w, "none")
            /\ wk' = [wk EXCEPT ![d][w] = [pc |-> "claim", gen |-> gen[d], mode |-> mode, held |-> 0,
                                           awaited |-> TRUE]]
      BY <3>1 DEF start_impl
    <3>3. \A v \in Workers : v # w => wk'[d][v] = wk[d][v]
      BY <3>2 DEF TypeOK
    <3>4. wk'[d][w].pc = "claim" /\ wk[d][w].pc = "none"
      BY <3>2 DEF TypeOK, At
    <3> QED
      BY <3>3, <3>4
  <2>2. CASE \E w \in Workers : StartTimeout(d, w)
    <3>1. PICK w \in Workers : wk' = [wk EXCEPT ![d][w].awaited = FALSE]
      BY <2>2 DEF StartTimeout
    <3>2. \A v \in Workers : v # w => wk'[d][v] = wk[d][v]
      BY <3>1 DEF TypeOK
    <3>3. wk'[d][w] = [wk[d][w] EXCEPT !.awaited = FALSE] /\ wk[d][w] \in Worker
      BY <3>1 DEF TypeOK
    <3>4. wk'[d][w].pc = wk[d][w].pc /\ wk'[d][w].held = wk[d][w].held
      BY <3>3 DEF Worker
    <3> QED
      BY <3>2, <3>4
  <2> QED
    BY <2>1, <2>2
<1>3. ClaimInv(d)'
  BY <1>1, <1>2 DEF Sound, PhoneInv, ClaimInv, Claiming
<1>4. OpInv(d)'
  <2>1. op[d] # None => op[d].gen \in Nat
    BY DEF TypeOK, LockOp
  <2> QED
    BY <1>1, <1>2, <2>1 DEF Sound, PhoneInv, OpInv
<1>5. GenInv(d)'
  <2>1. losing[d] # None => losing[d] \in Nat
    BY DEF TypeOK
  <2> QED
    BY <1>1, <2>1 DEF Sound, PhoneInv, GenInv
<1>6. SlotInv(d)'
  BY <1>1, <1>2 DEF Sound, PhoneInv, SlotInv, Locked
<1>7. KnowsInv(d)' /\ AnsweredInv(d)'
  BY <1>1 DEF Sound, KnowsInv, AnsweredInv, Knows, Own
<1>8. UsingInv(d)'
  BY <1>1, <1>2 DEF Sound, UsingInv, Using, WithNode, Own
<1> QED
  BY <1>3, <1>4, <1>5, <1>6, <1>7, <1>8 DEF Sound, PhoneInv

-----------------------------------------------------------------------------
(* Stopping, and what a lock operation is begun for                        *)

\* A step of a phone, begun by nobody else, leaves the other phones alone.
LEMMA PhoneStepSame ==
    ASSUME TypeOK, NEW d \in Devices, NEW e \in Devices, e # d,
           \/ \E mode \in {"acquire", "takeover"} : start_impl(d, mode)
           \/ release_lock(d) \/ stop(d) \/ EndRun(d) \/ refresh_lock(d) \/ lose_lock(d) \/ Die(d)
    PROVE  Untouched /\ Same(e)
<1>1. Untouched
  BY DEF start_impl, release_lock, stop, EndRun, refresh_lock, lose_lock, Die
<1>2. wk'[e] = wk[e]
  BY DEF start_impl, release_lock, Released, Move, stop, EndRun, refresh_lock, lose_lock, Die, TypeOK
<1>3. ender'[e] = ender[e] /\ slot'[e] = slot[e] /\ op'[e] = op[e]
  BY DEF start_impl, release_lock, Released, stop, EndRun, refresh_lock, lose_lock, Die, TypeOK
<1>4. /\ gen'[e] = gen[e] /\ inner'[e] = inner[e] /\ claim'[e] = claim[e]
      /\ checker'[e] = checker[e] /\ losing'[e] = losing[e]
  BY DEF start_impl, release_lock, stop, EndRun, refresh_lock, lose_lock, Die, TypeOK
<1> QED
  BY <1>1, <1>2, <1>3, <1>4 DEF Same

\* A stop takes the node out and leaves what it has to do; a start under way stays.
LEMMA StopSound ==
    ASSUME TypeOK, NEW d \in Devices, Sound(d), stop(d)
    PROVE  Sound(d)'
<1>1. /\ UNCHANGED <<store, ousted, reset, slot, wk, losing, op, faults>>
      /\ gen[d] \in Nat /\ gen'[d] = gen[d] + 1 /\ inner'[d] = None /\ checker'[d] = None
      /\ IF inner[d] # None THEN ender'[d] = "stop" /\ claim'[d] = "stopping"
                            ELSE ender'[d] = ender[d] /\ claim'[d] = claim[d]
  BY DEF stop, Untouched, TypeOK
<1>2. ClaimInv(d)'
  BY <1>1 DEF Sound, PhoneInv, ClaimInv
<1>3. OpInv(d)'
  <2>1. op[d] # None => op[d].gen \in Nat
    BY DEF TypeOK, LockOp
  <2>2. op[d] # None /\ op[d].kind = "release" => inner[d] = None
    BY DeviceLockConstants DEF Sound, PhoneInv, OpInv, ClaimInv, Claiming
  <2> QED
    BY <1>1, <2>1, <2>2 DEF Sound, PhoneInv, OpInv
<1>4. GenInv(d)'
  <2>1. losing[d] # None => losing[d] \in Nat
    BY DEF TypeOK
  <2> QED
    BY <1>1, <2>1 DEF Sound, PhoneInv, GenInv
<1>5. SlotInv(d)'
  BY <1>1 DEF Sound, PhoneInv, SlotInv
<1>6. KnowsInv(d)' /\ AnsweredInv(d)'
  BY <1>1 DEF Sound, KnowsInv, AnsweredInv, Knows, Own
<1>7. UsingInv(d)'
  BY <1>1 DEF Sound, UsingInv, Using, WithNode, Own
<1> QED
  BY <1>2, <1>3, <1>4, <1>5, <1>6, <1>7 DEF Sound, PhoneInv

\* The end of a run: the node is stopped, and the claim dropped last.
LEMMA EndRunSound ==
    ASSUME TypeOK, NEW d \in Devices, Sound(d), EndRun(d)
    PROVE  Sound(d)'
<1>1. /\ UNCHANGED <<store, ousted, reset, gen, inner, slot, wk, checker, losing, op, faults>>
      /\ \/ ender[d] = "stop" /\ ender'[d] = "release" /\ claim'[d] = claim[d]
         \/ ender[d] = "lost" /\ ender'[d] = "unclaim" /\ claim'[d] = claim[d]
         \/ ender[d] = "unclaim" /\ ender'[d] = None /\ claim'[d] = "none"
  BY DEF EndRun, Untouched, TypeOK
<1>2. ender[d] # None
  BY <1>1, DeviceLockConstants
<1>3. ClaimInv(d)'
  BY <1>1, <1>2 DEF Sound, PhoneInv, ClaimInv
<1>4. OpInv(d)'
  BY <1>1, <1>2 DEF Sound, PhoneInv, OpInv, ClaimInv
<1>5. GenInv(d)'
  BY <1>1 DEF Sound, PhoneInv, GenInv
<1>6. SlotInv(d)'
  BY <1>1, <1>2 DEF Sound, PhoneInv, SlotInv
<1>7. KnowsInv(d)' /\ AnsweredInv(d)'
  BY <1>1 DEF Sound, KnowsInv, AnsweredInv, Knows, Own
<1>8. UsingInv(d)'
  BY <1>1, DeviceLockConstants DEF Sound, UsingInv, Using, WithNode, Own
<1> QED
  BY <1>3, <1>4, <1>5, <1>6, <1>7, <1>8 DEF Sound, PhoneInv

\* A check of the lock is begun for the run installed, at the version held.
LEMMA RefreshLockSound ==
    ASSUME TypeOK, NEW d \in Devices, Sound(d), refresh_lock(d)
    PROVE  Sound(d)'
<1>1. /\ UNCHANGED <<store, ousted, reset, gen, inner, slot, claim, wk, ender, checker, losing, faults>>
      /\ op[d] = None /\ slot[d] # None
  BY DEF refresh_lock, Untouched
<1>2. /\ op'[d].kind = "refresh" /\ op'[d].ver = slot[d] /\ op'[d].gen = gen[d]
      /\ inner[d] # None
  <2>1. PICK g \in {checker[d], inner[d]} \ {None} :
           /\ gen[d] = g
           /\ op' = [op EXCEPT ![d] = [kind |-> "refresh", pc |-> "put", ver |-> slot[d],
                                       again |-> FALSE, who |-> "check", gen |-> g]]
    BY DEF refresh_lock
  <2>2. inner[d] # None
    BY <2>1 DEF Sound, PhoneInv, GenInv
  <2> QED
    BY <2>1, <2>2 DEF TypeOK
<1>3. ClaimInv(d)' /\ SlotInv(d)'
  BY <1>1 DEF Sound, PhoneInv, ClaimInv, SlotInv
<1>4. OpInv(d)'
  BY <1>1, <1>2 DEF OpInv, TypeOK
<1>5. GenInv(d)'
  BY <1>1 DEF Sound, PhoneInv, GenInv
<1>6. KnowsInv(d)'
  BY <1>1, <1>2 DEF Sound, KnowsInv, Knows, Own
<1>7. AnsweredInv(d)'
  BY <1>1 DEF Sound, AnsweredInv, Own
<1>8. UsingInv(d)'
  BY <1>1 DEF Sound, UsingInv, Using, WithNode, Own
<1> QED
  BY <1>3, <1>4, <1>5, <1>6, <1>7, <1>8 DEF Sound, PhoneInv

\* A lost lock uninstalls only the run it was found for, whose slot is empty.
LEMMA LoseLockSound ==
    ASSUME TypeOK, NEW d \in Devices, Sound(d), lose_lock(d)
    PROVE  Sound(d)'
<1>1. /\ UNCHANGED <<store, ousted, reset, slot, wk, op, faults>>
      /\ losing'[d] = None
  BY DEF lose_lock, Untouched, TypeOK
<1>2. CASE gen[d] = losing[d] /\ inner[d] # None
  <2>1. /\ gen[d] \in Nat /\ gen'[d] = gen[d] + 1 /\ checker'[d] = None /\ inner'[d] = None
        /\ claim'[d] = "stopping" /\ ender'[d] = "lost"
    BY <1>2 DEF lose_lock, TypeOK
  <2>2. slot[d] = None /\ op[d] = None /\ \A w \in Workers : wk[d][w].pc \notin Claiming
    BY <1>2 DEF Sound, PhoneInv, GenInv, ClaimInv, lose_lock
  <2>3. ClaimInv(d)'
    BY <1>1, <2>1, <2>2 DEF ClaimInv
  <2>4. OpInv(d)' /\ GenInv(d)' /\ SlotInv(d)'
    BY <1>1, <2>1, <2>2 DEF OpInv, GenInv, SlotInv
  <2>5. KnowsInv(d)' /\ AnsweredInv(d)'
    BY <1>1 DEF Sound, KnowsInv, AnsweredInv, Knows, Own
  <2>6. UsingInv(d)'
    BY <1>1, <1>2 DEF Sound, UsingInv, Using, Own
  <2> QED
    BY <2>3, <2>4, <2>5, <2>6 DEF Sound, PhoneInv
<1>3. CASE ~(gen[d] = losing[d] /\ inner[d] # None)
  <2>1. UNCHANGED <<gen, checker, inner, claim, ender>>
    BY <1>3 DEF lose_lock
  <2>2. ClaimInv(d)' /\ OpInv(d)'
    BY <1>1, <2>1 DEF Sound, PhoneInv, ClaimInv, OpInv
  <2>3. GenInv(d)' /\ SlotInv(d)'
    BY <1>1, <2>1 DEF Sound, PhoneInv, GenInv, SlotInv
  <2>4. KnowsInv(d)' /\ AnsweredInv(d)'
    BY <1>1 DEF Sound, KnowsInv, AnsweredInv, Knows, Own
  <2>5. UsingInv(d)'
    BY <1>1, <2>1 DEF Sound, UsingInv, Using, Own
  <2> QED
    BY <2>2, <2>3, <2>4, <2>5 DEF Sound, PhoneInv
<1> QED
  BY <1>2, <1>3

\* A dead process knows and uses nothing.
LEMMA DieSound ==
    ASSUME TypeOK, NEW d \in Devices, Sound(d), Die(d)
    PROVE  Sound(d)'
<1>1. /\ UNCHANGED <<store, ousted, reset>> /\ faults' = faults + 1 /\ faults \in Nat
      /\ inner'[d] = None /\ slot'[d] = None /\ claim'[d] = "none" /\ ender'[d] = None
      /\ checker'[d] = None /\ losing'[d] = None /\ op'[d] = None
  BY DEF Die, Untouched, Fault, TypeOK
<1>2. \A w \in Workers : wk'[d][w].pc = "none"
  BY DEF Die, NoWorker, TypeOK
<1>3. ClaimInv(d)' /\ OpInv(d)' /\ GenInv(d)' /\ SlotInv(d)'
  BY <1>1, <1>2 DEF ClaimInv, OpInv, GenInv, SlotInv, Claiming
<1>4. KnowsInv(d)'
  BY <1>1, DeviceLockConstants DEF Sound, KnowsInv, Knows, Own
<1>5. UsingInv(d)' /\ AnsweredInv(d)'
  BY <1>1, <1>2, DeviceLockConstants DEF UsingInv, Using, AnsweredInv, WithNode
<1> QED
  BY <1>3, <1>4, <1>5 DEF Sound, PhoneInv

\* A release is begun by whoever the version in the slot belongs to, and takes it along.
LEMMA ReleaseLockSound ==
    ASSUME TypeOK, NEW d \in Devices, Sound(d), release_lock(d)
    PROVE  Sound(d)'
<1>1. /\ UNCHANGED <<store, ousted, reset, gen, inner, claim, checker, losing, faults>>
      /\ op[d] = None
  BY DEF release_lock, Untouched
<1>2. PICK who \in {"stop"} \cup Workers :
          /\ IF who = "stop" THEN ender[d] = "release" ELSE At(d, who, "unlock")
          /\ IF slot[d] = None \/ who \notin GivesBack(d)
             THEN Released(d, who) /\ UNCHANGED <<op, slot>>
             ELSE /\ op' = [op EXCEPT ![d] = [kind |-> "release", pc |-> "delete", ver |-> slot[d],
                                              again |-> FALSE, who |-> who, gen |-> 0]]
                  /\ slot' = [slot EXCEPT ![d] = None]
                  /\ UNCHANGED <<wk, ender>>
  BY DEF release_lock
<1>3. slot[d] # None => who \in GivesBack(d)
  <2>1. CASE who = "stop"
    BY <2>1 DEF GivesBack
  <2>2. CASE who # "stop"
    <3>1. who \in Workers /\ wk[d][who].pc = "unlock"
      BY <1>2, <2>2 DEF At
    <3>2. inner[d] = None /\ ender[d] = None /\ \A v \in Workers : wk[d][v].pc \in Claiming => v = who
      BY <3>1 DEF Sound, PhoneInv, ClaimInv, Claiming
    <3>3. slot[d] # None => wk[d][who].held = slot[d]
      BY <3>2, DeviceLockConstants DEF Sound, PhoneInv, SlotInv, Claiming, Locked
    <3> QED
      BY <3>1, <3>3 DEF GivesBack
  <2> QED
    BY <2>1, <2>2
<1>4. CASE slot[d] = None
  <2>1. op'[d] = None /\ slot'[d] = None
    BY <1>1, <1>2, <1>4
  <2>2. ClaimInv(d)' /\ (Using(d)' => Using(d))
    <3>1. CASE who = "stop"
      <4>1. ender[d] = "release" /\ ender'[d] = "unclaim" /\ wk' = wk
        BY <1>2, <1>4, <3>1 DEF Released, TypeOK
      <4> QED
        BY <1>1, <4>1, DeviceLockConstants DEF Sound, PhoneInv, ClaimInv, Using
    <3>2. CASE who # "stop"
      <4>1. who \in Workers /\ wk[d][who].pc = "unlock" /\ ender' = ender /\ Move(d, who, "unclaim")
        BY <1>2, <1>4, <3>2 DEF Released, At
      <4>2. wk'[d][who].pc = "unclaim" /\ \A v \in Workers : v # who => wk'[d][v] = wk[d][v]
        BY <4>1, Moved
      <4> QED
        BY <1>1, <4>1, <4>2 DEF Sound, PhoneInv, ClaimInv, Claiming, Using, WithNode
    <3> QED
      BY <3>1, <3>2
  <2>3. OpInv(d)' /\ SlotInv(d)' /\ GenInv(d)'
    BY <1>1, <1>4, <2>1 DEF Sound, PhoneInv, OpInv, SlotInv, GenInv
  <2>4. KnowsInv(d)' /\ AnsweredInv(d)'
    BY <1>1, <1>4, <2>1 DEF Sound, KnowsInv, AnsweredInv, Knows, Own
  <2>5. UsingInv(d)'
    BY <1>1, <2>2 DEF Sound, UsingInv, Own
  <2> QED
    BY <2>2, <2>3, <2>4, <2>5 DEF Sound, PhoneInv
<1>5. CASE slot[d] # None
  <2>1. /\ op'[d].kind = "release" /\ op'[d].ver = slot[d] /\ op'[d].who = who
        /\ slot'[d] = None /\ UNCHANGED <<wk, ender>> /\ slot[d] \in Nat
        /\ op'[d] # None
    <3>1. op'[d] = [kind |-> "release", pc |-> "delete", ver |-> slot[d], again |-> FALSE,
                    who |-> who, gen |-> 0]
          /\ slot'[d] = None /\ UNCHANGED <<wk, ender>>
      BY <1>2, <1>3, <1>5 DEF TypeOK
    <3>2. slot[d] \in Nat
      BY <1>5 DEF TypeOK
    <3>3. op'[d] \in LockOp
      BY <3>1, <3>2 DEF LockOp
    <3>4. op'[d] # None
      BY <3>3, DeviceLockConstants
    <3> QED
      BY <3>1, <3>2, <3>4
  <2>2. ClaimInv(d)' /\ SlotInv(d)'
    BY <1>1, <2>1 DEF Sound, PhoneInv, ClaimInv, SlotInv
  <2>3. OpInv(d)'
    BY <1>2, <2>1 DEF OpInv, At
  <2>4. GenInv(d)'
    BY <1>1, <1>5 DEF Sound, PhoneInv, GenInv
  <2>5. KnowsInv(d)'
    BY <1>1, <2>1, DeviceLockConstants DEF Sound, KnowsInv, Knows, Own
  <2>6. AnsweredInv(d)'
    BY <1>1, <2>1 DEF Sound, AnsweredInv, Own
  <2>7. UsingInv(d)'
    BY <1>1, <2>1 DEF Sound, UsingInv, Using, Own
  <2> QED
    BY <2>2, <2>3, <2>4, <2>5, <2>6, <2>7 DEF Sound, PhoneInv
<1> QED
  BY <1>4, <1>5

-----------------------------------------------------------------------------
(* Lock operations                                                         *)

\* Where acquire or takeover is under way, its worker owns the claim and the slot is empty.
LEMMA Locking ==
    ASSUME TypeOK, NEW d \in Devices, Sound(d), op[d] # None, op[d].kind \in {"acquire", "takeover"}
    PROVE  /\ op[d].who \in Workers /\ wk[d][op[d].who].pc = "locking"
           /\ slot[d] = None /\ inner[d] = None /\ ender[d] = None /\ claim[d] = "starting"
           /\ \A v \in Workers : v # op[d].who => wk[d][v].pc \notin Claiming
           /\ losing[d] # gen[d]
<1>1. op[d].who \in Workers /\ wk[d][op[d].who].pc = "locking"
  BY DEF Sound, PhoneInv, OpInv
<1>2. /\ inner[d] = None /\ ender[d] = None /\ claim[d] = "starting"
      /\ \A v \in Workers : v # op[d].who => wk[d][v].pc \notin Claiming
  BY <1>1 DEF Sound, PhoneInv, ClaimInv, Claiming
<1>3. slot[d] = None
  BY <1>1, <1>2, DeviceLockConstants DEF Sound, PhoneInv, SlotInv, Claiming, Locked
<1>4. losing[d] # gen[d]
  BY <1>2, DeviceLockConstants DEF Sound, PhoneInv, GenInv, TypeOK
<1> QED
  BY <1>1, <1>2, <1>3, <1>4

\* A lock operation that fails leaves its worker the claim to give up.
LEMMA FailsSound ==
    ASSUME TypeOK, NEW d \in Devices, Sound(d), op[d] # None, op[d].kind \in {"acquire", "takeover"},
           LockFails(d), UNCHANGED <<gen, inner, claim, ender, checker, losing>>
    PROVE  /\ PhoneInv(d)' /\ ~Using(d)' /\ slot'[d] = None /\ op'[d] = None
<1>1. /\ op[d].who \in Workers /\ wk[d][op[d].who].pc = "locking"
      /\ slot[d] = None /\ inner[d] = None /\ ender[d] = None /\ claim[d] = "starting"
      /\ \A v \in Workers : v # op[d].who => wk[d][v].pc \notin Claiming
      /\ losing[d] # gen[d]
  BY Locking
<1>2. op'[d] = None /\ slot'[d] = None /\ Move(d, op[d].who, "unclaim")
  BY <1>1 DEF LockFails, Move, TypeOK
<1>3. /\ wk'[d][op[d].who].pc = "unclaim"
      /\ \A v \in Workers : v # op[d].who => wk'[d][v] = wk[d][v]
  BY <1>1, <1>2, Moved
<1>4. ClaimInv(d)'
  BY <1>1, <1>3 DEF ClaimInv
<1>5. OpInv(d)' /\ SlotInv(d)' /\ GenInv(d)'
  BY <1>1, <1>2 DEF Sound, PhoneInv, OpInv, SlotInv, GenInv
<1>6. ~Using(d)'
  BY <1>1, <1>3, DeviceLockConstants DEF Using, WithNode, Claiming
<1> QED
  BY <1>2, <1>4, <1>5, <1>6 DEF PhoneInv

\* acquire reads a version of its phone's own record only.
LEMMA LockGetSound ==
    ASSUME TypeOK, NEW d \in Devices, Sound(d), LockGet(d)
    PROVE  Sound(d)'
<1>1. /\ UNCHANGED <<store, ousted, reset, gen, inner, claim, ender, checker, losing>>
      /\ op[d] # None /\ op[d].kind \in {"acquire", "takeover"} /\ op[d] \in LockOp
  BY DEF LockGet, Untouched, TypeOK
<1>2. CASE LockFails(d)
  <2>1. PhoneInv(d)' /\ ~Using(d)' /\ slot'[d] = None /\ op'[d] = None
    BY <1>1, <1>2, FailsSound
  <2>2. KnowsInv(d)'
    BY <1>1, <2>1, DeviceLockConstants DEF Sound, KnowsInv, Knows, Own
  <2>3. faults = 0 => ~Own(d)
    BY <1>1, Locking, DeviceLockConstants DEF Sound, AnsweredInv, Own, TypeOK, Lock
  <2>4. AnsweredInv(d)'
    <3>1. faults' = 0 => faults = 0
      BY DEF LockGet, Fault, TypeOK
    <3> QED
      BY <1>1, <2>3, <3>1 DEF AnsweredInv, Own
  <2> QED
    BY <2>1, <2>2, <2>4 DEF Sound, UsingInv
<1>3. CASE ~LockFails(d)
  <2>1. /\ op[d].kind = "takeover" \/ Mine(d)
        /\ op' = [op EXCEPT ![d].pc = "put", ![d].ver = IF store = None THEN 0 ELSE store.ver]
        /\ UNCHANGED <<wk, slot, faults>>
    BY <1>3 DEF LockGet
  <2>2. /\ op'[d].kind = op[d].kind /\ op'[d].who = op[d].who
        /\ op'[d].ver = IF store = None THEN 0 ELSE store.ver
    <3>1. op'[d] = [op[d] EXCEPT !.pc = "put", !.ver = IF store = None THEN 0 ELSE store.ver]
      BY <2>1 DEF TypeOK
    <3> QED
      BY <1>1, <3>1 DEF LockOp
  <2>3. ClaimInv(d)' /\ SlotInv(d)'
    BY <1>1, <2>1 DEF Sound, PhoneInv, ClaimInv, SlotInv
  <2>4. OpInv(d)'
    BY <1>1, <2>1, <2>2 DEF Sound, PhoneInv, OpInv
  <2>5. GenInv(d)'
    BY <1>1, <2>1, Locking DEF Sound, PhoneInv, GenInv
  <2>6. KnowsInv(d)'
    <3>1. slot[d] = None
      BY <1>1, Locking
    <3>2. store # None => store.ver \in Nat
      BY DEF TypeOK, Lock
    <3>3. op[d].kind = "acquire" /\ store # None => Own(d) /\ d \notin ousted
      BY <2>1 DEF Mine, Sound, KnowsInv
    <3> QED
      BY <1>1, <2>1, <2>2, <3>1, <3>2, <3>3, DeviceLockConstants DEF Sound, KnowsInv, Knows, Own
  <2>7. AnsweredInv(d)'
    BY <1>1, <2>1 DEF Sound, AnsweredInv, Own
  <2>8. UsingInv(d)'
    BY <1>1, <2>1 DEF Sound, UsingInv, Using, Own
  <2> QED
    BY <2>3, <2>4, <2>5, <2>6, <2>7, <2>8 DEF Sound, PhoneInv
<1> QED
  BY <1>2, <1>3

\* A record written is there, and its phone's.
LEMMA WrittenOwn ==
    ASSUME TypeOK, NEW d \in Devices, NEW ver \in Nat, Written(d, ver)
    PROVE  store' # None /\ Own(d)' /\ store'.ver = ver + 1 /\ d \notin ousted' /\ reset' = reset
<1>1. store' = [dev |-> d, ver |-> ver + 1] /\ store' \in Lock
  BY DEF Written, Lock
<1>2. store' # None
  BY <1>1, DeviceLockConstants
<1> QED
  BY <1>1, <1>2 DEF Written, Own

\* What is written at a version known, or read for a takeover, the phone may write over.
LEMMA PutMayWrite ==
    ASSUME TypeOK, NEW d \in Devices, Sound(d), op[d] # None,
           \/ op[d].kind \in {"acquire", "takeover"} /\ op[d].pc = "put"
           \/ op[d].kind = "refresh",
           Applies(op[d].ver)
    PROVE  MayWrite(d)
<1>1. op[d].ver \in Nat
  BY DEF TypeOK, LockOp
<1>2. CASE op[d].kind = "takeover"
  BY <1>2 DEF MayWrite
<1>3. CASE op[d].kind # "takeover" /\ ~reset /\ store # None
  <2>1. op[d].ver # 0 /\ store.ver = op[d].ver
    BY <1>3 DEF Applies
  <2>2. Knows(d, op[d].ver)
    BY <1>3, <2>1 DEF Knows, Sound, PhoneInv, OpInv
  <2>3. Own(d)
    BY <1>1, <1>3, <2>1, <2>2 DEF Sound, KnowsInv
  <2> QED
    BY <2>3 DEF MayWrite
<1> QED
  BY <1>2, <1>3 DEF MayWrite

\* A write that lands gives its worker the lock; one that does not, or goes unanswered, is
\* given up, or tried once more after another read.
LEMMA LockPutSound ==
    ASSUME TypeOK, NEW d \in Devices, Sound(d), LockPut(d)
    PROVE  Sound(d)'
<1>1. /\ UNCHANGED <<gen, inner, claim, ender, checker, losing>>
      /\ op[d] # None /\ op[d].kind \in {"acquire", "takeover"} /\ op[d].pc = "put"
      /\ op[d] \in LockOp /\ op[d].ver \in Nat
  BY DEF LockPut, TypeOK, LockOp
<1>2. /\ op[d].who \in Workers /\ wk[d][op[d].who].pc = "locking"
      /\ slot[d] = None /\ inner[d] = None /\ ender[d] = None /\ claim[d] = "starting"
      /\ \A v \in Workers : v # op[d].who => wk[d][v].pc \notin Claiming
      /\ losing[d] # gen[d]
  BY <1>1, Locking
<1>3. faults = 0 => ~Own(d)
  BY <1>1, <1>2, DeviceLockConstants DEF Sound, AnsweredInv, Own, TypeOK, Lock
<1>4. CASE /\ Put(d, op[d].ver, TRUE)
           /\ slot' = [slot EXCEPT ![d] = op[d].ver + 1]
           /\ op' = [op EXCEPT ![d] = None]
           /\ wk' = [wk EXCEPT ![d][op[d].who].pc = "build", ![d][op[d].who].held = op[d].ver + 1]
  <2>1. store' # None /\ Own(d)' /\ store'.ver = op[d].ver + 1 /\ d \notin ousted' /\ reset' = reset
    BY <1>1, <1>4, WrittenOwn DEF Put
  <2>2. slot'[d] = op[d].ver + 1 /\ op'[d] = None
    BY <1>4 DEF TypeOK
  <2>3. /\ \A v \in Workers : v # op[d].who => wk'[d][v] = wk[d][v]
        /\ wk'[d][op[d].who].pc = "build" /\ wk'[d][op[d].who].held = op[d].ver + 1
    <3>1. wk[d][op[d].who] \in Worker
      BY <1>2 DEF TypeOK
    <3>2. wk'[d] = [wk[d] EXCEPT ![op[d].who].pc = "build", ![op[d].who].held = op[d].ver + 1]
      BY <1>4 DEF TypeOK
    <3>3. wk'[d][op[d].who] = [wk[d][op[d].who] EXCEPT !.pc = "build", !.held = op[d].ver + 1]
      BY <1>2, <3>2 DEF TypeOK
    <3>4. \A v \in Workers : v # op[d].who => wk'[d][v] = wk[d][v]
      BY <1>2, <3>2 DEF TypeOK
    <3> QED
      BY <3>1, <3>3, <3>4 DEF Worker
  <2>4. ClaimInv(d)'
    BY <1>1, <1>2, <2>3 DEF ClaimInv
  <2>5. OpInv(d)' /\ GenInv(d)'
    BY <1>1, <1>2, <2>2 DEF Sound, PhoneInv, OpInv, GenInv
  <2>6. SlotInv(d)'
    BY <1>2, <2>2, <2>3 DEF SlotInv, Locked
  <2>7. KnowsInv(d)'
    BY <1>1, <2>1, <2>2 DEF KnowsInv, Knows
  <2>8. UsingInv(d)' /\ AnsweredInv(d)'
    BY <2>1, <2>2 DEF UsingInv, AnsweredInv
  <2> QED
    BY <2>4, <2>5, <2>6, <2>7, <2>8 DEF Sound, PhoneInv
<1>5. CASE LockFails(d) /\ (Put(d, op[d].ver, FALSE) \/ PutUnanswered(d, op[d].ver))
  <2>1. PhoneInv(d)' /\ ~Using(d)' /\ slot'[d] = None /\ op'[d] = None
    BY <1>1, <1>5, FailsSound
  <2>2. \/ Untouched /\ faults' \in {faults, faults + 1}
        \/ Written(d, op[d].ver) /\ faults' = faults + 1
    BY <1>5 DEF Put, PutUnanswered, Fault
  <2>3. d \in ousted' => ~Own(d)'
    <3>1. Written(d, op[d].ver) => d \notin ousted'
      BY DEF Written
    <3>2. Untouched => (d \in ousted' => ~Own(d)')
      BY DEF Untouched, Own, Sound, KnowsInv
    <3> QED
      BY <2>2, <3>1, <3>2
  <2>4. KnowsInv(d)'
    BY <2>1, <2>3, DeviceLockConstants DEF KnowsInv, Knows
  <2>5. AnsweredInv(d)'
    <3>1. faults \in Nat
      BY DEF TypeOK
    <3> QED
      BY <1>3, <2>2, <3>1 DEF AnsweredInv, Own, Untouched
  <2> QED
    BY <2>1, <2>4, <2>5 DEF Sound, UsingInv
<1>6. CASE /\ Put(d, op[d].ver, FALSE)
           /\ op' = [op EXCEPT ![d].pc = "get", ![d].again = TRUE] /\ UNCHANGED <<wk, slot>>
  <2>1. Untouched /\ faults' = faults
    BY <1>6 DEF Put
  <2>2. op'[d].kind = op[d].kind /\ op'[d].who = op[d].who /\ op'[d].pc = "get"
    <3>1. op'[d] = [op[d] EXCEPT !.pc = "get", !.again = TRUE]
      BY <1>6 DEF TypeOK
    <3> QED
      BY <1>1, <3>1 DEF LockOp
  <2>3. ClaimInv(d)' /\ SlotInv(d)'
    BY <1>1, <1>6 DEF Sound, PhoneInv, ClaimInv, SlotInv
  <2>4. OpInv(d)' /\ GenInv(d)'
    BY <1>1, <1>2, <1>6, <2>2 DEF Sound, PhoneInv, OpInv, GenInv
  <2>5. KnowsInv(d)'
    BY <1>1, <1>2, <1>6, <2>1, <2>2, DeviceLockConstants DEF Sound, KnowsInv, Knows, Own, Untouched
  <2>6. AnsweredInv(d)'
    BY <1>3, <2>1 DEF AnsweredInv, Own, Untouched
  <2>7. UsingInv(d)'
    BY <1>1, <1>6, <2>1 DEF Sound, UsingInv, Using, Own, Untouched
  <2> QED
    BY <2>3, <2>4, <2>5, <2>6, <2>7 DEF Sound, PhoneInv
<1> QED
  BY <1>4, <1>5, <1>6 DEF LockPut

\* A release deletes its phone's own record only, unless there was a reset before.
LEMMA DeleteOwn ==
    ASSUME TypeOK, NEW d \in Devices, Sound(d), op[d] # None, op[d].kind = "release",
           Applies(op[d].ver)
    PROVE  Own(d) \/ reset
<1>1. op[d].ver \in Nat /\ Knows(d, op[d].ver)
  BY DEF TypeOK, LockOp, Knows
<1>2. ~reset => store # None /\ store.ver = op[d].ver /\ d \notin ousted
  BY <1>1 DEF Applies, Sound, KnowsInv
<1> QED
  BY <1>1, <1>2 DEF Sound, KnowsInv

\* The release ends with nothing known, and whoever released goes on to give up the claim.
LEMMA ReleaseDeleteSound ==
    ASSUME TypeOK, NEW d \in Devices, Sound(d), ReleaseDelete(d)
    PROVE  Sound(d)'
<1>1. /\ UNCHANGED <<gen, inner, slot, claim, checker, losing>>
      /\ op[d] # None /\ op[d].kind = "release" /\ op'[d] = None /\ op[d].ver \in Nat
      /\ slot[d] = None /\ Released(d, op[d].who)
  BY DEF ReleaseDelete, TypeOK, LockOp, Sound, PhoneInv, OpInv
<1>2. \/ Untouched /\ (faults' = 0 => ~Applies(op[d].ver))
      \/ Deleted /\ Applies(op[d].ver)
  BY DEF ReleaseDelete, Fault, TypeOK
<1>3. faults' = 0 => faults = 0
  BY DEF ReleaseDelete, Fault, TypeOK
<1>4. ClaimInv(d)' /\ ~Using(d)'
  <2>1. CASE op[d].who = "stop"
    <3>1. ender[d] = "release" /\ ender'[d] = "unclaim" /\ wk' = wk
      BY <1>1, <2>1, DeviceLockConstants DEF Released, TypeOK, Sound, PhoneInv, OpInv
    <3>2. inner[d] = None /\ claim[d] = "stopping" /\ \A w \in Workers : wk[d][w].pc \notin Claiming
      BY <3>1, DeviceLockConstants DEF Sound, PhoneInv, ClaimInv
    <3> QED
      BY <1>1, <3>1, <3>2 DEF ClaimInv, Using, Claiming, WithNode
  <2>2. CASE op[d].who # "stop"
    <3>1. op[d].who \in Workers /\ wk[d][op[d].who].pc = "unlock" /\ ender' = ender /\ Move(d, op[d].who, "unclaim")
      BY <1>1, <2>2 DEF Released, Sound, PhoneInv, OpInv
    <3>2. /\ inner[d] = None /\ ender[d] = None /\ claim[d] = "starting"
          /\ \A v \in Workers : v # op[d].who => wk[d][v].pc \notin Claiming
      BY <3>1 DEF Sound, PhoneInv, ClaimInv, Claiming
    <3>3. wk'[d][op[d].who].pc = "unclaim" /\ \A v \in Workers : v # op[d].who => wk'[d][v] = wk[d][v]
      BY <3>1, Moved
    <3> QED
      BY <1>1, <3>1, <3>2, <3>3, DeviceLockConstants DEF ClaimInv, Using, Claiming, WithNode
  <2> QED
    BY <2>1, <2>2
<1>5. OpInv(d)' /\ SlotInv(d)' /\ GenInv(d)'
  BY <1>1 DEF Sound, PhoneInv, OpInv, SlotInv, GenInv
<1>6. KnowsInv(d)'
  <2>1. d \in ousted' => ~Own(d)'
    BY <1>2 DEF Untouched, Deleted, Own, Sound, KnowsInv
  <2> QED
    BY <1>1, <2>1, DeviceLockConstants DEF KnowsInv, Knows
<1>7. AnsweredInv(d)'
  <2>1. CASE Deleted
    BY <2>1 DEF Deleted, Own, AnsweredInv
  <2>2. CASE Untouched /\ (faults' = 0 => ~Applies(op[d].ver))
    <3>1. store # None => store.ver # 0
      BY DEF TypeOK, Lock
    <3>2. faults' = 0 => ~Own(d)
      <4> SUFFICES ASSUME faults' = 0, Own(d) PROVE FALSE
        OBVIOUS
      <4>1. store # None /\ (slot[d] = store.ver \/ op[d].ver = store.ver)
        BY <1>3 DEF Sound, AnsweredInv, Own
      <4>2. store.ver \in Nat
        BY <4>1 DEF TypeOK, Lock
      <4> QED
        BY <1>1, <2>2, <3>1, <4>1, <4>2, DeviceLockConstants DEF Applies
    <3> QED
      BY <2>2, <3>2 DEF AnsweredInv, Own, Untouched
  <2> QED
    BY <1>2, <2>1, <2>2
<1> QED
  BY <1>4, <1>5, <1>6, <1>7 DEF Sound, PhoneInv, UsingInv

\* A check rewrites the record its phone holds, adopts the phone's own newer one, or finds the
\* lock lost: then the slot is empty and the run it was for is named, if it is not over.
LEMMA RefreshSound ==
    ASSUME TypeOK, NEW d \in Devices, Sound(d), refresh(d)
    PROVE  Sound(d)'
<1>1. /\ UNCHANGED <<gen, inner, claim, wk, ender, checker>>
      /\ op[d] # None /\ op[d].kind = "refresh" /\ op[d] \in LockOp
  BY DEF refresh, TypeOK
<1>2. /\ op[d].gen \in Nat /\ op[d].ver \in Nat /\ op[d].gen <= gen[d] /\ op[d].ver = slot[d]
      /\ op[d].gen = gen[d] => inner[d] # None
      /\ inner[d] # None \/ ender[d] \in {"stop", "release"}
  BY <1>1 DEF Sound, PhoneInv, OpInv, LockOp
<1>3. losing[d] # None => losing[d] # gen[d]
  BY <1>1 DEF Sound, PhoneInv, GenInv
<1>4. ClaimInv(d)'
  BY <1>1 DEF Sound, PhoneInv, ClaimInv
<1>5. SlotInv(d)'
  BY <1>1, <1>2 DEF SlotInv
<1>6. CASE /\ Put(d, op[d].ver, TRUE) /\ slot' = [slot EXCEPT ![d] = op[d].ver + 1]
           /\ op' = [op EXCEPT ![d] = None] /\ UNCHANGED losing
  <2>1. store' # None /\ Own(d)' /\ store'.ver = op[d].ver + 1 /\ d \notin ousted' /\ reset' = reset
    BY <1>2, <1>6, WrittenOwn DEF Put
  <2>2. slot'[d] = op[d].ver + 1 /\ op'[d] = None
    BY <1>6 DEF TypeOK
  <2>3. OpInv(d)' /\ GenInv(d)'
    BY <1>1, <1>3, <1>6, <2>2 DEF Sound, PhoneInv, OpInv, GenInv
  <2>4. KnowsInv(d)'
    BY <1>2, <2>1, <2>2 DEF KnowsInv, Knows
  <2>5. UsingInv(d)' /\ AnsweredInv(d)'
    BY <2>1, <2>2 DEF UsingInv, AnsweredInv
  <2> QED
    BY <1>4, <1>5, <2>3, <2>4, <2>5 DEF Sound, PhoneInv
<1>7. CASE /\ op[d].pc = "put" /\ PutUnanswered(d, op[d].ver)
           /\ op' = [op EXCEPT ![d] = None] /\ UNCHANGED <<slot, losing>>
  <2>1. op'[d] = None /\ faults' # 0
    BY <1>7 DEF TypeOK, PutUnanswered, Fault
  <2>2. OpInv(d)' /\ GenInv(d)'
    BY <1>1, <1>3, <1>7, <2>1 DEF Sound, PhoneInv, OpInv, GenInv
  <2>3. CASE Untouched
    BY <1>1, <1>4, <1>5, <1>7, <2>1, <2>2, <2>3
       DEF Sound, PhoneInv, KnowsInv, Knows, UsingInv, Using, AnsweredInv, Own, Untouched
  <2>4. CASE Written(d, op[d].ver)
    <3>1. store' # None /\ Own(d)' /\ store'.ver = op[d].ver + 1 /\ d \notin ousted'
      BY <1>2, <2>4, WrittenOwn
    <3>2. KnowsInv(d)'
      BY <1>2, <1>7, <2>1, <3>1 DEF KnowsInv, Knows
    <3> QED
      BY <1>4, <1>5, <2>1, <2>2, <3>1, <3>2 DEF Sound, PhoneInv, UsingInv, AnsweredInv
  <2> QED
    BY <1>7, <2>3, <2>4 DEF PutUnanswered
<1>8. CASE Untouched /\ faults' \in {faults, faults + 1} /\ UNCHANGED <<slot, losing>>
           /\ (op' = [op EXCEPT ![d] = None] \/ op' = [op EXCEPT ![d].pc = "get"])
  <2>1. /\ op'[d] # None => op'[d].kind = "refresh" /\ op'[d].ver = op[d].ver /\ op'[d].gen = op[d].gen
    <3>1. CASE op' = [op EXCEPT ![d] = None]
      BY <3>1 DEF TypeOK
    <3>2. CASE op' = [op EXCEPT ![d].pc = "get"]
      <4>1. op'[d] = [op[d] EXCEPT !.pc = "get"]
        BY <3>2 DEF TypeOK
      <4> QED
        BY <1>1, <4>1 DEF LockOp
    <3> QED
      BY <1>8, <3>1, <3>2
  <2>2. OpInv(d)' /\ GenInv(d)'
    BY <1>1, <1>2, <1>3, <1>8, <2>1 DEF Sound, PhoneInv, OpInv, GenInv
  <2>3. KnowsInv(d)'
    BY <1>1, <1>8, <2>1 DEF Sound, KnowsInv, Knows, Own, Untouched
  <2>4. UsingInv(d)'
    BY <1>1, <1>8 DEF Sound, UsingInv, Using, Own, Untouched
  <2>5. AnsweredInv(d)'
    <3>1. faults \in Nat
      BY DEF TypeOK
    <3> QED
      BY <1>1, <1>8, <3>1 DEF Sound, AnsweredInv, Own, Untouched
  <2> QED
    BY <1>4, <1>5, <2>2, <2>3, <2>4, <2>5 DEF Sound, PhoneInv
<1>9. CASE Lost(d) /\ Untouched /\ faults' = faults /\ (~Own(d) \/ ~Applies(op[d].ver))
  <2>1. slot'[d] = None /\ op'[d] = None /\ losing'[d] = op[d].gen
    BY <1>9 DEF Lost, TypeOK
  <2>2. OpInv(d)' /\ GenInv(d)'
    BY <1>1, <1>2, <2>1 DEF Sound, PhoneInv, OpInv, GenInv
  <2>3. KnowsInv(d)'
    BY <1>9, <2>1, DeviceLockConstants DEF Sound, KnowsInv, Knows, Own, Untouched
  <2>4. UsingInv(d)'
    BY <1>1, <1>9 DEF Sound, UsingInv, Using, Own, Untouched
  <2>5. faults = 0 => ~Own(d)
    <3> SUFFICES ASSUME faults = 0, Own(d) PROVE FALSE
      OBVIOUS
    <3>1. store # None /\ store.ver = op[d].ver
      BY <1>1, <1>2 DEF Sound, AnsweredInv, Own
    <3>2. store.ver # 0
      BY <3>1 DEF TypeOK, Lock
    <3> QED
      BY <1>9, <3>1, <3>2 DEF Applies
  <2>6. AnsweredInv(d)'
    BY <1>9, <2>5 DEF AnsweredInv, Own, Untouched
  <2> QED
    BY <1>4, <1>5, <2>2, <2>3, <2>4, <2>6 DEF Sound, PhoneInv
<1>10. CASE /\ Own(d) /\ Untouched /\ faults' = faults /\ slot' = [slot EXCEPT ![d] = store.ver]
            /\ op' = [op EXCEPT ![d].pc = "put", ![d].ver = store.ver, ![d].again = TRUE]
            /\ UNCHANGED losing
  <2>1. slot'[d] = store.ver /\ store # None /\ store.ver \in Nat
    BY <1>10 DEF TypeOK, Own, Lock
  <2>2. op'[d].kind = "refresh" /\ op'[d].ver = store.ver /\ op'[d].gen = op[d].gen
    <3>1. op'[d] = [op[d] EXCEPT !.pc = "put", !.ver = store.ver, !.again = TRUE]
      BY <1>10 DEF TypeOK
    <3> QED
      BY <1>1, <3>1 DEF LockOp
  <2>3. OpInv(d)' /\ GenInv(d)'
    BY <1>1, <1>2, <1>3, <1>10, <2>1, <2>2 DEF Sound, PhoneInv, OpInv, GenInv
  <2>4. KnowsInv(d)'
    BY <1>10, <2>1, <2>2 DEF Sound, KnowsInv, Knows, Own, Untouched
  <2>5. UsingInv(d)' /\ AnsweredInv(d)'
    BY <1>10, <2>1 DEF UsingInv, AnsweredInv, Own, Untouched
  <2> QED
    BY <1>4, <1>5, <2>3, <2>4, <2>5 DEF Sound, PhoneInv
<1> QED
  <2>1. ASSUME op[d].pc = "put", Put(d, op[d].ver, FALSE),
               IF op[d].again THEN Lost(d)
               ELSE op' = [op EXCEPT ![d].pc = "get"] /\ UNCHANGED <<slot, losing>>
        PROVE  Sound(d)'
    BY <2>1, <1>8, <1>9 DEF Put
  <2>2. ASSUME op[d].pc = "get", Fault, Untouched, op' = [op EXCEPT ![d] = None], UNCHANGED <<slot, losing>>
        PROVE  Sound(d)'
    BY <2>2, <1>8 DEF Fault
  <2> QED
    BY <1>6, <1>7, <1>9, <1>10, <2>1, <2>2 DEF refresh

\* A step of a lock operation leaves the other phones alone, and keeps them sound: what it
\* writes or deletes is its own, or taken over.
LEMMA OpStepOthers ==
    ASSUME TypeOK, NEW d \in Devices, Sound(d), NEW e \in Devices, e # d, Sound(e),
           LockGet(d) \/ LockPut(d) \/ ReleaseDelete(d) \/ refresh(d)
    PROVE  Sound(e)'
<1>1. Counted
  BY OpStepTypes DEF Sound, PhoneInv
<1>2. op[d] # None /\ op[d].ver \in Nat
  BY DEF LockGet, LockPut, ReleaseDelete, refresh, TypeOK, LockOp
<1>3. Same(e)
  <2>1. wk'[e] = wk[e]
    BY DEF LockGet, LockPut, LockFails, ReleaseDelete, Released, Move, refresh, TypeOK
  <2>2. slot'[e] = slot[e] /\ op'[e] = op[e] /\ losing'[e] = losing[e]
    BY DEF LockGet, LockPut, LockFails, ReleaseDelete, refresh, Lost, TypeOK
  <2>3. ender'[e] = ender[e]
    BY DEF LockGet, LockPut, ReleaseDelete, Released, refresh, TypeOK
  <2>4. UNCHANGED <<gen, inner, claim, checker>>
    BY DEF LockGet, LockPut, ReleaseDelete, refresh
  <2> QED
    BY <2>1, <2>2, <2>3, <2>4 DEF Same
<1>4. CASE Untouched
  BY <1>1, <1>3, <1>4, OthersUntouched
<1>5. CASE Written(d, op[d].ver) /\ Applies(op[d].ver) /\ (LockPut(d) \/ refresh(d))
  <2>1. MayWrite(d)
    BY <1>2, <1>5, PutMayWrite DEF LockPut, refresh
  <2> QED
    BY <1>1, <1>2, <1>3, <1>5, <2>1, OthersWritten
<1>6. CASE Deleted /\ Applies(op[d].ver) /\ ReleaseDelete(d)
  <2>1. Own(d) \/ reset
    BY <1>2, <1>6, DeleteOwn DEF ReleaseDelete
  <2> QED
    BY <1>1, <1>3, <1>6, <2>1, OthersDeleted
<1> QED
  BY <1>4, <1>5, <1>6 DEF LockGet, LockPut, ReleaseDelete, refresh, Put, PutUnanswered

-----------------------------------------------------------------------------
(* The invariant and the theorems                                          *)

\* It holds at the start: nothing runs and there is no record.
LEMMA InitIInv == Init => IInv
<1> SUFFICES ASSUME Init PROVE IInv
  OBVIOUS
<1>1. NoWorker \in Worker /\ NoWorker.pc = "none"
  BY DEF NoWorker, Worker, Stage
<1>2. TypeOK
  BY <1>1 DEF Init, TypeOK
<1>3. ASSUME NEW d \in Devices PROVE Sound(d)
  <2>1. /\ store = None /\ gen[d] = 0 /\ inner[d] = None /\ slot[d] = None /\ claim[d] = "none"
        /\ ender[d] = None /\ checker[d] = None /\ losing[d] = None /\ op[d] = None /\ ousted = {}
        /\ \A w \in Workers : wk[d][w].pc = "none"
    BY <1>1 DEF Init
  <2>2. PhoneInv(d)
    BY <2>1 DEF PhoneInv, ClaimInv, OpInv, GenInv, SlotInv, Claiming
  <2>3. KnowsInv(d)
    BY <2>1, DeviceLockConstants DEF KnowsInv, Knows
  <2>4. UsingInv(d) /\ AnsweredInv(d)
    BY <2>1, DeviceLockConstants DEF UsingInv, Using, AnsweredInv, Own, WithNode
  <2> QED
    BY <2>2, <2>3, <2>4 DEF Sound
<1> QED
  BY <1>2, <1>3 DEF IInv

\* Every step keeps the invariant: the phone that takes it by what it does, the others by what
\* it leaves of the record.
LEMMA NextIInv == IInv /\ [Next]_vars => IInv'
<1> SUFFICES ASSUME IInv, [Next]_vars PROVE IInv'
  OBVIOUS
<1> USE DEF IInv
<1>1. ASSUME NEW d \in Devices, NEW w \in Workers,
             \/ TakeClaim(d, w) \/ Probe(d, w) \/ TakeLock(d, w) \/ Build(d, w) \/ Install(d, w)
             \/ spawn_lock_checker(d, w) \/ Unclaim(d, w) \/ StartTimeout(d, w)
      PROVE  IInv'
  <2>1. TypeOK'
    BY <1>1, WorkerStepTypes
  <2>2. Sound(d)'
    BY <1>1, ClaimSound, BuildSound, TakeLockSound, InstallSound, WorkerEndSound, CallerSound
  <2>3. ASSUME NEW e \in Devices, e # d PROVE Sound(e)'
    BY <1>1, <2>3, WorkerStepSame, OthersUntouched
  <2> QED
    BY <2>1, <2>2, <2>3
<1>2. ASSUME NEW d \in Devices,
             \/ \E mode \in {"acquire", "takeover"} : start_impl(d, mode)
             \/ release_lock(d) \/ stop(d) \/ EndRun(d) \/ refresh_lock(d) \/ lose_lock(d) \/ Die(d)
      PROVE  IInv'
  <2>1. TypeOK' /\ Counted
    BY <1>2, PhoneStepTypes
  <2>2. Sound(d)'
    BY <1>2, CallerSound, ReleaseLockSound, StopSound, EndRunSound, RefreshLockSound,
       LoseLockSound, DieSound
  <2>3. ASSUME NEW e \in Devices, e # d PROVE Sound(e)'
    BY <1>2, <2>1, <2>3, PhoneStepSame, OthersUntouched
  <2> QED
    BY <2>1, <2>2, <2>3
<1>3. ASSUME NEW d \in Devices, LockGet(d) \/ LockPut(d) \/ ReleaseDelete(d) \/ refresh(d)
      PROVE  IInv'
  <2>1. TypeOK'
    BY <1>3, OpStepTypes DEF Sound, PhoneInv
  <2>2. Sound(d)'
    BY <1>3, LockGetSound, LockPutSound, ReleaseDeleteSound, RefreshSound
  <2>3. ASSUME NEW e \in Devices, e # d PROVE Sound(e)'
    BY <1>3, <2>3, OpStepOthers
  <2> QED
    BY <2>1, <2>2, <2>3
<1>4. CASE UNCHANGED vars
  <2>1. TypeOK'
    BY <1>4 DEF TypeOK, vars
  <2>2. ASSUME NEW e \in Devices PROVE Sound(e)'
    BY <1>4, OthersUntouched DEF vars, Same, Untouched, Counted
  <2> QED
    BY <2>1, <2>2
<1> QED
  BY <1>1, <1>2, <1>3, <1>4 DEF Next, Work, App

\* The inductive invariant holds in every reachable state.
THEOREM Invariance == Spec => []IInv
<1> QED
  BY InitIInv, NextIInv, PTL DEF Spec

\* Every variable has its type.
THEOREM TypeCorrect == Spec => []TypeOK
<1>1. IInv => TypeOK
  BY DEF IInv
<1> QED
  BY <1>1, Invariance, PTL

\* At most one element, at most one counted.
LEMMA AtMostOne ==
    ASSUME NEW S, NEW x, S \subseteq {x}
    PROVE  Cardinality(S) <= 1
<1>1. CASE S = {}
  BY <1>1, FS_EmptySet
<1>2. CASE S # {}
  <2>1. S = {x}
    BY <1>2
  <2> QED
    BY <2>1, FS_Singleton
<1> QED
  BY <1>1, <1>2

\* A process never has two ldk-nodes of the wallet, and the one installed is of the current
\* generation: the process-wide claim has one owner at a time (node.rs).
THEOREM NodeIsOne == Spec => []OneNode
<1>1. ASSUME IInv, NEW d \in Devices PROVE Cardinality(Live(d)) <= 1 /\ inner[d] \in {None, gen[d]}
  <2>1. inner[d] \in {None, gen[d]}
    BY <1>1 DEF IInv, Sound, PhoneInv, GenInv
  <2>2. /\ \A w \in Workers : wk[d][w].pc \in WithNode =>
               /\ inner[d] = None /\ ender[d] = None
               /\ \A v \in Workers : wk[d][v].pc \in WithNode => v = w
        /\ inner[d] # None => ender[d] = None
    BY <1>1 DEF IInv, Sound, PhoneInv, ClaimInv, Claiming, WithNode
  <2>3. PICK x : Live(d) \subseteq {x}
    <3>1. CASE inner[d] # None
      <4>1. Live(d) \subseteq {"run"}
        BY <2>2, <3>1, DeviceLockConstants DEF Live
      <4> QED
        BY <4>1
    <3>2. CASE inner[d] = None /\ ender[d] # None
      <4>1. Live(d) \subseteq {"end"}
        BY <2>2, <3>2 DEF Live
      <4> QED
        BY <4>1
    <3>3. CASE inner[d] = None /\ ender[d] = None
      <4>1. Live(d) = {w \in Workers : wk[d][w].pc \in WithNode}
        BY <3>3, DeviceLockConstants DEF Live
      <4>2. CASE Live(d) = {}
        BY <4>2
      <4>3. CASE Live(d) # {}
        <5>1. PICK w \in Workers : wk[d][w].pc \in WithNode
          BY <4>1, <4>3
        <5>2. Live(d) \subseteq {w}
          BY <2>2, <4>1, <5>1
        <5> QED
          BY <5>2
      <4> QED
        BY <4>2, <4>3
    <3> QED
      BY <3>1, <3>2, <3>3
  <2>4. Cardinality(Live(d)) <= 1
    BY <2>3, AtMostOne
  <2> QED
    BY <2>1, <2>4
<1>2. IInv => OneNode
  BY <1>1 DEF OneNode
<1> QED
  BY <1>2, Invariance, PTL

\* A phone whose node is there has the lock, unless a takeover took it: no start, check,
\* release or unanswered round trip of another phone writes over a record it does not own.
THEOREM LockHeld == Spec => []HeldUnlessTaken
<1>1. ASSUME IInv, NEW d \in Devices, Live(d) # {} PROVE Own(d) \/ d \in ousted \/ reset
  <2>1. Using(d)
    BY <1>1 DEF Live, Using
  <2> QED
    BY <1>1, <2>1 DEF IInv, Sound, UsingInv
<1>2. IInv => HeldUnlessTaken
  BY <1>1 DEF HeldUnlessTaken
<1> QED
  BY <1>2, Invariance, PTL

\* A phone with nothing running, its round trips answered, holds no lock: whoever took the
\* version out of the store still has it to give back.
THEOREM LockGivenBack == Spec => []NothingLeftHeld
<1>1. ASSUME IInv, NEW d \in Devices, faults = 0, Quiescent(d), Own(d) PROVE FALSE
  <2>1. op[d] = None /\ inner[d] = None /\ ender[d] = None /\ \A w \in Workers : wk[d][w].pc = "none"
    BY <1>1 DEF Quiescent, Live
  <2>2. slot[d] = store.ver /\ store # None
    BY <1>1, <2>1 DEF IInv, Sound, AnsweredInv, Own
  <2>3. store.ver \in Nat
    BY <1>1, <2>2 DEF IInv, TypeOK, Lock
  <2>4. slot[d] = None
    BY <1>1, <2>1, DeviceLockConstants DEF IInv, Sound, PhoneInv, SlotInv, Locked
  <2> QED
    BY <2>2, <2>3, <2>4, DeviceLockConstants
<1>2. IInv => NothingLeftHeld
  BY <1>1 DEF NothingLeftHeld
<1> QED
  BY <1>2, Invariance, PTL

\* Until the record is deleted under an ousted phone, that phone's check or release never lands
\* on the record that replaced its own (TakeoverNoticed without the reset that breaks it).
NoticedUnlessReset ==
    \A d \in Devices :
        /\ op[d] # None /\ op[d].kind \in {"refresh", "release"} /\ op'[d] # op[d]
        /\ store # None /\ store' # store
        => Own(d) \/ reset

\* A refresh or a release writes or deletes at a version its phone knows, and a version known is
\* that of the phone's own record as long as nothing reset the versions.
THEOREM TakeoverRespected == Spec => [][NoticedUnlessReset]_vars
<1>1. ASSUME IInv, Next PROVE NoticedUnlessReset
  <2> SUFFICES ASSUME NEW d \in Devices, op[d] # None, op[d].kind \in {"refresh", "release"},
                      op'[d] # op[d], store # None, store' # store
               PROVE  Own(d) \/ reset
    BY DEF NoticedUnlessReset
  <2>1. PICK e \in Devices : LockGet(e) \/ LockPut(e) \/ ReleaseDelete(e) \/ refresh(e)
    <3>1. ASSUME NEW e \in Devices, NEW w \in Workers,
                 \/ TakeClaim(e, w) \/ Probe(e, w) \/ TakeLock(e, w) \/ Build(e, w) \/ Install(e, w)
                 \/ spawn_lock_checker(e, w) \/ Unclaim(e, w) \/ StartTimeout(e, w)
          PROVE  FALSE
      BY <1>1, <3>1, WorkerStepSame DEF IInv, Untouched
    <3>2. ASSUME NEW e \in Devices,
                 \/ \E mode \in {"acquire", "takeover"} : start_impl(e, mode)
                 \/ release_lock(e) \/ stop(e) \/ EndRun(e) \/ refresh_lock(e) \/ lose_lock(e) \/ Die(e)
          PROVE  FALSE
      BY <3>2 DEF start_impl, release_lock, stop, EndRun, refresh_lock, lose_lock, Die, Untouched
    <3> QED
      BY <1>1, <3>1, <3>2 DEF Next, Work, App
  <2>2. d = e
    BY <1>1, <2>1 DEF LockGet, LockPut, LockFails, ReleaseDelete, refresh, Lost, IInv, TypeOK
  <2>3. CASE refresh(d)
    <3>1. Applies(op[d].ver)
      BY <2>3 DEF refresh, Put, PutUnanswered, Untouched
    <3>2. MayWrite(d)
      BY <1>1, <2>3, <3>1, PutMayWrite DEF IInv, refresh
    <3> QED
      BY <2>3, <3>2 DEF MayWrite, refresh
  <2>4. CASE ReleaseDelete(d)
    <3>1. Applies(op[d].ver)
      BY <2>4 DEF ReleaseDelete, Untouched
    <3> QED
      BY <1>1, <2>4, <3>1, DeleteOwn DEF IInv, ReleaseDelete
  <2> QED
    BY <2>1, <2>2, <2>3, <2>4 DEF LockGet, LockPut
<1>2. IInv /\ [Next]_vars => [NoticedUnlessReset]_vars
  BY <1>1
<1> QED
  BY <1>2, Invariance, PTL DEF Spec

=============================================================================

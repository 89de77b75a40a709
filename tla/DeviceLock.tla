----------------------------- MODULE DeviceLock -----------------------------
(***************************************************************************)
(* The Lightning nodes of one wallet on several phones (fortis-lightning   *)
(* node.rs and device.rs): on each phone, start workers, stop, the         *)
(* background check and the process-wide claim; between the phones, the    *)
(* device-lock record in the VSS store, written at expected versions.      *)
(*                                                                         *)
(* Every VSS round trip is a step of its own; a phone's lock mutex, held   *)
(* over the round trips of one lock operation, makes that operation `op`.  *)
(* A round trip may go unanswered, its write done or not, and a process    *)
(* may die: both are faults.  The ldk-node itself is only there or not.    *)
(***************************************************************************)
EXTENDS Integers, FiniteSets

CONSTANTS
    Devices,        \* the phones
    Workers,        \* start workers alive at once on a phone
    MaxCalls,       \* bound: starts, takeovers, stops and start timeouts
    MaxVersion,     \* bound: the record's version, for rewrites by its holder
    MaxFaults,      \* bound: unanswered round trips and deaths of a process
    None

\* The record in VSS, a start worker, and a lock operation, which works for a worker, a stop
\* or the check of the run of generation gen.
Lock == [dev : Devices, ver : Nat \ {0}]
Stage == {"none", "claim", "probe", "lock", "locking", "build", "start", "connect", "install",
          "drop", "unlock", "spawn", "unclaim"}
Worker == [pc : Stage, gen : Nat, mode : {"acquire", "takeover"}, held : Nat, awaited : BOOLEAN]
LockOp == [kind : {"acquire", "takeover", "release", "refresh"}, pc : {"get", "put", "delete"},
           ver : Nat, again : BOOLEAN, who : Workers \cup {"stop", "check"}, gen : Nat]

ASSUME DeviceLockConstants ==
    /\ {MaxCalls, MaxVersion, MaxFaults} \subseteq Nat
    /\ None \notin Nat \cup Lock \cup LockOp \cup {"stop", "release", "lost", "unclaim"}
    /\ Workers \cap {"stop", "check", "run", "end"} = {}

VARIABLES
    store,      \* the lock record in VSS: [dev, ver], or None
    gen,        \* phone -> generation
    inner,      \* phone -> generation of the installed node, or None
    slot,       \* phone -> version of the record it holds, or None
    claim,      \* phone -> the process-wide claim: none, starting, running, stopping
    wk,         \* phone -> worker -> [pc, gen, mode, held, awaited]: held is its LockGuard's
                \* version, awaited whether the caller still waits for its answer
    ender,      \* phone -> what a stop or a lost lock has left to do
    checker,    \* phone -> generation the background check is for, or None
    losing,     \* phone -> generation whose lock was found lost, or None
    op,         \* phone -> lock operation under way: [kind, pc, ver, again, who, gen], or None
    ousted,     \* phones whose record a takeover replaced since they took it
    reset,      \* the record was deleted while an ousted phone still knew its version
    calls, faults

vars == <<store, gen, inner, slot, claim, wk, ender, checker, losing, op, ousted, reset, calls, faults>>

NoWorker == [pc |-> "none", gen |-> 0, mode |-> "acquire", held |-> 0, awaited |-> FALSE]
Own(d) == store # None /\ store.dev = d

\* The ldk-nodes of a phone's process that are built and not stopped.
WithNode == {"start", "connect", "install", "drop"}
Live(d) == {w \in Workers : wk[d][w].pc \in WithNode}
           \cup (IF inner[d] # None THEN {"run"} ELSE {})
           \cup (IF ender[d] \in {"stop", "lost"} THEN {"end"} ELSE {})

Quiescent(d) == Live(d) = {} /\ ender[d] = None /\ op[d] = None /\ \A w \in Workers : wk[d][w].pc = "none"

Call == calls < MaxCalls /\ calls' = calls + 1
Fault == faults < MaxFaults /\ faults' = faults + 1

-----------------------------------------------------------------------------
(* The store: conditional writes *)

Applies(ver) == IF ver = 0 THEN store = None ELSE store # None /\ store.ver = ver

Written(d, ver) ==
    /\ store' = [dev |-> d, ver |-> ver + 1]
    /\ ousted' = IF op[d].kind = "takeover" /\ store # None /\ ~Own(d)
                 THEN (ousted \cup {store.dev}) \ {d} ELSE ousted \ {d}
    /\ UNCHANGED reset

Deleted ==
    /\ store' = None
    /\ reset' = (reset \/ \E e \in ousted : Live(e) # {} \/ slot[e] # None \/ op[e] # None)
    /\ UNCHANGED ousted

Untouched == UNCHANGED <<store, ousted, reset>>

\* A put that is answered (done or refused), and one that is not.
Put(d, ver, ok) == /\ ok = Applies(ver) /\ UNCHANGED faults
                   /\ IF ok THEN Written(d, ver) ELSE Untouched
PutUnanswered(d, ver) == Fault /\ (Untouched \/ (Applies(ver) /\ Written(d, ver)))

-----------------------------------------------------------------------------
(* Starting *)

Move(d, w, pc) == wk' = [wk EXCEPT ![d][w].pc = pc]
At(d, w, pc) == wk[d][w].pc = pc

\* start_with and takeover: nothing to do, or refused, when a node runs.
start_impl(d, mode) ==
    /\ inner[d] = None /\ Call
    /\ \E w \in Workers : At(d, w, "none")
    /\ LET w == CHOOSE w \in Workers : At(d, w, "none")
       IN  wk' = [wk EXCEPT ![d][w] = [pc |-> "claim", gen |-> gen[d], mode |-> mode, held |-> 0,
                                          awaited |-> TRUE]]
    /\ Untouched /\ UNCHANGED <<gen, inner, slot, claim, ender, checker, losing, op, faults>>

\* The caller's deadline passes with nothing installed: every token goes stale, that of a
\* later start too.
StartTimeout(d, w) ==
    /\ wk[d][w].awaited /\ inner[d] = None /\ Call
    /\ gen' = [gen EXCEPT ![d] = @ + 1]
    /\ wk' = [wk EXCEPT ![d][w].awaited = FALSE]
    /\ Untouched /\ UNCHANGED <<inner, slot, claim, ender, checker, losing, op, faults>>

\* checkpoint: the token is stale or a node is installed.
Halt(d, w) == gen[d] # wk[d][w].gen \/ inner[d] # None

FaultClaimFree(d) == claim[d] \in {"none", "stopping"}
ClaimFree(d) == claim[d] = "none"

\* claim: taken, or given up (halted, another node running, or the deadline).
TakeClaim(d, w) ==
    /\ At(d, w, "claim")
    /\ \/ /\ ~Halt(d, w) /\ ClaimFree(d)
          /\ claim' = [claim EXCEPT ![d] = "starting"] /\ Move(d, w, "probe")
       \/ /\ Halt(d, w) \/ ~ClaimFree(d)
          /\ wk' = [wk EXCEPT ![d][w] = NoWorker] /\ UNCHANGED claim
    /\ Untouched /\ UNCHANGED <<gen, inner, slot, ender, checker, losing, op, calls, faults>>

\* probe_lsp and the checkpoint after it.
Probe(d, w) ==
    /\ At(d, w, "probe")
    /\ \/ ~Halt(d, w) /\ Move(d, w, "lock")
       \/ Move(d, w, "unclaim")
    /\ Untouched /\ UNCHANGED <<gen, inner, slot, claim, ender, checker, losing, op, calls, faults>>

\* take_lock: under the lock mutex for the whole operation.
TakeLock(d, w) ==
    /\ At(d, w, "lock") /\ op[d] = None
    /\ op' = [op EXCEPT ![d] = [kind |-> wk[d][w].mode, pc |-> "get", ver |-> 0, again |-> FALSE,
                                   who |-> w, gen |-> 0]]
    /\ Move(d, w, "locking")
    /\ Untouched /\ UNCHANGED <<gen, inner, slot, claim, ender, checker, losing, calls, faults>>

LockFails(d) ==
    /\ op' = [op EXCEPT ![d] = None]
    /\ wk' = [wk EXCEPT ![d][op[d].who].pc = "unclaim"]
    /\ UNCHANGED slot

\* Whose record `acquire` may write over.
FaultMine(d) == TRUE
Mine(d) == store = None \/ Own(d)

\* acquire and takeover, the read.
LockGet(d) ==
    /\ op[d] # None /\ op[d].kind \in {"acquire", "takeover"} /\ op[d].pc = "get"
    /\ \/ /\ op[d].kind = "takeover" \/ Mine(d)
          /\ op' = [op EXCEPT ![d].pc = "put", ![d].ver = IF store = None THEN 0 ELSE store.ver]
          /\ UNCHANGED <<wk, slot, faults>>
       \/ op[d].kind = "acquire" /\ ~Mine(d) /\ LockFails(d) /\ UNCHANGED faults
       \/ LockFails(d) /\ Fault
    /\ Untouched /\ UNCHANGED <<gen, inner, claim, ender, checker, losing, calls>>

\* ... and the write at the version read; acquire reads once more after a conflict.
LockPut(d) ==
    LET ver == op[d].ver
    IN  /\ op[d] # None /\ op[d].kind \in {"acquire", "takeover"} /\ op[d].pc = "put"
        /\ \/ /\ Put(d, ver, TRUE)
              /\ slot' = [slot EXCEPT ![d] = ver + 1]
              /\ op' = [op EXCEPT ![d] = None]
              /\ wk' = [wk EXCEPT ![d][op[d].who].pc = "build", ![d][op[d].who].held = ver + 1]
           \/ /\ Put(d, ver, FALSE)
              /\ IF op[d].kind = "acquire" /\ ~op[d].again
                 THEN op' = [op EXCEPT ![d].pc = "get", ![d].again = TRUE] /\ UNCHANGED <<wk, slot>>
                 ELSE LockFails(d)
           \/ PutUnanswered(d, ver) /\ LockFails(d)
        /\ UNCHANGED <<gen, inner, claim, ender, checker, losing, calls>>

\* Build, start and connect, each after a checkpoint; each may fail. A built node that is
\* not installed is stopped before the lock is released.
Build(d, w) ==
    /\ \/ At(d, w, "build") /\ ((~Halt(d, w) /\ Move(d, w, "start")) \/ Move(d, w, "unlock"))
       \/ At(d, w, "start") /\ ((~Halt(d, w) /\ Move(d, w, "connect")) \/ Move(d, w, "drop"))
       \/ At(d, w, "connect") /\ ((~Halt(d, w) /\ Move(d, w, "install")) \/ Move(d, w, "drop"))
       \/ At(d, w, "drop") /\ Move(d, w, "unlock")
    /\ Untouched /\ UNCHANGED <<gen, inner, slot, claim, ender, checker, losing, op, calls, faults>>

MayInstall(d, w) == gen[d] = wk[d][w].gen /\ inner[d] = None

\* run, the end: under the lock of `inner`.
Install(d, w) ==
    /\ At(d, w, "install")
    /\ IF MayInstall(d, w)
       THEN /\ inner' = [inner EXCEPT ![d] = wk[d][w].gen]
            /\ claim' = [claim EXCEPT ![d] = "running"]
            /\ Move(d, w, "spawn")
       ELSE Move(d, w, "drop") /\ UNCHANGED <<inner, claim>>
    /\ Untouched /\ UNCHANGED <<gen, slot, ender, checker, losing, op, calls, faults>>

\* spawn_lock_checker: unless the run is over already.
spawn_lock_checker(d, w) ==
    /\ At(d, w, "spawn")
    /\ checker' = IF gen[d] = wk[d][w].gen /\ inner[d] # None
                  THEN [checker EXCEPT ![d] = gen[d]] ELSE checker
    /\ wk' = [wk EXCEPT ![d][w] = NoWorker]
    /\ Untouched /\ UNCHANGED <<gen, inner, slot, claim, ender, losing, op, calls, faults>>

Unclaim(d, w) ==
    /\ At(d, w, "unclaim")
    /\ claim' = [claim EXCEPT ![d] = "none"]
    /\ wk' = [wk EXCEPT ![d][w] = NoWorker]
    /\ Untouched /\ UNCHANGED <<gen, inner, slot, ender, checker, losing, op, calls, faults>>

-----------------------------------------------------------------------------
(* Releasing *)

\* What a start that gives up holds (LockGuard), and what a stop releases.
FaultGivesBack(d) == {"stop"}
GivesBack(d) == {"stop"} \cup {w \in Workers : wk[d][w].held = slot[d]}

\* Where the releasing thread goes on.
Released(d, who) ==
    IF who = "stop" THEN ender' = [ender EXCEPT ![d] = "unclaim"] /\ UNCHANGED wk
                    ELSE Move(d, who, "unclaim") /\ UNCHANGED ender

\* release_lock_if: the slot is emptied first, then the record deleted at the version held.
release_lock(d) ==
    /\ op[d] = None
    /\ \E who \in {"stop"} \cup Workers :
           /\ IF who = "stop" THEN ender[d] = "release" ELSE At(d, who, "unlock")
           /\ IF slot[d] = None \/ who \notin GivesBack(d)
              THEN Released(d, who) /\ UNCHANGED <<op, slot>>
              ELSE /\ op' = [op EXCEPT ![d] = [kind |-> "release", pc |-> "delete", ver |-> slot[d],
                                               again |-> FALSE, who |-> who, gen |-> 0]]
                   /\ slot' = [slot EXCEPT ![d] = None]
                   /\ UNCHANGED <<wk, ender>>
    /\ Untouched /\ UNCHANGED <<gen, inner, claim, checker, losing, calls, faults>>

\* release: a conflict is left alone, no answer is no matter.
ReleaseDelete(d) ==
    /\ op[d] # None /\ op[d].kind = "release"
    /\ \/ Applies(op[d].ver) /\ Deleted /\ UNCHANGED faults
       \/ ~Applies(op[d].ver) /\ Untouched /\ UNCHANGED faults
       \/ Fault /\ (Untouched \/ (Applies(op[d].ver) /\ Deleted))
    /\ op' = [op EXCEPT ![d] = None]
    /\ Released(d, op[d].who)
    /\ UNCHANGED <<gen, inner, slot, claim, checker, losing, calls>>

\* stop: cancels starts and takes the node out; the node is stopped, the lock released and
\* only then the claim dropped.
stop(d) ==
    /\ ~Quiescent(d) /\ Call
    /\ gen' = [gen EXCEPT ![d] = @ + 1]
    /\ checker' = [checker EXCEPT ![d] = None]
    /\ inner' = [inner EXCEPT ![d] = None]
    /\ IF inner[d] # None
       THEN ender' = [ender EXCEPT ![d] = "stop"] /\ claim' = [claim EXCEPT ![d] = "stopping"]
       ELSE UNCHANGED <<ender, claim>>
    /\ Untouched /\ UNCHANGED <<slot, wk, losing, op, faults>>

EndRun(d) ==
    /\ \/ ender[d] = "stop" /\ ender' = [ender EXCEPT ![d] = "release"] /\ UNCHANGED claim
       \/ ender[d] = "lost" /\ ender' = [ender EXCEPT ![d] = "unclaim"] /\ UNCHANGED claim
       \/ /\ ender[d] = "unclaim" /\ ender' = [ender EXCEPT ![d] = None]
          /\ claim' = [claim EXCEPT ![d] = "none"]
    /\ Untouched /\ UNCHANGED <<gen, inner, slot, wk, checker, losing, op, calls, faults>>

-----------------------------------------------------------------------------
(* Checking, in the background and before an action *)

\* refresh_lock for generation g: nothing to check once the run is over.
refresh_lock(d) ==
    /\ op[d] = None
    /\ \E g \in {checker[d], inner[d]} \ {None} :
           /\ gen[d] = g /\ slot[d] # None
           /\ Applies(slot[d]) => store.ver < MaxVersion
           /\ op' = [op EXCEPT ![d] = [kind |-> "refresh", pc |-> "put", ver |-> slot[d],
                                       again |-> FALSE, who |-> "check", gen |-> g]]
    /\ Untouched /\ UNCHANGED <<gen, inner, slot, claim, wk, ender, checker, losing, calls, faults>>

\* refresh: rewrite at the version held; on a conflict re-read, adopt our own newer record and
\* write again. Another device's record, or none, is a lost lock.
FaultLost(d) ==
    /\ slot' = [slot EXCEPT ![d] = None]
    /\ op' = [op EXCEPT ![d] = None]
    /\ UNCHANGED losing
Lost(d) ==
    /\ slot' = [slot EXCEPT ![d] = None]
    /\ losing' = [losing EXCEPT ![d] = op[d].gen]
    /\ op' = [op EXCEPT ![d] = None]

refresh(d) ==
    LET o == op[d]
        Keep == op' = [op EXCEPT ![d] = None] /\ UNCHANGED <<slot, losing>>
    IN  /\ o # None /\ o.kind = "refresh"
        /\ \/ /\ o.pc = "put" /\ Put(d, o.ver, TRUE)
              /\ slot' = [slot EXCEPT ![d] = o.ver + 1]
              /\ op' = [op EXCEPT ![d] = None] /\ UNCHANGED losing
           \/ /\ o.pc = "put" /\ Put(d, o.ver, FALSE)
              /\ IF o.again THEN Lost(d)
                 ELSE op' = [op EXCEPT ![d].pc = "get"] /\ UNCHANGED <<slot, losing>>
           \/ o.pc = "put" /\ PutUnanswered(d, o.ver) /\ Keep
           \/ /\ o.pc = "get" /\ Untouched /\ UNCHANGED faults
              /\ IF ~Own(d) THEN Lost(d)
                 ELSE /\ slot' = [slot EXCEPT ![d] = store.ver]
                      /\ op' = [op EXCEPT ![d].pc = "put", ![d].ver = store.ver, ![d].again = TRUE]
                      /\ UNCHANGED losing
           \/ o.pc = "get" /\ Fault /\ Untouched /\ Keep
        /\ UNCHANGED <<gen, inner, claim, wk, ender, checker, calls>>

\* lose_lock: uninstalls that run, unless it is over; whoever found out stops the node.
lose_lock(d) ==
    /\ losing[d] # None
    /\ losing' = [losing EXCEPT ![d] = None]
    /\ IF gen[d] = losing[d] /\ inner[d] # None
       THEN /\ gen' = [gen EXCEPT ![d] = @ + 1]
            /\ checker' = [checker EXCEPT ![d] = None]
            /\ inner' = [inner EXCEPT ![d] = None]
            /\ claim' = [claim EXCEPT ![d] = "stopping"]
            /\ ender' = [ender EXCEPT ![d] = "lost"]
       ELSE UNCHANGED <<gen, checker, inner, claim, ender>>
    /\ Untouched /\ UNCHANGED <<slot, wk, op, calls, faults>>

\* The process dies: only the record in VSS is left.
Die(d) ==
    /\ ~Quiescent(d) /\ Fault
    /\ gen' = [gen EXCEPT ![d] = 0] /\ inner' = [inner EXCEPT ![d] = None]
    /\ slot' = [slot EXCEPT ![d] = None] /\ claim' = [claim EXCEPT ![d] = "none"]
    /\ wk' = [wk EXCEPT ![d] = [w \in Workers |-> NoWorker]]
    /\ ender' = [ender EXCEPT ![d] = None] /\ checker' = [checker EXCEPT ![d] = None]
    /\ losing' = [losing EXCEPT ![d] = None] /\ op' = [op EXCEPT ![d] = None]
    /\ Untouched /\ UNCHANGED calls

-----------------------------------------------------------------------------
Init ==
    /\ store = None /\ ousted = {} /\ reset = FALSE /\ calls = 0 /\ faults = 0
    /\ gen = [d \in Devices |-> 0] /\ claim = [d \in Devices |-> "none"]
    /\ inner = [d \in Devices |-> None] /\ slot = [d \in Devices |-> None]
    /\ wk = [d \in Devices |-> [w \in Workers |-> NoWorker]]
    /\ ender = [d \in Devices |-> None] /\ checker = [d \in Devices |-> None]
    /\ losing = [d \in Devices |-> None] /\ op = [d \in Devices |-> None]

\* What the phone's threads do by themselves.
Work(d) ==
    \/ \E w \in Workers :
           \/ TakeClaim(d, w) \/ Probe(d, w) \/ TakeLock(d, w) \/ Build(d, w) \/ Install(d, w)
           \/ spawn_lock_checker(d, w) \/ Unclaim(d, w)
    \/ LockGet(d) \/ LockPut(d) \/ release_lock(d) \/ ReleaseDelete(d) \/ EndRun(d)
    \/ refresh(d) \/ lose_lock(d)

\* What the app and the user do: calls, and the check before an action.
App(d) ==
    \/ \E mode \in {"acquire", "takeover"} : start_impl(d, mode)
    \/ \E w \in Workers : StartTimeout(d, w)
    \/ stop(d)

Next == \E d \in Devices : Work(d) \/ refresh_lock(d) \/ App(d) \/ Die(d)

Spec == Init /\ [][Next]_vars

\* Threads run to their end and the background check comes round again.
FairSpec == Spec /\ \A d \in Devices : WF_vars(Work(d)) /\ WF_vars(checker[d] # None /\ refresh_lock(d))

-----------------------------------------------------------------------------
(* Properties *)

\* Every variable has its type.
TypeOK ==
    /\ store \in Lock \cup {None} /\ ousted \subseteq Devices /\ reset \in BOOLEAN
    /\ gen \in [Devices -> Nat] /\ calls \in Nat /\ faults \in Nat
    /\ inner \in [Devices -> Nat \cup {None}] /\ slot \in [Devices -> Nat \cup {None}]
    /\ checker \in [Devices -> Nat \cup {None}] /\ losing \in [Devices -> Nat \cup {None}]
    /\ claim \in [Devices -> {"none", "starting", "running", "stopping"}]
    /\ wk \in [Devices -> [Workers -> Worker]]
    /\ ender \in [Devices -> {None, "stop", "release", "lost", "unclaim"}]
    /\ op \in [Devices -> LockOp \cup {None}]

\* A process never has two ldk-nodes of the wallet at once, whatever starts, timeouts, stops
\* and lost locks overlap ("One ldk-node per wallet", node.rs), and the one installed is of the
\* current generation: a start that was cancelled meanwhile installs nothing.
OneNode == \A d \in Devices : Cardinality(Live(d)) <= 1 /\ inner[d] \in {None, gen[d]}

\* A phone whose node is there has the lock, unless a takeover took it: two phones run at once
\* only in the window after a takeover.
HeldUnlessTaken == \A d \in Devices : Live(d) # {} => Own(d) \/ d \in ousted \/ reset

\* A phone with nothing running holds no lock: every start that gives up and every stop gave
\* it back, if its round trips were answered ("needs no takeover", node.rs).
NothingLeftHeld == \A d \in Devices : faults = 0 /\ Quiescent(d) => ~Own(d)

\* The old phone stops: after a takeover its node does not stay.
OldDeviceStops == []<>(\A d \in ousted : Live(d) = {} \/ reset)

\* The old phone's check, or its release, never lands on the record that replaced its own
\* ("It notices the takeover at its next check", node.rs; "exactly one write lands", device.rs).
TakeoverNoticed ==
    [][\A d \in Devices :
           /\ op[d] # None /\ op[d].kind \in {"refresh", "release"} /\ op'[d] # op[d]
           /\ store # None /\ store' # store
           => Own(d)]_vars

=============================================================================

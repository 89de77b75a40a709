----------------------------- MODULE SwapEngine -----------------------------
(***************************************************************************)
(* The two phones of one matched swap (android .../swap/SwapEngine.kt over *)
(* wallet-ffi's SwapSession and wallet-core's SwapMachine), each driving   *)
(* its saved record a step at a time, with the edge's match, its           *)
(* watchtower and the two chains around them.                              *)
(*                                                                         *)
(* A phone's step is cut where it sends something out: what it sent and    *)
(* what it saves next are two actions, and a stop of the process or the    *)
(* step's time limit in between loses the second.  The edge's answer about *)
(* a chain may be wrong, and so may its reply that a funding will never be *)
(* taken; an independent explorer's answer is right or absent, and an      *)
(* absent one ends the step as a stop does.  Wrong answers, refused calls, *)
(* stops, evictions and double-spent coins share one budget.               *)
(***************************************************************************)
EXTENDS Integers, FiniteSets

CONSTANTS
    Txs,            \* the fundings a phone may sign
    AcceptBy, InitiatorFundBy, ParticipantFundBy,
    BtcLock, XbtLock,   \* the legs' locktimes
    RedeemMargin,   \* REDEEM_MARGIN_SECS
    MaxTime,        \* bound: the clock
    MaxFaults,      \* bound: things that go wrong
    None

\* What the phones, the edge and the chains keep.
Phones == {"I", "P"}
Tx == Txs \cup {None}
Spend == [kind : {"redeem", "refund", "release"}, st : {"pool", "mined"}]
Status == {"proposed", "accepted", "initiator_funded", "both_funded", "cancelled", "closed"}
Info == [status : Status, xbt : Tx, btc : Tx]
Match == [status : Status, xbt : Tx, btc : Tx, accepted : SUBSET Phones, asked : BOOLEAN,
          sigs : BOOLEAN, missed : BOOLEAN]
Record == [step : {"MATCHED", "NEED_FUNDING", "FUNDED", "THEY_FUNDED", "REDEEMED", "DONE", "REFUNDING",
                   "REFUNDED", "CANCELLED", "FAILED", "WAITING_MATCH"},
           marks : SUBSET {"close", "walk_away", "accepted", "counterparty", "refund_watched",
                           "funded_posted", "redeem_watched", "release_asked", "released",
                           "release_signed", "release_none"},
           pending : Tx, funding : Tx, rejected : SUBSET Txs, their : Tx, redeemed : BOOLEAN]
Pc == {"idle", "walked", "review", "accepted", "poll", "their", "fund", "send", "sent", "after",
       "redeem", "release", "redeemed", "refunded", "released", "signed"}

ASSUME SwapEngineConstants ==
    /\ None \notin Txs \cup Spend \cup Info
    /\ {AcceptBy, InitiatorFundBy, ParticipantFundBy, BtcLock, XbtLock, RedeemMargin,
        MaxTime, MaxFaults} \subseteq Nat
    /\ BtcLock < XbtLock /\ XbtLock <= MaxTime

VARIABLES
    now,        \* the clock
    fund,       \* phone -> funding -> none, signed, pool, mined, deep or dead
    spend,      \* phone -> the spend of its HTLC: [kind, st], or None
    match,      \* the edge's match: [status, xbt, btc, accepted, asked, sigs, missed]
    tower,      \* the jobs the edge's watchtower holds
    rec,        \* phone -> its saved record
    run,        \* phone -> its step under way: [pc, info]
    misled,     \* history: phone -> the fundings it gave up that can still land
    faults

vars == <<now, fund, spend, match, tower, rec, run, misled, faults>>

Other(p) == IF p = "I" THEN "P" ELSE "I"
Lock(p) == IF p = "I" THEN XbtLock ELSE BtcLock

-----------------------------------------------------------------------------
(* The chains *)

OnChain(p) == {x \in Txs : fund[p][x] \in {"pool", "mined", "deep"}}
Mined(p) == spend[p] # None /\ spend[p].st = "mined"
InPool(kind) == [kind |-> kind, st |-> "pool"]

\* p's HTLC is the output its record names: of the two fundings that may land after a wrong
\* rejection, the one found first.
Htlc(p) == OnChain(p) \cap {rec[p].funding}

\* What spends p's HTLC after a spend of this kind was broadcast: a spend in the mempool
\* may be replaced, a mined one stays.
Broadcast(p, kind) ==
    IF Mined(p) \/ Htlc(p) = {} THEN {spend[p]} ELSE {InPool(kind)} \cup ({spend[p]} \ {None})

Sent(p, kind) == \E s \in Broadcast(p, kind) : spend' = [spend EXCEPT ![p] = s]
Took(p, kind) == spend'[p] # None /\ spend'[p].kind = kind

-----------------------------------------------------------------------------
(* A phone's record and its step *)

Fresh == [step |-> "MATCHED", marks |-> {}, pending |-> None, funding |-> None,
          rejected |-> {}, their |-> None, redeemed |-> FALSE]
NoStep == [pc |-> "idle", info |-> None]

active(p) == rec[p].step \notin {"DONE", "REFUNDED", "CANCELLED", "FAILED", "WAITING_MATCH"}
At(p, pc) == run[p].pc = pc
Has(p, m) == m \in rec[p].marks
Funded(p) == rec[p].funding # None
ended == {"cancelled", "closed"}

Save(p, r) == rec' = [rec EXCEPT ![p] = r]
Mark(p, m) == Save(p, [rec[p] EXCEPT !.marks = @ \cup {m}])
Goto(p, pc) == run' = [run EXCEPT ![p].pc = pc]
EndStep(p) == run' = [run EXCEPT ![p] = NoStep]

\* n of the things that may go wrong did.
Cost(n) == faults + n <= MaxFaults /\ faults' = faults + n
Wrong(said, is) == IF said = is THEN 0 ELSE 1

\* Nothing of ours is, or may yet be, on chain: no funding recorded and none signed.
unfunded(p) == rec[p].funding = None /\ rec[p].pending = None

\* The edge's word about a chain counts once an independent explorer says the same.
FaultAgreed(edge, explorer) == edge
Agreed(edge, explorer) == edge /\ explorer

-----------------------------------------------------------------------------
(* Leaving an unfunded swap *)

\* closeUnfunded: the decision is saved; taking the offer down may have to be retried.
closeUnfunded(p, step) ==
    /\ unfunded(p)
    /\ \/ Save(p, [rec[p] EXCEPT !.step = step, !.marks = @ \ {"close"}]) /\ Cost(0)
       \/ Mark(p, "close") /\ Cost(1)

resumeClose(p) ==
    /\ At(p, "idle") /\ active(p) /\ Has(p, "close")
    /\ closeUnfunded(p, "CANCELLED")
    /\ UNCHANGED <<now, fund, spend, match, tower, run, misled>>

\* matchEnded: stop if we walked away, else follow the offer again (refollow) if the edge
\* reopened it and no funding was ever rejected.
matchEnded(p) ==
    /\ unfunded(p)
    /\ \/ closeUnfunded(p, "CANCELLED")
       \/ /\ ~Has(p, "walk_away") /\ rec[p].rejected = {}
          /\ Save(p, [Fresh EXCEPT !.step = "WAITING_MATCH"]) /\ Cost(0)

-----------------------------------------------------------------------------
(* Chain work, before the edge is asked *)

\* participantRedeem: our BTC HTLC was spent with the preimage: redeem the XBT, unless
\* the edge says it is spent.
SeesPreimage == spend["P"] # None /\ spend["P"].kind = "redeem"
participantRedeem ==
    /\ At("P", "idle") /\ active("P") /\ Funded("P") /\ rec["P"].step # "REDEEMED"
    /\ rec["P"].their # None /\ SeesPreimage
    /\ rec["P"].step = "REFUNDING" \/ now < BtcLock
    /\ \E there \in BOOLEAN :
           /\ Cost(Wrong(there, spend["I"] = None))
           /\ IF there
              THEN /\ Sent("I", "redeem") /\ UNCHANGED rec
                   /\ IF Took("I", "redeem") THEN Goto("P", "redeemed") ELSE EndStep("P")
              ELSE /\ Save("P", [rec["P"] EXCEPT !.step = "REDEEMED"])
                   /\ UNCHANGED <<spend, run>>
    /\ UNCHANGED <<now, fund, match, tower, misled>>

Redeemed(p) ==
    /\ At(p, "redeemed")
    /\ \/ p = "P" /\ Save(p, [rec[p] EXCEPT !.redeemed = TRUE, !.step = "REDEEMED"])
                  /\ EndStep(p) /\ UNCHANGED <<tower, faults>>
       \* the initiator saves, hands the redeem to the watchtower and saves again
       \/ p = "I" /\ \/ /\ Save(p, [rec[p] EXCEPT !.redeemed = TRUE, !.step = "REDEEMED",
                                                  !.marks = @ \cup {"redeem_watched"}])
                        /\ tower' = tower \cup {<<"I", "redeem">>} /\ Cost(0)
                     \/ /\ Save(p, [rec[p] EXCEPT !.redeemed = TRUE])
                        /\ UNCHANGED tower /\ Cost(1)
                  /\ EndStep(p)
    /\ UNCHANGED <<now, fund, spend, match, misled>>

\* refundIfDue: past our locktime. Spent, the explorer agreeing: follow it as our refund.
refundIfDue(p) ==
    /\ At(p, "idle") /\ active(p) /\ Funded(p) /\ now >= Lock(p)
    /\ rec[p].step \notin {"REFUNDING", "REDEEMED"}
    /\ \E gone \in BOOLEAN :
           /\ Cost(Wrong(gone, spend[p] # None))
           /\ IF Agreed(gone, spend[p] # None)
              THEN Save(p, [rec[p] EXCEPT !.step = "REFUNDING"]) /\ UNCHANGED <<spend, run>>
              ELSE /\ Sent(p, "refund") /\ UNCHANGED rec
                   /\ IF Took(p, "refund") THEN Goto(p, "refunded") ELSE EndStep(p)
    /\ UNCHANGED <<now, fund, match, tower, misled>>

Refunded(p) ==
    /\ At(p, "refunded")
    /\ Save(p, [rec[p] EXCEPT !.step = "REFUNDING"])
    /\ EndStep(p)
    /\ UNCHANGED <<now, fund, spend, match, tower, misled, faults>>

\* A spend without the preimage is our own: the refund or the release.
FaultOurSpend(p) == Mined(p) /\ spend[p].kind = "refund"
OurSpend(p) == Mined(p) /\ spend[p].kind # "redeem"

\* refundProgress: settle, or send the release or the refund again.
refundProgress(p) ==
    /\ At(p, "idle") /\ rec[p].step = "REFUNDING"
    /\ ~(p = "P" /\ rec[p].their # None /\ SeesPreimage)
    /\ \E confirmed \in BOOLEAN :
           /\ Cost(Wrong(confirmed, Mined(p)))
           /\ IF Agreed(confirmed, OurSpend(p))
              THEN Save(p, [rec[p] EXCEPT !.step = "REFUNDED"]) /\ UNCHANGED spend
              ELSE /\ UNCHANGED rec
                   /\ IF now < Lock(p) THEN Has(p, "released") /\ spend[p] = None /\ Sent(p, "release")
                                       ELSE Sent(p, "refund")
    /\ UNCHANGED <<now, fund, match, tower, run, misled>>

\* doneCheck: done once the spend is confirmed at both, and the initiator's is its own;
\* until then the initiator sends its redeem again (bumpRedeem).
FaultDoneStep(p) == "DONE"
DoneStep(p) == IF p = "I" /\ spend["P"].kind # "redeem" THEN "THEY_FUNDED" ELSE "DONE"

doneCheck(p) ==
    LET o == Other(p)
    IN  /\ At(p, "idle") /\ rec[p].step = "REDEEMED"
        /\ \E confirmed \in BOOLEAN :
               /\ Cost(Wrong(confirmed, Mined(o)))
               /\ IF Agreed(confirmed, Mined(o))
                  THEN Save(p, [rec[p] EXCEPT !.step = DoneStep(p)]) /\ UNCHANGED spend
                  ELSE p = "I" /\ Sent(o, "redeem") /\ UNCHANGED rec
        /\ UNCHANGED <<now, fund, match, tower, run, misled>>

-----------------------------------------------------------------------------
(* The match *)

\* What one read of the match decides, in the order of advance().
AfterRead(p, info) ==
    CASE p = "I" /\ Funded(p) /\ rec[p].their = None /\ info.status = "cancelled"
             /\ info.btc = None /\ now < XbtLock -> "release"
      [] unfunded(p) /\ Has(p, "walk_away") -> "walked"
      [] ~Has(p, "accepted") -> "review"
      [] ~Has(p, "counterparty") -> "poll"
      [] OTHER -> IF p = "P" THEN "their" ELSE IF Funded(p) THEN "after" ELSE "fund"

ReadMatch(p) ==
    LET info == [status |-> match.status, xbt |-> match.xbt, btc |-> match.btc]
    IN  /\ At(p, "idle") /\ active(p) /\ ~Has(p, "close")
        /\ rec[p].step \notin {"REFUNDING", "REDEEMED"}
        /\ Funded(p) => now < Lock(p)
        /\ ~(p = "P" /\ Funded(p) /\ rec[p].their # None /\ SeesPreimage)
        /\ run' = [run EXCEPT ![p] = [pc |-> AfterRead(p, info), info |-> info]]
        /\ UNCHANGED <<now, fund, spend, match, tower, rec, misled, faults>>

\* Too late to decline: never fund, and stop once the match has ended.
Walked(p) ==
    /\ At(p, "walked") /\ EndStep(p)
    /\ IF run[p].info.status \in ended THEN matchEnded(p) ELSE UNCHANGED <<rec, faults>>
    /\ UNCHANGED <<now, fund, spend, match, tower, misled>>

\* review: accept the terms and post our keys, or refuse them: terms seen too late always. The
\* edge may have ended the match meanwhile, or take no decline any more.
review(p) ==
    /\ At(p, "review")
    /\ \/ /\ run[p].info.status \in ended
          /\ matchEnded(p) /\ EndStep(p) /\ UNCHANGED match
       \/ /\ run[p].info.status \notin ended /\ match.status \in ended
          /\ EndStep(p) /\ UNCHANGED <<match, rec, faults>>
       \/ /\ run[p].info.status \notin ended /\ match.status \notin ended /\ now <= AcceptBy
          /\ match' = [match EXCEPT !.accepted = @ \cup {p},
                         !.status = IF @ = "proposed" /\ match.accepted \cup {p} = Phones
                                    THEN "accepted" ELSE @]
          /\ Goto(p, "accepted") /\ UNCHANGED <<rec, faults>>
       \/ /\ run[p].info.status \notin ended
          /\ IF match.status = "proposed"
             THEN match' = [match EXCEPT !.status = "cancelled"] /\ closeUnfunded(p, "CANCELLED")
             ELSE Mark(p, "walk_away") /\ UNCHANGED <<match, faults>>
          /\ EndStep(p)
    /\ UNCHANGED <<now, fund, spend, tower, misled>>

Accepted(p) ==
    /\ At(p, "accepted")
    /\ Mark(p, "accepted") /\ Goto(p, "poll")
    /\ UNCHANGED <<now, fund, spend, match, tower, misled, faults>>

\* pollRelay: the counterparty's keys and the hashlock; a decline ends the match.
pollRelay(p) ==
    /\ At(p, "poll")
    /\ IF Other(p) \in match.accepted
       THEN /\ Mark(p, "counterparty") /\ UNCHANGED faults
            /\ Goto(p, IF p = "P" THEN "their" ELSE IF Funded(p) THEN "after" ELSE "fund")
       ELSE /\ EndStep(p)
            /\ IF unfunded(p) /\ (run[p].info.status \in ended \/ match.status = "cancelled")
               THEN matchEnded(p) ELSE UNCHANGED <<rec, faults>>
    /\ UNCHANGED <<now, fund, spend, match, tower, misled>>

\* theirFunding: exactly the agreed contract, unspent, with the confirmations.
theirFunding(p) ==
    LET o == Other(p)
        x == IF p = "I" THEN run[p].info.btc ELSE run[p].info.xbt
        real == x # None /\ fund[o][x] = "deep" /\ spend[o] = None
    IN  /\ At(p, "their")
        /\ \E said \in BOOLEAN :
               /\ Cost(IF x = None \/ rec[p].their # None THEN 0 ELSE Wrong(said, real))
               /\ IF x # None /\ rec[p].their = None /\ Agreed(said, real)
                  THEN Save(p, [rec[p] EXCEPT !.their = x,
                                    !.step = IF p = "I" THEN "THEY_FUNDED" ELSE @])
                  ELSE UNCHANGED rec
        /\ run' = IF p = "P" THEN [run EXCEPT ![p].pc = IF Funded(p) THEN "after" ELSE "fund"]
                  ELSE IF rec'[p].their # None THEN [run EXCEPT ![p].pc = "redeem"]
                  ELSE [run EXCEPT ![p] = NoStep]
        /\ UNCHANGED <<now, fund, spend, match, tower, misled>>

-----------------------------------------------------------------------------
(* Funding *)

\* recordFunding: the txid is saved and the signed transaction dropped.
Recorded(p, x) ==
    [rec[p] EXCEPT !.pending = x, !.funding = x, !.step = IF p = "I" THEN "FUNDED" ELSE "THEY_FUNDED"]

\* Where a funding is looked for: the one signed, those given up, and on BTC by address.
FaultLooked(p) == IF p = "P" THEN Txs ELSE rec[p].rejected
Looked(p) == IF p = "P" THEN Txs ELSE {rec[p].pending} \cup rec[p].rejected

\* A funding signed earlier, or given up, that the chain shows after all.
FindFunding(p) ==
    /\ At(p, "fund") \/ At(p, "sent")
    /\ \E x \in OnChain(p) \cap (IF At(p, "fund") THEN Looked(p) ELSE {rec[p].pending}) :
           Save(p, Recorded(p, x))
    /\ Goto(p, "after")
    /\ UNCHANGED <<now, fund, spend, match, tower, misled, faults>>

\* definitiveReject: the reply says that the inputs are spent or missing. A conflict with an
\* unconfirmed transaction proves nothing.
FaultDefinitiveReject(reply) == reply \in {"missingorspent", "conflict"}
definitiveReject(reply) == reply = "missingorspent"

\* resendPending: the same transaction again; a definitive rejection frees us to plan anew.
\* The reply is the edge's, and may be wrong, by a fault of its node as well: inputs that are
\* missing now may come back.
resendPending(p) ==
    LET x == rec[p].pending
        right == IF fund[p][x] = "dead" THEN "missingorspent" ELSE "taken"
    IN  /\ At(p, "fund") /\ x # None
        /\ \E reply \in {"taken", "conflict", "missingorspent"} :
               /\ Cost(Wrong(reply, right) + IF x \in OnChain(p) THEN 1 ELSE 0)  \* not shown
               /\ misled' = [misled EXCEPT ![p] = IF reply = "missingorspent" /\ reply # right
                                                  THEN @ \cup {x} ELSE @]
               /\ fund' = [fund EXCEPT ![p][x] = IF reply = "taken" /\ @ = "signed" THEN "pool" ELSE @]
               /\ IF definitiveReject(reply)
                  THEN Save(p, [rec[p] EXCEPT !.pending = None, !.rejected = @ \cup {x}])
                  ELSE UNCHANGED rec
               /\ IF reply = "taken" THEN Goto(p, "sent") ELSE EndStep(p)
        /\ UNCHANGED <<now, spend, match, tower>>

\* What must hold before a new funding is planned: read at the start of the step.
MayFund(p) ==
    /\ run[p].info.status = (IF p = "I" THEN "accepted" ELSE "initiator_funded")
    /\ p = "P" => rec[p].their # None

FaultNonePending(p) == TRUE
NonePending(p) == rec[p].pending = None

\* fund: nothing found (of a funding given up, the edge may not show it), leave an ended match,
\* wait, give up after the deadline, or sign. The funder saves the signed transaction before
\* it is sent; a locked wallet signs nothing.
FundOrLeave(p) ==
    /\ At(p, "fund") /\ NonePending(p)
    /\ \/ /\ run[p].info.status \in ended
          /\ matchEnded(p) /\ EndStep(p) /\ UNCHANGED fund
       \/ /\ run[p].info.status \notin ended /\ ~MayFund(p)
          /\ EndStep(p) /\ UNCHANGED <<fund, rec, faults>>
       \/ /\ MayFund(p) /\ now > (IF p = "I" THEN InitiatorFundBy ELSE ParticipantFundBy)
          /\ closeUnfunded(p, "CANCELLED") /\ EndStep(p) /\ UNCHANGED fund
       \/ /\ MayFund(p) /\ now <= (IF p = "I" THEN InitiatorFundBy ELSE ParticipantFundBy)
          /\ Save(p, [rec[p] EXCEPT !.step = "NEED_FUNDING"])
          /\ EndStep(p) /\ UNCHANGED <<fund, faults>>
       \/ /\ MayFund(p) /\ now <= (IF p = "I" THEN InitiatorFundBy ELSE ParticipantFundBy)
          /\ \E x \in Txs :
                 /\ fund[p][x] = "none" /\ \A y \in Txs : y < x => fund[p][y] # "none"
                 /\ fund' = [fund EXCEPT ![p][x] = "signed"]
                 /\ Save(p, [rec[p] EXCEPT !.pending = x])
          /\ Goto(p, "send") /\ UNCHANGED faults
    /\ UNCHANGED <<now, spend, match, tower, misled>>

\* The broadcast; the funding is recorded (FindFunding) if it shows, else next step.
Send(p) ==
    LET x == rec[p].pending
    IN  /\ At(p, "send")
        /\ fund' = [fund EXCEPT ![p][x] = IF @ = "signed" THEN "pool" ELSE @]
        /\ IF fund[p][x] = "signed" THEN Goto(p, "sent") ELSE EndStep(p)
        /\ UNCHANGED <<now, spend, match, tower, rec, misled, faults>>

NotSeen(p) ==
    /\ At(p, "sent") /\ rec[p].pending \notin OnChain(p)
    /\ EndStep(p)
    /\ UNCHANGED <<now, fund, spend, match, tower, rec, misled, faults>>

-----------------------------------------------------------------------------
(* After funding *)

\* A leg's funding at the edge is set once: by a refund watch of its owner, whatever the
\* match's status, or with the owner's `funded` (record_leg_funding).
Leg(m, p) == IF p = "I" THEN m.xbt ELSE m.btc
Legged(m, p, x) ==
    IF Leg(m, p) # None \/ x \notin OnChain(p) THEN m
    ELSE IF p = "I" THEN [m EXCEPT !.xbt = x] ELSE [m EXCEPT !.btc = x]

\* A match cancelled for the participant's deadline is reinstated if its recorded funding was
\* mined in time (or was not), unless the XBT was signed back.
Reinstated(m, x) ==
    {m} \cup (IF /\ m.status = "cancelled" /\ m.missed /\ ~m.sigs /\ m.btc = x
                 /\ fund["P"][x] \in {"mined", "deep"}
              THEN {[m EXCEPT !.status = "both_funded", !.missed = FALSE]} ELSE {})
RefundWatch(m, p, x) == IF p = "P" THEN Reinstated(Legged(m, p, x), x) ELSE {Legged(m, p, x)}

\* What a `funded` does to the match.
Declare(m, p, x) ==
    CASE p = "P" /\ m.sigs -> {m}
      [] p = "P" /\ ~m.sigs /\ m.missed -> Reinstated(Legged(m, p, x), x)
      [] p = "P" /\ ~m.sigs /\ ~m.missed /\ m.status = "initiator_funded" /\ Leg(Legged(m, p, x), p) = x ->
             {[Legged(m, p, x) EXCEPT !.status = "both_funded"]}
      [] p = "I" /\ m.status = "accepted" /\ Leg(Legged(m, p, x), p) = x ->
             {[Legged(m, p, x) EXCEPT !.status = "initiator_funded"]}
      [] OTHER -> {m}

\* ... and whether the phone is done with it: taken, recorded before, or mined too late.
Settled(m, p, x) ==
    /\ Leg(match', p) = x
    /\ p = "P" => ~m.sigs /\ (m.missed => fund[p][x] \in {"mined", "deep"})

\* afterFunding: hand the refund over, announce the funding, hand the redeem over, each on
\* its own; a part that fails is left for the next step.
afterFunding(p) ==
    LET todo == {"refund_watched"}
                \cup (IF run[p].info.status # "cancelled" \/ p = "P" THEN {"funded_posted"} ELSE {})
                \cup (IF p = "P" /\ rec[p].their # None THEN {"redeem_watched"} ELSE {})
        due == todo \ rec[p].marks
        x == rec[p].funding
    IN  /\ At(p, "after")
        /\ \E done \in SUBSET due :
           \E m \in IF "refund_watched" \in done THEN RefundWatch(match, p, x) ELSE {match} :
               /\ Cost(IF done = due THEN 0 ELSE 1)
               /\ match' \in IF "funded_posted" \in done THEN Declare(m, p, x) ELSE {m}
               /\ LET took == {d \in done : /\ d = "refund_watched" => Leg(m, p) = x
                                            /\ d = "funded_posted" => Settled(m, p, x)}
                  IN  /\ Save(p, [rec[p] EXCEPT !.marks = @ \cup took])
                      /\ tower' = tower \cup (IF "refund_watched" \in took THEN {<<p, "refund">>} ELSE {})
                                        \cup (IF "redeem_watched" \in took THEN {<<p, "redeem">>} ELSE {})
        /\ IF p = "I" THEN Goto(p, "their") ELSE EndStep(p)
        /\ UNCHANGED <<now, fund, spend, misled>>

\* initiatorRedeem: reveal the preimage, never later than the margin before the BTC locktime
\* unless it is out already. A spend without the preimage is their refund.
initiatorRedeem ==
    /\ At("I", "redeem")
    /\ \E there, watched \in BOOLEAN :
           /\ Cost(Wrong(there, spend["P"] = None)
                   + IF ~there /\ SeesPreimage /\ ~watched THEN 1 ELSE 0)
           /\ IF there
              THEN IF ~rec["I"].redeemed /\ now > BtcLock - RedeemMargin
                   THEN EndStep("I") /\ UNCHANGED <<spend, rec, tower>>
                   ELSE /\ Sent("P", "redeem") /\ UNCHANGED <<rec, tower>>
                        /\ IF Took("P", "redeem") THEN Goto("I", "redeemed") ELSE EndStep("I")
              ELSE /\ EndStep("I") /\ UNCHANGED spend
                   /\ IF SeesPreimage /\ watched
                      THEN /\ Save("I", [rec["I"] EXCEPT !.step = "REDEEMED",
                                                         !.marks = @ \cup {"redeem_watched"}])
                           /\ tower' = tower \cup {<<"I", "redeem">>}
                      ELSE UNCHANGED <<rec, tower>>
    /\ UNCHANGED <<now, fund, match, misled>>

-----------------------------------------------------------------------------
(* The release of the initiator's XBT from a cancelled match *)

\* releaseBack: ask once, whatever the edge makes of it, and send the release once the
\* participant's signatures came; otherwise the step goes on.
releasable(m) == m.status = "cancelled" /\ m.xbt # None /\ m.btc = None
releaseBack ==
    /\ At("I", "release")
    /\ match' = [match EXCEPT !.asked = @ \/ (~Has("I", "release_asked") /\ releasable(match))]
    /\ Mark("I", "release_asked")
    /\ IF match.sigs
       THEN /\ Sent("I", "release")
            /\ IF Took("I", "release") THEN Goto("I", "released") ELSE Goto("I", "after")
       ELSE Goto("I", "after") /\ UNCHANGED spend
    /\ UNCHANGED <<now, fund, tower, misled, faults>>

Released ==
    /\ At("I", "released")
    /\ Save("I", [rec["I"] EXCEPT !.step = "REFUNDING", !.marks = @ \cup {"released"}])
    /\ EndStep("I")
    /\ UNCHANGED <<now, fund, spend, match, tower, misled, faults>>

\* releaseDue: a cancelled record of the participant, nothing of its own in flight.
FaultReleaseDue ==
    /\ Has("P", "counterparty") /\ now < XbtLock
    /\ rec["P"].marks \cap {"release_signed", "release_none"} = {}
releaseDue ==
    /\ rec["P"].step = "CANCELLED" /\ Has("P", "counterparty") /\ now < XbtLock
    /\ rec["P"].marks \cap {"release_signed", "release_none"} = {}
    /\ unfunded("P") /\ rec["P"].rejected = {}

\* release: sign the initiator's XBT back, once asked, while the edge has the match cancelled
\* with nothing of ours locked.
release ==
    /\ At("P", "idle") /\ releaseDue
    /\ IF match.btc # None \/ (match.xbt = None /\ now > InitiatorFundBy)
       THEN Mark("P", "release_none") /\ UNCHANGED <<match, run>>
       ELSE /\ match.asked /\ releasable(match)
            /\ match' = [match EXCEPT !.sigs = TRUE]
            /\ Goto("P", "signed") /\ UNCHANGED rec
    /\ UNCHANGED <<now, fund, spend, tower, misled, faults>>

Signed ==
    /\ At("P", "signed")
    /\ Mark("P", "release_signed") /\ EndStep("P")
    /\ UNCHANGED <<now, fund, spend, match, tower, misled, faults>>

-----------------------------------------------------------------------------
(* What goes on around the phones *)

\* The process stops or the step's time limit cuts it off: what was saved stays.
Abandon(p) ==
    /\ ~At(p, "idle") /\ EndStep(p) /\ Cost(1)
    /\ UNCHANGED <<now, fund, spend, match, tower, rec, misled>>

Pass == now < MaxTime /\ now' = now + 1 /\ UNCHANGED <<fund, spend, match, tower, rec, run, misled, faults>>

\* A funding is mined, and gets its confirmations.
Bury(p) ==
    /\ \E x \in Txs :
           \/ fund[p][x] = "pool" /\ fund' = [fund EXCEPT ![p][x] = "mined"]
           \/ fund[p][x] = "mined" /\ fund' = [fund EXCEPT ![p][x] = "deep"]
    /\ UNCHANGED <<now, spend, match, tower, rec, run, misled, faults>>

\* The coins of a funding not mined yet are spent otherwise.
Conflict(p) ==
    /\ \E x \in Txs : /\ fund[p][x] \in {"signed", "pool"} /\ rec[p].funding # x
                      /\ fund' = [fund EXCEPT ![p][x] = "dead"]
    /\ Cost(1)
    /\ UNCHANGED <<now, spend, match, tower, rec, run, misled>>

\* A funding the phone gave up lands after all: the edge has had it.
Lands(p) ==
    /\ \E x \in rec[p].rejected : fund[p][x] = "signed" /\ fund' = [fund EXCEPT ![p][x] = "pool"]
    /\ UNCHANGED <<now, spend, match, tower, rec, run, misled, faults>>

MineSpend(p) ==
    /\ spend[p] # None /\ ~Mined(p) /\ \E x \in Htlc(p) : fund[p][x] # "pool"
    /\ spend' = [spend EXCEPT ![p].st = "mined"]
    /\ UNCHANGED <<now, fund, match, tower, rec, run, misled, faults>>

Evict(p) ==
    /\ spend[p] # None /\ ~Mined(p) /\ Cost(1)
    /\ spend' = [spend EXCEPT ![p] = None]
    /\ UNCHANGED <<now, fund, match, tower, rec, run, misled>>

\* The edge's deadlines (tick_match) and the end of a spent swap.
EdgeTick ==
    /\ \/ /\ \/ match.status = "proposed" /\ now > AcceptBy
             \/ match.status = "accepted" /\ match.xbt = None /\ now > InitiatorFundBy
          /\ match' = [match EXCEPT !.status = "cancelled"]
       \/ /\ match.status = "initiator_funded" /\ match.btc = None /\ now > ParticipantFundBy
          /\ match' = [match EXCEPT !.status = "cancelled", !.missed = TRUE]
       \/ /\ match.status \in {"initiator_funded", "both_funded"}
          /\ spend["I"] # None /\ (match.btc # None => spend["P"] # None)
          /\ match' = [match EXCEPT !.status = "closed"]
    /\ UNCHANGED <<now, fund, spend, tower, rec, run, misled, faults>>

\* The watchtower sends the jobs it holds: refunds from the locktime on, redeems once the
\* preimage is out.
Tower(p) ==
    /\ spend[p] = None
    /\ \/ <<p, "refund">> \in tower /\ now >= Lock(p) /\ Sent(p, "refund")
       \/ <<Other(p), "redeem">> \in tower /\ (p = "I" => SeesPreimage) /\ Sent(p, "redeem")
    /\ UNCHANGED <<now, fund, match, tower, rec, run, misled, faults>>

-----------------------------------------------------------------------------
Init ==
    /\ now = 0 /\ faults = 0 /\ tower = {}
    /\ fund = [p \in Phones |-> [x \in Txs |-> "none"]]
    /\ spend = [p \in Phones |-> None]
    /\ match = [status |-> "proposed", xbt |-> None, btc |-> None, accepted |-> {},
                asked |-> FALSE, sigs |-> FALSE, missed |-> FALSE]
    /\ rec = [p \in Phones |-> Fresh]
    /\ run = [p \in Phones |-> NoStep]
    /\ misled = [p \in Phones |-> {}]

Step(p) ==
    \/ resumeClose(p) \/ Redeemed(p) \/ refundIfDue(p) \/ Refunded(p) \/ refundProgress(p)
    \/ doneCheck(p) \/ ReadMatch(p) \/ Walked(p) \/ review(p) \/ Accepted(p) \/ pollRelay(p)
    \/ theirFunding(p) \/ FindFunding(p) \/ resendPending(p) \/ FundOrLeave(p) \/ Send(p) \/ NotSeen(p)
    \/ afterFunding(p)
    \/ p = "P" /\ (participantRedeem \/ release \/ Signed)
    \/ p = "I" /\ (initiatorRedeem \/ releaseBack \/ Released)

Chain(p) == Bury(p) \/ MineSpend(p)
Next ==
    \/ Pass \/ EdgeTick
    \/ \E p \in Phones : Step(p) \/ Chain(p) \/ Tower(p) \/ Abandon(p) \/ Conflict(p) \/ Lands(p) \/ Evict(p)

Spec == Init /\ [][Next]_vars

\* The worker steps every swap again and again, blocks are mined, the edge and its watchtower
\* keep ticking.  What goes on around the phones is done after finitely many steps, so fairness
\* of all of it together is fairness of each part.
World == Pass \/ EdgeTick \/ \E p \in Phones : Chain(p) \/ Tower(p)
FairSpec == Spec /\ WF_vars(World) /\ \A p \in Phones : WF_vars(Step(p))

-----------------------------------------------------------------------------
(* Properties *)

\* Every variable has its type.
TypeOK ==
    /\ now \in 0..MaxTime /\ faults \in 0..MaxFaults
    /\ fund \in [Phones -> [Txs -> {"none", "signed", "pool", "mined", "deep", "dead"}]]
    /\ spend \in [Phones -> Spend \cup {None}]
    /\ tower \subseteq Phones \X {"refund", "redeem"}
    /\ match \in Match
    /\ rec \in [Phones -> Record]
    /\ run \in [Phones -> [pc : Pc, info : Info \cup {None}]]
    /\ misled \in [Phones -> SUBSET Txs]

\* A phone never has two fundings of one swap on chain, whatever is cut off, re-sent or
\* rejected ("never repeating a funding", SwapEngine.kt), but for one it gave up on the edge's
\* wrong word that its inputs are gone (resendPending).
FundedOnce == \A p \in Phones : Cardinality(OnChain(p) \ misled[p]) <= 1

\* A swap left unfunded has nothing of ours on chain or able to land, but for a funding given
\* up on the edge's wrong word (closeUnfunded, matchEnded).
LeftWithNothing ==
    \A p \in Phones : rec[p].step \in {"CANCELLED", "FAILED", "WAITING_MATCH"} =>
        \A x \in Txs \ misled[p] : fund[p][x] \in {"none", "dead"}

\* The participant signs a funding only against an XBT leg that is really there, and the
\* preimage goes out only for a BTC leg that is, however the edge answers.
FundsWhatIsThere ==
    /\ (\E x \in Txs : fund["P"][x] # "none") => \E y \in Txs : fund["I"][y] = "deep"
    /\ SeesPreimage => \E y \in Txs : fund["P"][y] = "deep"

\* The XBT is never released while the participant has, or may yet have, BTC in the swap: not
\* even a funding it was wrongly told is gone (releaseDue).
ReleasedAlone ==
    match.sigs => \A x \in Txs : fund["P"][x] \in {"none", "dead"}

\* The swap keys are wiped only when nothing is left to do with them: our redeem or the
\* other's spend, or our own refund, is mined.
SettledForGood ==
    \A p \in Phones :
        /\ rec[p].step = "DONE" => Mined(Other(p)) /\ (p = "I" => spend["P"].kind = "redeem")
        /\ rec[p].step = "REFUNDED" => Mined(p) /\ spend[p].kind # "redeem"

\* Coins that went into an HTLC come out of it: by the phones' own steps or the watchtower's
\* jobs, whatever one step, call or answer went wrong. A phone told wrongly that a funding is
\* gone may land two: of those, the one it recorded. (Both parts of the implication are for
\* good, so that it holds again and again says that it holds in the end.)
CoinsSettle ==
    []<>(\A p \in Phones, x \in Txs :
            fund[p][x] = "deep" /\ (x = rec[p].funding \/ misled[p] = {}) => Mined(p))

\* A phone whose coins came back, by refund or release, gets to the end of its record
\* (refundProgress), or was paid as well.
RefundsRecorded ==
    []<>(\A p \in Phones : Funded(p) /\ Mined(p) /\ spend[p].kind # "redeem" => ~active(p))

\* A swap whose two legs were redeemed ends as done on both phones ("carries on from what
\* was saved", SwapEngine.kt).
SwapDone ==
    (Mined("I") /\ Mined("P") /\ spend["I"].kind = "redeem" /\ spend["P"].kind = "redeem")
        ~> \A p \in Phones : rec[p].step = "DONE"

=============================================================================

-------------------------- MODULE SwapEngineProofs --------------------------
(***************************************************************************)
(* Safety of SwapEngine for any number of fundings, any deadlines and any  *)
(* number of wrong answers, stops, evictions and double spends.  All of it *)
(* rests on what a phone's record says of the chains: of the fundings it   *)
(* was not misled about, the signed one saved as pending is the only one   *)
(* that can land, and what the record calls the other's funding is buried. *)
(***************************************************************************)
EXTENDS SwapEngine, FiniteSetTheorems, TLAPS

-----------------------------------------------------------------------------
(* The inductive invariant                                                 *)

Left == {"CANCELLED", "FAILED", "WAITING_MATCH"}
Deep(p) == \E x \in Txs : fund[p][x] = "deep"

\* The steps taken on a read of the match.
Reading == {"walked", "review", "accepted", "poll", "their", "fund", "send", "sent", "after",
            "redeem", "release"}

\* A funding that is or may get on chain.
Live(p, x) == fund[p][x] \notin {"none", "dead"}

\* Of the fundings a phone was not misled about one at most can land: the one pending, unless
\* one it was misled about was found and recorded in its place.
OneLands(p) ==
    /\ \A x \in Txs \ misled[p] :
           Live(p, x) => rec[p].pending # None /\ (x = rec[p].pending \/ rec[p].pending \in misled[p])
    /\ \A x, y \in Txs \ misled[p] : Live(p, x) /\ Live(p, y) => x = y

\* What is pending was signed, and is one the phone was misled about only once recorded; what
\* is recorded is on chain; a phone still funding has recorded nothing; and one was given up
\* for every one it was misled about.
FundInv(p) ==
    /\ OneLands(p)
    /\ rec[p].funding # None => rec[p].funding = rec[p].pending /\ rec[p].funding \in OnChain(p)
    /\ rec[p].pending # None => fund[p][rec[p].pending] # "none"
    /\ rec[p].pending \in misled[p] => rec[p].funding = rec[p].pending
    /\ run[p].pc \in {"fund", "send", "sent"} => rec[p].funding = None
    /\ run[p].pc \in {"send", "sent"} => rec[p].pending # None
    /\ misled[p] \subseteq rec[p].rejected
    /\ \A x \in misled[p] : fund[p][x] # "none"

\* Where a phone stands in its step; a swap that was left is never taken up again.
StepInv(p) ==
    /\ rec[p].step \in Left => rec[p].pending = None /\ run[p].pc \in {"idle", "signed"}
    /\ run[p].pc \in Reading => run[p].info # None
    /\ run[p].pc = "signed" => p = "P" /\ rec[p].step = "CANCELLED"

\* The other's funding in the record is buried.
TheirInv(p) == rec[p].their # None => fund[Other(p)][rec[p].their] = "deep"

\* Whatever may reveal the preimage stands on a buried BTC leg, as a signed BTC leg does on a
\* buried XBT leg.
PreimageInv ==
    /\ \/ SeesPreimage
       \/ run["I"].pc \in {"redeem", "redeemed"}
       \/ rec["I"].step = "REDEEMED"
       \/ <<"I", "redeem">> \in tower
       => Deep("P")
    /\ (\E x \in Txs : fund["P"][x] # "none") => Deep("I")

\* Signatures for the release come from a participant that left and gave no funding up.
SigsInv == match.sigs => rec["P"].step = "CANCELLED" /\ rec["P"].rejected = {}

PhoneInv(p) == FundInv(p) /\ StepInv(p) /\ TheirInv(p)

IInv ==
    /\ TypeOK
    /\ \A p \in Phones : PhoneInv(p)
    /\ PreimageInv
    /\ SigsInv
    /\ SettledForGood

-----------------------------------------------------------------------------
(* What a step may do                                                      *)

\* A buried funding stays buried.
DeepStays == \A p \in Phones, x \in Txs : fund[p][x] = "deep" => fund'[p][x] = "deep"

\* A mined spend stays, none is mined, and the preimage goes out for a buried BTC leg only.
SpendStep ==
    /\ \A p \in Phones : (Mined(p) => spend'[p] = spend[p]) /\ (Mined(p)' => Mined(p))
    /\ SeesPreimage' => Deep("P")

\* The other phone's record and step are left alone.
Others(p) == rec'[Other(p)] = rec[Other(p)] /\ run'[Other(p)] = run[Other(p)]

\* What a step that leaves the fundings alone may do to its phone's record.
Kept(p) ==
    /\ \/ rec'[p].pending = rec[p].pending /\ rec'[p].funding = rec[p].funding
       \/ rec'[p].pending = rec'[p].funding /\ rec'[p].funding \in OnChain(p)
    /\ rec'[p].rejected = rec[p].rejected
    /\ rec'[p].their \in {None, rec[p].their} \/ fund[Other(p)][rec'[p].their] = "deep"
    /\ rec'[p].step \in Left => rec'[p].pending = None
    /\ \/ run'[p].pc = "idle"
       \/ run'[p].pc = "signed" /\ p = "P" /\ rec'[p].step = "CANCELLED"
       \/ /\ run'[p].pc \notin {"idle", "signed"} /\ rec'[p].step \notin Left
          /\ run'[p].pc \in Reading => run'[p].info # None
          /\ run'[p].pc \notin {"send", "sent"}
          /\ run'[p].pc = "fund" => rec'[p].funding = None

\* What reveals the preimage on the initiator's side stands on a buried BTC leg.
Reveals(p) ==
    /\ p = "I" /\ (run'[p].pc \in {"redeem", "redeemed"} \/ rec'[p].step = "REDEEMED") => Deep("P")
    /\ <<"I", "redeem">> \in tower' => Deep("P")

\* A record ends as done or refunded on a mined spend.
Settles(p) ==
    /\ rec'[p].step = "DONE" =>
           \/ rec[p].step = "DONE"
           \/ Mined(Other(p)) /\ (p = "I" => spend["P"].kind = "redeem")
    /\ rec'[p].step = "REFUNDED" =>
           \/ rec[p].step = "REFUNDED"
           \/ Mined(p) /\ spend[p].kind # "redeem"

\* The phones are two, each the other's other.
LEMMA TwoPhones ==
    /\ \A p \in Phones : Other(p) \in Phones /\ Other(p) # p /\ Other(Other(p)) = p
    /\ \A p, q \in Phones : q = p \/ q = Other(p)
    /\ "I" \in Phones /\ "P" \in Phones /\ Other("I") = "P" /\ Other("P") = "I"
BY DEF Phones, Other

\* A phone left alone stays as it was, its own fundings too.
LEMMA OtherPhone ==
    ASSUME NEW q \in Phones, PhoneInv(q), rec'[q] = rec[q], run'[q] = run[q], fund'[q] = fund[q],
           misled'[q] = misled[q], TypeOK, DeepStays
    PROVE  PhoneInv(q)'
<1>1. FundInv(q)' /\ StepInv(q)'
  BY DEF PhoneInv, FundInv, OneLands, Live, StepInv, OnChain
<1>2. TheirInv(q)'
  <2>1. rec[q].their # None => rec[q].their \in Txs
    BY DEF TypeOK, Record, Tx
  <2> QED
    BY <2>1, TwoPhones DEF PhoneInv, TheirInv, DeepStays
<1> QED
  BY <1>1, <1>2 DEF PhoneInv

\* What was settled stays settled while mined spends stay.
LEMMA StaysSettled ==
    ASSUME SettledForGood, SpendStep, NEW p \in Phones, Settles(p),
           NEW q \in {p, Other(p)}, q # p => rec'[q] = rec[q]
    PROVE  /\ rec'[q].step = "DONE" => Mined(Other(q))' /\ (q = "I" => spend'["P"].kind = "redeem")
           /\ rec'[q].step = "REFUNDED" => Mined(q)' /\ spend'[q].kind # "redeem"
<1>1. \A r \in Phones : Mined(r) => Mined(r)' /\ spend'[r] = spend[r]
  BY DEF SpendStep, Mined
<1>2. q \in Phones /\ Other(q) \in Phones
  BY TwoPhones
<1>3. /\ rec'[q].step = "DONE" => Mined(Other(q)) /\ (q = "I" => spend["P"].kind = "redeem")
      /\ rec'[q].step = "REFUNDED" => Mined(q) /\ spend[q].kind # "redeem"
  BY <1>2 DEF SettledForGood, Settles
<1>4. q = "I" => Other(q) = "P"
  BY TwoPhones
<1> QED
  BY <1>1, <1>2, <1>3, <1>4

\* What such a step may do to its phone's record: another funding is recorded only if it is on
\* chain.
LEMMA KeepsFundInv ==
    ASSUME TypeOK, NEW p \in Phones, FundInv(p), Kept(p), fund' = fund, misled' = misled
    PROVE  FundInv(p)'
<1>1. OnChain(p)' = OnChain(p) /\ \A x : Live(p, x)' = Live(p, x)
  BY DEF OnChain, Live
<1>2. CASE rec'[p].pending = rec[p].pending /\ rec'[p].funding = rec[p].funding
  BY <1>1, <1>2 DEF FundInv, OneLands, Kept
<1>3. CASE rec'[p].pending = rec'[p].funding /\ rec'[p].funding \in OnChain(p)
  <2>1. /\ rec'[p].pending \in Txs /\ rec'[p].pending # None
        /\ Live(p, rec'[p].pending) /\ fund[p][rec'[p].pending] # "none"
    BY <1>3, SwapEngineConstants DEF OnChain, Live
  <2>2. OneLands(p)'
    BY <1>1, <2>1 DEF FundInv, OneLands
  <2>3. run'[p].pc \notin {"fund", "send", "sent"}
    BY <1>3, <2>1 DEF Kept
  <2> QED
    BY <1>1, <1>3, <2>1, <2>2, <2>3 DEF FundInv, Kept
<1> QED
  BY <1>2, <1>3 DEF Kept

\* A step of a phone that leaves the fundings alone keeps the invariant.
LEMMA Acted ==
    ASSUME IInv, TypeOK', NEW p \in Phones, fund' = fund, misled' = misled, Others(p), Kept(p),
           SpendStep, Reveals(p), Settles(p), SigsInv'
    PROVE  IInv'
<1>1. DeepStays /\ Deep("P")' = Deep("P") /\ Deep("I")' = Deep("I")
  BY DEF DeepStays, Deep
<1>2. PhoneInv(Other(p))'
  BY <1>1, OtherPhone, TwoPhones DEF IInv, Others
<1>3. PhoneInv(p)'
  <2>1. FundInv(p)'
    BY KeepsFundInv DEF IInv, PhoneInv
  <2>2. StepInv(p)'
    BY DEF Kept, IInv, PhoneInv, StepInv, Reading, Left
  <2>3. TheirInv(p)'
    BY DEF Kept, IInv, PhoneInv, TheirInv
  <2> QED
    BY <2>1, <2>2, <2>3 DEF PhoneInv
<1>4. PreimageInv'
  <2>1. CASE p = "I"
    BY <1>1, <2>1 DEF IInv, PreimageInv, SpendStep, Reveals
  <2>2. CASE p = "P"
    BY <1>1, <2>2, TwoPhones DEF IInv, PreimageInv, SpendStep, Reveals, Others
  <2> QED
    BY <2>1, <2>2 DEF Phones
<1>5. SettledForGood'
  <2> SUFFICES ASSUME NEW q \in Phones
               PROVE  /\ rec'[q].step = "DONE" => Mined(Other(q))' /\ (q = "I" => spend'["P"].kind = "redeem")
                      /\ rec'[q].step = "REFUNDED" => Mined(q)' /\ spend'[q].kind # "redeem"
    BY DEF SettledForGood
  <2>1. q \in {p, Other(p)} /\ (q # p => rec'[q] = rec[q])
    BY TwoPhones DEF Others
  <2> QED
    BY <2>1, StaysSettled DEF IInv
<1>6. \A q \in Phones : PhoneInv(q)'
  BY <1>2, <1>3, TwoPhones
<1> QED
  BY <1>4, <1>5, <1>6 DEF IInv

-----------------------------------------------------------------------------
(* Saving, going on, sending                                               *)

\* A saved record is the phone's, the other's is left alone.
LEMMA Saved ==
    ASSUME TypeOK, NEW p \in Phones, NEW r \in Record, Save(p, r)
    PROVE  rec' \in [Phones -> Record] /\ rec'[p] = r /\ rec'[Other(p)] = rec[Other(p)]
BY TwoPhones DEF Save, TypeOK

\* A mark changes nothing else of the record.
LEMMA Marked ==
    ASSUME TypeOK, NEW p \in Phones,
           NEW m \in {"close", "walk_away", "accepted", "counterparty", "release_asked",
                      "release_signed", "release_none"},
           Mark(p, m)
    PROVE  /\ rec' \in [Phones -> Record] /\ rec'[Other(p)] = rec[Other(p)]
           /\ rec'[p].step = rec[p].step /\ rec'[p].pending = rec[p].pending
           /\ rec'[p].funding = rec[p].funding /\ rec'[p].their = rec[p].their
           /\ rec'[p].rejected = rec[p].rejected
<1>1. rec[p] \in Record
  BY DEF TypeOK
<1>2. [rec[p] EXCEPT !.marks = @ \cup {m}] \in Record
  BY <1>1 DEF Record
<1>3. /\ rec' \in [Phones -> Record] /\ rec'[p] = [rec[p] EXCEPT !.marks = @ \cup {m}]
      /\ rec'[Other(p)] = rec[Other(p)]
  BY <1>2, Saved DEF Mark
<1> QED
  BY <1>1, <1>3 DEF Record

\* A step that goes on keeps what it read; one that ends is idle.
LEMMA Went ==
    ASSUME TypeOK, NEW p \in Phones, NEW pc \in Pc, Goto(p, pc)
    PROVE  /\ run' \in [Phones -> [pc : Pc, info : Info \cup {None}]]
           /\ run'[p].pc = pc /\ run'[p].info = run[p].info /\ run'[Other(p)] = run[Other(p)]
<1>1. run[p] \in [pc : Pc, info : Info \cup {None}]
  BY DEF TypeOK
<1>2. [run[p] EXCEPT !.pc = pc] \in [pc : Pc, info : Info \cup {None}]
  BY <1>1
<1>3. run'[p] = [run[p] EXCEPT !.pc = pc] /\ run'[Other(p)] = run[Other(p)]
  BY TwoPhones DEF Goto, TypeOK
<1>4. run' \in [Phones -> [pc : Pc, info : Info \cup {None}]]
  BY <1>2 DEF Goto, TypeOK
<1> QED
  BY <1>1, <1>3, <1>4

\* A step that ended is idle, the other phone's is left alone.
LEMMA Ended ==
    ASSUME TypeOK, NEW p \in Phones, EndStep(p)
    PROVE  /\ run' \in [Phones -> [pc : Pc, info : Info \cup {None}]]
           /\ run'[p].pc = "idle" /\ run'[Other(p)] = run[Other(p)]
<1>1. NoStep \in [pc : Pc, info : Info \cup {None}] /\ NoStep.pc = "idle"
  BY DEF NoStep, Pc
<1>2. run'[p] = NoStep /\ run'[Other(p)] = run[Other(p)]
  BY TwoPhones DEF EndStep, TypeOK
<1>3. run' \in [Phones -> [pc : Pc, info : Info \cup {None}]]
  BY <1>1 DEF EndStep, TypeOK
<1> QED
  BY <1>1, <1>2, <1>3

\* What is counted as going wrong stays within its bound.
LEMMA Counted ==
    ASSUME TypeOK, NEW n \in Nat, Cost(n)
    PROVE  faults' \in 0..MaxFaults
BY SwapEngineConstants DEF TypeOK, Cost

\* A broadcast keeps a mined spend, and leaves the other chain alone.
LEMMA Sends ==
    ASSUME TypeOK, NEW q \in Phones, NEW kind \in {"redeem", "refund", "release"},
           Sent(q, kind)
    PROVE  /\ spend' \in [Phones -> Spend \cup {None}]
           /\ spend'[Other(q)] = spend[Other(q)]
           /\ \A r \in Phones : (Mined(r) => spend'[r] = spend[r]) /\ (Mined(r)' => Mined(r))
           /\ spend'[q] # None => spend'[q] = spend[q] \/ spend'[q].kind = kind
<1>1. PICK s \in Broadcast(q, kind) : spend' = [spend EXCEPT ![q] = s]
  BY DEF Sent
<1>2. InPool(kind) \in Spend
  BY DEF InPool, Spend
<1>3. spend[q] \in Spend \cup {None}
  BY DEF TypeOK
<1>4. Broadcast(q, kind) \subseteq {spend[q], InPool(kind)}
  BY DEF Broadcast
<1>5. spend'[q] = s /\ spend'[Other(q)] = spend[Other(q)]
  BY <1>1, TwoPhones DEF TypeOK
<1>6. Mined(q) => s = spend[q]
  BY <1>1 DEF Broadcast
<1>7. InPool(kind).st = "pool" /\ InPool(kind).kind = kind
  BY DEF InPool
<1>8. spend' \in [Phones -> Spend \cup {None}]
  BY <1>1, <1>2, <1>3, <1>4 DEF TypeOK
<1>9. \A r \in Phones : (Mined(r) => spend'[r] = spend[r]) /\ (Mined(r)' => Mined(r))
  BY <1>1, <1>4, <1>5, <1>6, <1>7, TwoPhones DEF Mined
<1>10. spend'[q] # None => spend'[q] = spend[q] \/ spend'[q].kind = kind
  BY <1>1, <1>4, <1>5, <1>7
<1> QED
  BY <1>5, <1>8, <1>9, <1>10

\* A step that sends nothing and ends nothing as settled keeps the invariant.
LEMMA Quiet ==
    ASSUME IInv, NEW p \in Phones, UNCHANGED <<now, fund, spend, misled>>,
           rec' \in [Phones -> Record], run' \in [Phones -> [pc : Pc, info : Info \cup {None}]],
           match' \in Match, tower' \subseteq Phones \X {"refund", "redeem"}, faults' \in 0..MaxFaults,
           match'.sigs = match.sigs, Others(p), Kept(p), Reveals(p),
           \/ rec'[p].step = rec[p].step
           \/ rec[p].step # "CANCELLED" /\ rec'[p].step \notin {"DONE", "REFUNDED"}
    PROVE  IInv'
<1>1. TypeOK'
  BY DEF IInv, TypeOK
<1>2. SpendStep
  BY DEF SpendStep, Mined, IInv, PreimageInv, SeesPreimage
<1>3. Settles(p)
  BY DEF Settles
<1>4. SigsInv'
  <2>1. CASE p = "P"
    BY <2>1 DEF IInv, SigsInv, Kept
  <2>2. CASE p = "I"
    BY <2>2, TwoPhones DEF IInv, SigsInv, Others
  <2> QED
    BY <2>1, <2>2 DEF Phones
<1> QED
  BY <1>1, <1>2, <1>3, <1>4, Acted

\* A phone within a step has not left its swap, and its step's end changes nothing.
LEMMA Busy ==
    ASSUME IInv, NEW p \in Phones, run[p].pc \notin {"idle", "signed"}
    PROVE  rec[p].step \notin Left
BY DEF IInv, PhoneInv, StepInv

\* What a step that adds no watchtower job and neither redeems nor turns to it may reveal.
LEMMA NothingRevealed ==
    ASSUME IInv, NEW p \in Phones, tower' = tower,
           rec'[p].step = rec[p].step \/ rec'[p].step # "REDEEMED",
           run'[p].pc = run[p].pc \/ run'[p].pc \notin {"redeem", "redeemed"}
    PROVE  Reveals(p)
BY DEF Reveals, IInv, PreimageInv

\* Leaving an unfunded swap: nothing is pending, nothing was funded.
LEMMA Leaves ==
    ASSUME IInv, NEW p \in Phones, closeUnfunded(p, "CANCELLED") \/ matchEnded(p)
    PROVE  /\ rec' \in [Phones -> Record] /\ rec'[Other(p)] = rec[Other(p)] /\ faults' \in 0..MaxFaults
           /\ rec[p].pending = None /\ rec'[p].pending = None
           /\ rec[p].funding = None /\ rec'[p].funding = None /\ rec'[p].rejected = rec[p].rejected
           /\ rec'[p].their \in {None, rec[p].their}
           /\ rec'[p].step \in {rec[p].step, "CANCELLED", "WAITING_MATCH"}
<1>1. TypeOK /\ rec[p] \in Record
  BY DEF IInv, TypeOK
<1>2. unfunded(p)
  BY DEF closeUnfunded, matchEnded
<1>3. CASE Save(p, [rec[p] EXCEPT !.step = "CANCELLED", !.marks = @ \ {"close"}]) /\ Cost(0)
  <2>1. [rec[p] EXCEPT !.step = "CANCELLED", !.marks = @ \ {"close"}] \in Record
    BY <1>1 DEF Record
  <2>2. /\ rec' \in [Phones -> Record] /\ rec'[Other(p)] = rec[Other(p)]
        /\ rec'[p] = [rec[p] EXCEPT !.step = "CANCELLED", !.marks = @ \ {"close"}]
    BY <1>1, <1>3, <2>1, Saved
  <2> QED
    BY <1>1, <1>2, <1>3, <2>2, Counted DEF unfunded, Record
<1>4. CASE Mark(p, "close") /\ Cost(1)
  BY <1>1, <1>2, <1>4, Marked, Counted DEF unfunded
<1>5. CASE rec[p].rejected = {} /\ Save(p, [Fresh EXCEPT !.step = "WAITING_MATCH"]) /\ Cost(0)
  <2>1. [Fresh EXCEPT !.step = "WAITING_MATCH"] \in Record
    BY DEF Fresh, Record, Tx
  <2>2. /\ rec' \in [Phones -> Record] /\ rec'[Other(p)] = rec[Other(p)]
        /\ rec'[p] = [Fresh EXCEPT !.step = "WAITING_MATCH"]
    BY <1>1, <1>5, <2>1, Saved
  <2> QED
    BY <1>1, <1>2, <1>5, <2>2, Counted DEF unfunded, Fresh
<1> QED
  BY <1>3, <1>4, <1>5 DEF closeUnfunded, matchEnded

\* A step that leaves an unfunded swap and ends.
LEMMA LeftIt ==
    ASSUME IInv, NEW p \in Phones, rec[p].step \notin Left,
           closeUnfunded(p, "CANCELLED") \/ matchEnded(p),
           UNCHANGED <<now, fund, spend, tower, misled>>, match' \in Match, match'.sigs = match.sigs,
           run' \in [Phones -> [pc : Pc, info : Info \cup {None}]], run'[p].pc = "idle",
           run'[Other(p)] = run[Other(p)]
    PROVE  IInv'
<1>1. /\ rec' \in [Phones -> Record] /\ rec'[Other(p)] = rec[Other(p)] /\ faults' \in 0..MaxFaults
      /\ rec[p].pending = None /\ rec'[p].pending = None
      /\ rec[p].funding = None /\ rec'[p].funding = None /\ rec'[p].rejected = rec[p].rejected
      /\ rec'[p].their \in {None, rec[p].their}
      /\ rec'[p].step \in {rec[p].step, "CANCELLED", "WAITING_MATCH"}
  BY Leaves
<1>2. Kept(p) /\ Others(p)
  BY <1>1 DEF Kept, Others
<1>3. Reveals(p)
  BY <1>1, NothingRevealed
<1>4. tower' \subseteq Phones \X {"refund", "redeem"}
  BY DEF IInv, TypeOK
<1> QED
  BY <1>1, <1>2, <1>3, <1>4, Quiet DEF Left

-----------------------------------------------------------------------------
(* The steps of a phone that send nothing                                  *)

\* The types the invariant gives, one by one.
LEMMA Types ==
    ASSUME IInv
    PROVE  /\ TypeOK /\ match \in Match /\ faults \in 0..MaxFaults
           /\ rec \in [Phones -> Record] /\ run \in [Phones -> [pc : Pc, info : Info \cup {None}]]
           /\ tower \subseteq Phones \X {"refund", "redeem"}
BY DEF IInv, TypeOK

\* A step that saves nothing keeps the invariant.
LEMMA Unsaved ==
    ASSUME IInv, NEW p \in Phones, UNCHANGED <<now, fund, spend, tower, rec, misled>>,
           run' \in [Phones -> [pc : Pc, info : Info \cup {None}]], run'[Other(p)] = run[Other(p)],
           match' \in Match, match'.sigs = match.sigs, faults' \in 0..MaxFaults,
           \/ run'[p].pc = "idle"
           \/ /\ rec[p].step \notin Left
              /\ run'[p].pc \in Reading \ {"send", "sent", "redeem"} /\ run'[p].info # None
              /\ run'[p].pc = "fund" => rec[p].funding = None
    PROVE  IInv'
<1>1. Kept(p)
  <2>1. rec[p].step \in Left => rec[p].pending = None
    BY DEF IInv, PhoneInv, StepInv
  <2> QED
    BY <2>1 DEF Kept, Reading
<1>2. Others(p)
  BY DEF Others
<1>3. Reveals(p)
  BY NothingRevealed DEF Reading
<1> QED
  BY <1>1, <1>2, <1>3, Types, Quiet

\* resumeClose keeps the invariant.
LEMMA ByResumeClose ==
    ASSUME IInv, NEW p \in Phones, resumeClose(p)
    PROVE  IInv'
<1>1. rec[p].step \notin Left
  BY DEF resumeClose, active, Left
<1>2. closeUnfunded(p, "CANCELLED") /\ UNCHANGED <<now, fund, spend, match, tower, run, misled>>
      /\ run[p].pc = "idle"
  BY DEF resumeClose, At
<1> QED
  BY <1>1, <1>2, LeftIt, Types

\* Abandon, NotSeen and the steps that only read keep the invariant.
LEMMA ByAbandon ==
    ASSUME IInv, NEW p \in Phones, Abandon(p) \/ NotSeen(p)
    PROVE  IInv'
<1>1. EndStep(p) /\ UNCHANGED <<now, fund, spend, match, tower, rec, misled>>
  BY DEF Abandon, NotSeen
<1>2. faults' \in 0..MaxFaults
  <2>1. CASE Abandon(p)
    BY <2>1, Types, Counted DEF Abandon
  <2>2. CASE NotSeen(p)
    BY <2>2, Types DEF NotSeen
  <2> QED
    BY <2>1, <2>2
<1> QED
  BY <1>1, <1>2, Types, Ended, Unsaved

\* ReadMatch keeps the invariant: the step it starts has read something.
LEMMA ByReadMatch ==
    ASSUME IInv, NEW p \in Phones, ReadMatch(p)
    PROVE  IInv'
<1> DEFINE info == [status |-> match.status, xbt |-> match.xbt, btc |-> match.btc]
<1>1. /\ active(p) /\ UNCHANGED <<now, fund, spend, match, tower, rec, misled, faults>>
      /\ run' = [run EXCEPT ![p] = [pc |-> AfterRead(p, info), info |-> info]]
  BY DEF ReadMatch
<1>2. info \in Info
  BY Types DEF Match, Info
<1>3. info # None
  BY <1>2, SwapEngineConstants
<1> HIDE DEF info
<1>4. /\ AfterRead(p, info) \in Reading \ {"send", "sent", "redeem"} /\ AfterRead(p, info) \in Pc
      /\ AfterRead(p, info) = "fund" => rec[p].funding = None
  BY DEF AfterRead, Reading, Pc, Funded
<1>5. [pc |-> AfterRead(p, info), info |-> info] \in [pc : Pc, info : Info \cup {None}]
  BY <1>2, <1>4
<1>6. /\ run' \in [Phones -> [pc : Pc, info : Info \cup {None}]]
      /\ run'[p] = [pc |-> AfterRead(p, info), info |-> info] /\ run'[Other(p)] = run[Other(p)]
  BY <1>1, <1>5, Types, TwoPhones
<1>7. rec[p].step \notin Left
  BY <1>1 DEF active, Left
<1> QED
  BY <1>1, <1>3, <1>4, <1>6, <1>7, Types, Unsaved

\* Walked keeps the invariant.
LEMMA ByWalked ==
    ASSUME IInv, NEW p \in Phones, Walked(p)
    PROVE  IInv'
<1>1. /\ At(p, "walked") /\ EndStep(p) /\ UNCHANGED <<now, fund, spend, match, tower, misled>>
      /\ matchEnded(p) \/ UNCHANGED <<rec, faults>>
  BY DEF Walked
<1>2. rec[p].step \notin Left
  BY <1>1, Busy DEF At
<1>3. CASE matchEnded(p)
  BY <1>1, <1>2, <1>3, LeftIt, Types, Ended
<1>4. CASE UNCHANGED <<rec, faults>>
  BY <1>1, <1>4, Unsaved, Types, Ended
<1> QED
  BY <1>1, <1>3, <1>4

\* What a mark leaves of a record keeps the invariant wherever the step goes.
LEMMA MarkedStep ==
    ASSUME IInv, NEW p \in Phones,
           NEW m \in {"close", "walk_away", "accepted", "counterparty", "release_asked",
                      "release_signed", "release_none"},
           Mark(p, m), UNCHANGED <<now, fund, spend, tower, misled>>,
           run' \in [Phones -> [pc : Pc, info : Info \cup {None}]], run'[Other(p)] = run[Other(p)],
           match' \in Match, match'.sigs = match.sigs, faults' \in 0..MaxFaults,
           \/ run'[p].pc = "idle"
           \/ /\ rec[p].step \notin Left
              /\ run'[p].pc \in Reading \ {"send", "sent", "redeem"} /\ run'[p].info # None
              /\ run'[p].pc = "fund" => rec[p].funding = None
    PROVE  IInv'
<1>1. /\ rec' \in [Phones -> Record] /\ rec'[Other(p)] = rec[Other(p)]
      /\ rec'[p].step = rec[p].step /\ rec'[p].pending = rec[p].pending
      /\ rec'[p].funding = rec[p].funding /\ rec'[p].their = rec[p].their
      /\ rec'[p].rejected = rec[p].rejected
  BY Types, Marked
<1>2. Kept(p)
  <2>1. rec[p].step \in Left => rec[p].pending = None
    BY DEF IInv, PhoneInv, StepInv
  <2> QED
    BY <1>1, <2>1 DEF Kept, Reading
<1>3. Others(p)
  BY <1>1 DEF Others
<1>4. Reveals(p)
  BY <1>1, NothingRevealed DEF Reading
<1> QED
  BY <1>1, <1>2, <1>3, <1>4, Types, Quiet

\* review keeps the invariant.
LEMMA ByReview ==
    ASSUME IInv, NEW p \in Phones, review(p)
    PROVE  IInv'
<1>1. At(p, "review") /\ UNCHANGED <<now, fund, spend, tower, misled>>
  BY DEF review
<1>2. rec[p].step \notin Left
  BY <1>1, Busy DEF At
<1>3. CASE matchEnded(p) /\ EndStep(p) /\ UNCHANGED match
  BY <1>1, <1>2, <1>3, LeftIt, Types, Ended
<1>4. CASE EndStep(p) /\ UNCHANGED <<match, rec, faults>>
  BY <1>1, <1>4, Unsaved, Types, Ended
<1>5. CASE /\ match' = [match EXCEPT !.accepted = @ \cup {p},
                          !.status = IF @ = "proposed" /\ match.accepted \cup {p} = Phones
                                     THEN "accepted" ELSE @]
           /\ Goto(p, "accepted") /\ UNCHANGED <<rec, faults>>
  <2>1. match' \in Match /\ match'.sigs = match.sigs
    BY <1>5, Types DEF Match, Status
  <2>2. /\ run' \in [Phones -> [pc : Pc, info : Info \cup {None}]]
        /\ run'[p].pc = "accepted" /\ run'[p].info = run[p].info /\ run'[Other(p)] = run[Other(p)]
    BY <1>5, Types, Went DEF Pc
  <2>3. run[p].info # None
    BY <1>1 DEF IInv, PhoneInv, StepInv, At, Reading
  <2> QED
    BY <1>1, <1>2, <1>5, <2>1, <2>2, <2>3, Unsaved, Types DEF Reading
<1>6. CASE match' = [match EXCEPT !.status = "cancelled"] /\ closeUnfunded(p, "CANCELLED") /\ EndStep(p)
  <2>1. match' \in Match /\ match'.sigs = match.sigs
    BY <1>6, Types DEF Match, Status
  <2> QED
    BY <1>1, <1>2, <1>6, <2>1, LeftIt, Types, Ended
<1>7. CASE Mark(p, "walk_away") /\ UNCHANGED <<match, faults>> /\ EndStep(p)
  BY <1>1, <1>7, MarkedStep, Types, Ended
<1> QED
  BY <1>3, <1>4, <1>5, <1>6, <1>7 DEF review

\* Accepted keeps the invariant.
LEMMA ByAccepted ==
    ASSUME IInv, NEW p \in Phones, Accepted(p)
    PROVE  IInv'
<1>1. /\ At(p, "accepted") /\ Mark(p, "accepted") /\ Goto(p, "poll")
      /\ UNCHANGED <<now, fund, spend, match, tower, misled, faults>>
  BY DEF Accepted
<1>2. rec[p].step \notin Left /\ run[p].info # None
  BY <1>1, Busy DEF At, IInv, PhoneInv, StepInv, Reading
<1>3. /\ run' \in [Phones -> [pc : Pc, info : Info \cup {None}]]
      /\ run'[p].pc = "poll" /\ run'[p].info = run[p].info /\ run'[Other(p)] = run[Other(p)]
  BY <1>1, Types, Went DEF Pc
<1> QED
  BY <1>1, <1>2, <1>3, MarkedStep, Types DEF Reading

\* pollRelay keeps the invariant.
LEMMA ByPollRelay ==
    ASSUME IInv, NEW p \in Phones, pollRelay(p)
    PROVE  IInv'
<1> DEFINE pc == IF p = "P" THEN "their" ELSE IF Funded(p) THEN "after" ELSE "fund"
<1>1. /\ At(p, "poll") /\ UNCHANGED <<now, fund, spend, match, tower, misled>>
      /\ \/ Mark(p, "counterparty") /\ UNCHANGED faults /\ Goto(p, pc)
         \/ EndStep(p) /\ (matchEnded(p) \/ UNCHANGED <<rec, faults>>)
  BY DEF pollRelay
<1>2. rec[p].step \notin Left /\ run[p].info # None
  BY <1>1, Busy DEF At, IInv, PhoneInv, StepInv, Reading
<1>3. pc \in Pc /\ pc \in Reading \ {"send", "sent", "redeem"} /\ (pc = "fund" => rec[p].funding = None)
  BY DEF Pc, Reading, Funded
<1> HIDE DEF pc
<1>4. CASE Mark(p, "counterparty") /\ UNCHANGED faults /\ Goto(p, pc)
  <2>1. /\ run' \in [Phones -> [pc : Pc, info : Info \cup {None}]]
        /\ run'[p].pc = pc /\ run'[p].info = run[p].info /\ run'[Other(p)] = run[Other(p)]
    BY <1>3, <1>4, Types, Went
  <2> QED
    BY <1>1, <1>2, <1>3, <1>4, <2>1, MarkedStep, Types
<1>5. CASE EndStep(p) /\ matchEnded(p)
  BY <1>1, <1>2, <1>5, LeftIt, Types, Ended
<1>6. CASE EndStep(p) /\ UNCHANGED <<rec, faults>>
  BY <1>1, <1>6, Unsaved, Types, Ended
<1> QED
  BY <1>1, <1>4, <1>5, <1>6

\* theirFunding keeps the invariant: what the explorer agrees to is buried, so the initiator
\* turns to its redeem on a buried BTC leg.
LEMMA ByTheirFunding ==
    ASSUME IInv, NEW p \in Phones, theirFunding(p)
    PROVE  IInv'
<1> DEFINE o == Other(p)
           x == IF p = "I" THEN run[p].info.btc ELSE run[p].info.xbt
           real == x # None /\ fund[o][x] = "deep" /\ spend[o] = None
           r == [rec[p] EXCEPT !.their = x, !.step = IF p = "I" THEN "THEY_FUNDED" ELSE @]
           pc == IF p = "P" THEN (IF Funded(p) THEN "after" ELSE "fund") ELSE "redeem"
<1>1. At(p, "their") /\ UNCHANGED <<now, fund, spend, match, tower, misled>>
  BY DEF theirFunding
<1>2. PICK said \in BOOLEAN :
          /\ Cost(IF x = None \/ rec[p].their # None THEN 0 ELSE Wrong(said, real))
          /\ IF x # None /\ rec[p].their = None /\ Agreed(said, real)
             THEN Save(p, r) ELSE UNCHANGED rec
  BY DEF theirFunding
<1>3. \/ Goto(p, pc) /\ (p = "I" => rec'[p].their # None)
      \/ EndStep(p) /\ p = "I"
  BY DEF theirFunding, Goto, EndStep, Phones
<1>4. rec[p] \in Record /\ run[p] \in [pc : Pc, info : Info \cup {None}] /\ run[p].info # None
  BY <1>1, Types DEF At, IInv, PhoneInv, StepInv, Reading
<1>5. rec[p].step \notin Left
  BY <1>1, Busy DEF At
<1>6. x \in Tx
  BY <1>4 DEF Info
<1>7. faults' \in 0..MaxFaults
  <2>1. Wrong(said, real) \in Nat
    BY DEF Wrong
  <2> QED
    BY <1>2, <2>1, Types, Counted
<1>8. /\ rec' \in [Phones -> Record] /\ rec'[o] = rec[o]
      /\ rec'[p].pending = rec[p].pending /\ rec'[p].funding = rec[p].funding
      /\ rec'[p].step \in {rec[p].step, "THEY_FUNDED"} /\ rec'[p].rejected = rec[p].rejected
      /\ rec'[p].their = rec[p].their \/ (rec'[p].their \in Txs /\ fund[o][rec'[p].their] = "deep")
  <2>1. CASE UNCHANGED rec
    BY <2>1, Types
  <2>2. CASE x # None /\ real /\ Save(p, r)
    <3>1. r \in Record
      BY <1>4, <1>6 DEF Record
    <3>2. rec' \in [Phones -> Record] /\ rec'[p] = r /\ rec'[o] = rec[o]
      BY <2>2, <3>1, Types, Saved
    <3> QED
      BY <1>4, <1>6, <2>2, <3>2 DEF Record, Tx
  <2> QED
    BY <1>2, <2>1, <2>2 DEF Agreed
<1>9. rec'[p].their # None => \E y \in Txs : fund[o][y] = "deep"
  <2>1. rec[p].their # None => rec[p].their \in Txs /\ fund[o][rec[p].their] = "deep"
    BY <1>4 DEF IInv, PhoneInv, TheirInv, Record, Tx
  <2> QED
    BY <1>8, <2>1
<1> HIDE DEF x, real, r
<1>10. /\ pc \in Pc /\ pc \in Reading \ {"send", "sent"} /\ (pc = "redeem" => p # "P")
       /\ pc = "fund" => rec[p].funding = None
  BY DEF Pc, Reading, Funded
<1>11. pc # "redeem" => p = "P"
  OBVIOUS
<1> HIDE DEF pc
<1>12. /\ run' \in [Phones -> [pc : Pc, info : Info \cup {None}]] /\ run'[o] = run[o]
       /\ run'[p].pc = "idle" \/ (run'[p].pc = pc /\ run'[p].info # None)
  BY <1>3, <1>4, <1>10, Types, Went, Ended
<1>13. Others(p)
  BY <1>8, <1>12 DEF Others
<1>14. Kept(p)
  BY <1>5, <1>8, <1>10, <1>12 DEF Kept, Reading, Left
<1>15. Reveals(p)
  <2>1. <<"I", "redeem">> \in tower' => Deep("P")
    BY <1>1 DEF IInv, PreimageInv
  <2>2. ASSUME p = "I", run'[p].pc \in {"redeem", "redeemed"}
        PROVE  Deep("P")
    <3>1. Goto(p, pc) /\ rec'[p].their # None
      <4>1. EndStep(p) => run'[p].pc = "idle"
        BY Types, Ended
      <4> QED
        BY <1>3, <2>2, <4>1
    <3> QED
      BY <1>9, <2>2, <3>1, TwoPhones DEF Deep
  <2>3. p = "I" /\ rec'[p].step = "REDEEMED" => Deep("P")
    BY <1>8 DEF IInv, PreimageInv
  <2> QED
    BY <2>1, <2>2, <2>3 DEF Reveals
<1> QED
  BY <1>1, <1>5, <1>7, <1>8, <1>12, <1>13, <1>14, <1>15, Quiet, Types DEF Left

\* FindFunding keeps the invariant: what it records is on chain.
LEMMA ByFindFunding ==
    ASSUME IInv, NEW p \in Phones, FindFunding(p)
    PROVE  IInv'
<1>1. /\ At(p, "fund") \/ At(p, "sent")
      /\ Goto(p, "after") /\ UNCHANGED <<now, fund, spend, match, tower, misled, faults>>
  BY DEF FindFunding
<1>2. PICK x \in OnChain(p) : Save(p, Recorded(p, x))
  BY DEF FindFunding
<1>3. x \in Txs
  BY DEF OnChain
<1>4. rec[p] \in Record /\ run[p].info # None /\ rec[p].step \notin Left
  BY <1>1, Types, Busy DEF At, IInv, PhoneInv, StepInv, Reading
<1>5. Recorded(p, x) \in Record
  BY <1>3, <1>4 DEF Recorded, Record, Tx
<1>6. rec' \in [Phones -> Record] /\ rec'[p] = Recorded(p, x) /\ rec'[Other(p)] = rec[Other(p)]
  BY <1>2, <1>5, Types, Saved
<1>7. /\ rec'[p].pending = x /\ rec'[p].funding = x /\ rec'[p].rejected = rec[p].rejected
      /\ rec'[p].their = rec[p].their /\ rec'[p].step \in {"FUNDED", "THEY_FUNDED"}
  BY <1>3, <1>4, <1>6 DEF Recorded, Record
<1>8. /\ run' \in [Phones -> [pc : Pc, info : Info \cup {None}]]
      /\ run'[p].pc = "after" /\ run'[p].info = run[p].info /\ run'[Other(p)] = run[Other(p)]
  BY <1>1, Types, Went DEF Pc
<1>9. Kept(p) /\ Others(p)
  BY <1>3, <1>4, <1>6, <1>7, <1>8 DEF Kept, Others, Left, Reading
<1>10. Reveals(p)
  BY <1>1, <1>7, <1>8, NothingRevealed
<1> QED
  BY <1>1, <1>4, <1>6, <1>7, <1>8, <1>9, <1>10, Quiet, Types DEF Left

\* A step that was on its way and saves a step of its record, nothing else of it.
LEMMA SavedStep ==
    ASSUME IInv, NEW p \in Phones, rec[p].step \notin Left,
           rec' \in [Phones -> Record], rec'[Other(p)] = rec[Other(p)],
           rec'[p].pending = rec[p].pending, rec'[p].funding = rec[p].funding,
           rec'[p].their = rec[p].their, rec'[p].rejected = rec[p].rejected,
           rec'[p].step \notin Left \cup {"DONE", "REFUNDED"} \/ rec'[p].step = rec[p].step,
           run' \in [Phones -> [pc : Pc, info : Info \cup {None}]], run'[Other(p)] = run[Other(p)],
           \/ run'[p].pc = "idle"
           \/ run'[p].pc \in Reading \ {"fund", "send", "sent", "redeem"} /\ run'[p].info # None,
           UNCHANGED <<now, fund, spend, misled>>, match' \in Match, match'.sigs = match.sigs,
           tower' \subseteq Phones \X {"refund", "redeem"}, faults' \in 0..MaxFaults,
           <<"I", "redeem">> \in tower' \/ (p = "I" /\ rec'[p].step = "REDEEMED") => Deep("P")
    PROVE  IInv'
<1>1. Kept(p) /\ Others(p)
  BY DEF Kept, Others, Reading
<1>2. Reveals(p)
  BY DEF Reveals, Reading
<1>3. rec[p].step # "CANCELLED"
  BY DEF Left
<1> QED
  BY <1>1, <1>2, <1>3, Quiet

\* Refunded and Released keep the invariant.
LEMMA ByRefunded ==
    ASSUME IInv, NEW p \in Phones, Refunded(p) \/ (p = "I" /\ Released)
    PROVE  IInv'
<1>1. /\ run[p].pc \in {"refunded", "released"} /\ EndStep(p)
      /\ UNCHANGED <<now, fund, spend, match, tower, misled, faults>>
  BY DEF Refunded, Released, At
<1>2. rec[p] \in Record /\ rec[p].step \notin Left
  BY <1>1, Types, Busy
<1>3. /\ rec' \in [Phones -> Record] /\ rec'[Other(p)] = rec[Other(p)]
      /\ rec'[p].pending = rec[p].pending /\ rec'[p].funding = rec[p].funding
      /\ rec'[p].their = rec[p].their /\ rec'[p].step = "REFUNDING" /\ rec'[p].rejected = rec[p].rejected
  <2>1. CASE Refunded(p)
    <3>1. [rec[p] EXCEPT !.step = "REFUNDING"] \in Record
      BY <1>2 DEF Record
    <3>2. /\ rec' \in [Phones -> Record] /\ rec'[Other(p)] = rec[Other(p)]
          /\ rec'[p] = [rec[p] EXCEPT !.step = "REFUNDING"]
      BY <2>1, <3>1, Types, Saved DEF Refunded
    <3> QED
      BY <1>2, <3>2 DEF Record
  <2>2. CASE p = "I" /\ Released
    <3>1. [rec[p] EXCEPT !.step = "REFUNDING", !.marks = @ \cup {"released"}] \in Record
      BY <1>2 DEF Record
    <3>2. /\ rec' \in [Phones -> Record] /\ rec'[Other(p)] = rec[Other(p)]
          /\ rec'[p] = [rec[p] EXCEPT !.step = "REFUNDING", !.marks = @ \cup {"released"}]
      BY <2>2, <3>1, Types, Saved DEF Released
    <3> QED
      BY <1>2, <3>2 DEF Record
  <2> QED
    BY <2>1, <2>2
<1>4. <<"I", "redeem">> \in tower' => Deep("P")
  BY <1>1 DEF IInv, PreimageInv
<1> QED
  BY <1>1, <1>2, <1>3, <1>4, Types, Ended, SavedStep DEF Left

\* Redeemed keeps the invariant: an initiator at it redeemed a buried leg.
LEMMA ByRedeemed ==
    ASSUME IInv, NEW p \in Phones, Redeemed(p)
    PROVE  IInv'
<1> DEFINE rP == [rec[p] EXCEPT !.redeemed = TRUE, !.step = "REDEEMED"]
           rI == [rec[p] EXCEPT !.redeemed = TRUE, !.step = "REDEEMED",
                                !.marks = @ \cup {"redeem_watched"}]
           rF == [rec[p] EXCEPT !.redeemed = TRUE]
<1>1. /\ run[p].pc = "redeemed" /\ EndStep(p) /\ UNCHANGED <<now, fund, spend, match, misled>>
      /\ \/ p = "P" /\ Save(p, rP) /\ UNCHANGED <<tower, faults>>
         \/ p = "I" /\ Save(p, rI) /\ tower' = tower \cup {<<"I", "redeem">>} /\ Cost(0)
         \/ p = "I" /\ Save(p, rF) /\ UNCHANGED tower /\ Cost(1)
  BY DEF Redeemed, At
<1>2. rec[p] \in Record /\ rec[p].step \notin Left
  BY <1>1, Types, Busy
<1>3. rP \in Record /\ rI \in Record /\ rF \in Record
  BY <1>2 DEF Record
<1>4. PICK r \in {rP, rI, rF} : Save(p, r)
  BY <1>1
<1>5. rec' \in [Phones -> Record] /\ rec'[p] = r /\ rec'[Other(p)] = rec[Other(p)]
  BY <1>3, <1>4, Types, Saved
<1>6. /\ r.pending = rec[p].pending /\ r.funding = rec[p].funding /\ r.their = rec[p].their
      /\ r.rejected = rec[p].rejected /\ (r.step = "REDEEMED" \/ r.step = rec[p].step)
  BY <1>2, <1>4 DEF Record
<1>7. p = "I" => Deep("P")
  BY <1>1 DEF IInv, PreimageInv
<1>8. tower' \subseteq Phones \X {"refund", "redeem"} /\ (<<"I", "redeem">> \in tower' => Deep("P"))
  BY <1>1, <1>7, Types, TwoPhones DEF IInv, PreimageInv
<1>9. faults' \in 0..MaxFaults
  BY <1>1, Types, Counted
<1> HIDE DEF rP, rI, rF
<1> QED
  BY <1>1, <1>2, <1>5, <1>6, <1>7, <1>8, <1>9, Types, Ended, SavedStep DEF Left

\* What a refund watch and a `funded` leave of a match: its signatures, and its type.
LEMMA Watches ==
    ASSUME NEW p \in Phones, NEW x \in Tx, NEW m \in Match, NEW n \in RefundWatch(m, p, x) \cup Declare(m, p, x)
    PROVE  n \in Match /\ n.sigs = m.sigs
<1> DEFINE l == Legged(m, p, x)
<1>1. l \in Match /\ l.sigs = m.sigs
  BY DEF Legged, Match
<1>2. \A k \in Reinstated(l, x) : k \in Match /\ k.sigs = l.sigs
  <2>1. [l EXCEPT !.status = "both_funded", !.missed = FALSE] \in Match
        /\ [l EXCEPT !.status = "both_funded", !.missed = FALSE].sigs = l.sigs
    BY <1>1 DEF Match, Status
  <2> HIDE DEF l
  <2> QED
    BY <1>1, <2>1 DEF Reinstated
<1>3. /\ [l EXCEPT !.status = "both_funded"] \in Match /\ [l EXCEPT !.status = "both_funded"].sigs = l.sigs
      /\ [l EXCEPT !.status = "initiator_funded"] \in Match
      /\ [l EXCEPT !.status = "initiator_funded"].sigs = l.sigs
  BY <1>1 DEF Match, Status
<1>4. n \in RefundWatch(m, p, x) => n \in Reinstated(l, x) \/ n = l
  BY DEF RefundWatch
<1>5. n \in Declare(m, p, x) =>
          \/ n = m \/ n \in Reinstated(l, x)
          \/ n = [l EXCEPT !.status = "both_funded"] \/ n = [l EXCEPT !.status = "initiator_funded"]
  BY DEF Declare
<1> HIDE DEF l
<1> QED
  BY <1>1, <1>2, <1>3, <1>4, <1>5

\* afterFunding keeps the invariant: it marks what it did, and an initiator hands no redeem over.
LEMMA ByAfterFunding ==
    ASSUME IInv, NEW p \in Phones, afterFunding(p)
    PROVE  IInv'
<1> DEFINE todo == {"refund_watched"}
                \cup (IF run[p].info.status # "cancelled" \/ p = "P" THEN {"funded_posted"} ELSE {})
                \cup (IF p = "P" /\ rec[p].their # None THEN {"redeem_watched"} ELSE {})
           due == todo \ rec[p].marks
           x == rec[p].funding
           jobs(d) == (IF "refund_watched" \in d THEN {<<p, "refund">>} ELSE {})
                      \cup (IF "redeem_watched" \in d THEN {<<p, "redeem">>} ELSE {})
           took(m, done) == {d \in done : /\ d = "refund_watched" => Leg(m, p) = x
                                          /\ d = "funded_posted" => Settled(m, p, x)}
<1>1. /\ At(p, "after") /\ UNCHANGED <<now, fund, spend, misled>>
      /\ Goto(p, "their") \/ EndStep(p)
  BY DEF afterFunding
<1>2. PICK done \in SUBSET due :
      \E m \in IF "refund_watched" \in done THEN RefundWatch(match, p, x) ELSE {match} :
          /\ Cost(IF done = due THEN 0 ELSE 1)
          /\ match' \in IF "funded_posted" \in done THEN Declare(m, p, x) ELSE {m}
          /\ Save(p, [rec[p] EXCEPT !.marks = @ \cup took(m, done)])
          /\ tower' = tower \cup (IF "refund_watched" \in took(m, done) THEN {<<p, "refund">>} ELSE {})
                            \cup (IF "redeem_watched" \in took(m, done) THEN {<<p, "redeem">>} ELSE {})
  BY DEF afterFunding
<1>3. PICK m \in IF "refund_watched" \in done THEN RefundWatch(match, p, x) ELSE {match} :
          /\ Cost(IF done = due THEN 0 ELSE 1)
          /\ match' \in IF "funded_posted" \in done THEN Declare(m, p, x) ELSE {m}
          /\ Save(p, [rec[p] EXCEPT !.marks = @ \cup took(m, done)])
          /\ tower' = tower \cup (IF "refund_watched" \in took(m, done) THEN {<<p, "refund">>} ELSE {})
                            \cup (IF "redeem_watched" \in took(m, done) THEN {<<p, "redeem">>} ELSE {})
  BY <1>2
<1>4. PICK d : d = took(m, done)
  OBVIOUS
<1>5. d \subseteq done
  BY <1>4
<1>6. Save(p, [rec[p] EXCEPT !.marks = @ \cup d]) /\ tower' = tower \cup jobs(d)
  BY <1>3, <1>4
<1>7. rec[p] \in Record /\ run[p].info # None /\ rec[p].step \notin Left
  BY <1>1, Types, Busy DEF At, IInv, PhoneInv, StepInv, Reading
<1>8. done \subseteq {"refund_watched", "funded_posted", "redeem_watched"}
      /\ ("redeem_watched" \in done => p = "P")
  OBVIOUS
<1> HIDE DEF due, took
<1>9. [rec[p] EXCEPT !.marks = @ \cup d] \in Record
  BY <1>5, <1>7, <1>8 DEF Record
<1>10. /\ rec' \in [Phones -> Record] /\ rec'[p] = [rec[p] EXCEPT !.marks = @ \cup d]
       /\ rec'[Other(p)] = rec[Other(p)]
  BY <1>6, <1>9, Types, Saved
<1>11. /\ rec'[p].pending = rec[p].pending /\ rec'[p].funding = rec[p].funding
       /\ rec'[p].their = rec[p].their /\ rec'[p].step = rec[p].step
       /\ rec'[p].rejected = rec[p].rejected
  BY <1>7, <1>10 DEF Record
<1>12. tower' \subseteq Phones \X {"refund", "redeem"} /\ (<<"I", "redeem">> \in tower' => Deep("P"))
  <2>1. jobs(d) \subseteq {<<p, "refund">>, <<p, "redeem">>}
    OBVIOUS
  <2>2. <<"I", "redeem">> \notin jobs(d)
    BY <1>5, <1>8
  <2> QED
    BY <1>6, <2>1, <2>2, Types DEF IInv, PreimageInv
<1>13. match' \in Match /\ match'.sigs = match.sigs
  <2>1. x \in Tx
    BY <1>7 DEF Record
  <2> HIDE DEF x
  <2>2. m \in Match /\ m.sigs = match.sigs
    BY <1>3, <2>1, Types, Watches
  <2> QED
    BY <1>3, <2>1, <2>2, Watches
<1>14. faults' \in 0..MaxFaults
  BY <1>3, Types, Counted
<1>15. /\ run' \in [Phones -> [pc : Pc, info : Info \cup {None}]] /\ run'[Other(p)] = run[Other(p)]
       /\ run'[p].pc = "idle" \/ (run'[p].pc = "their" /\ run'[p].info # None)
  <2>1. "their" \in Pc
    BY DEF Pc
  <2> QED
    BY <1>1, <1>7, <2>1, Types, Went, Ended
<1>16. p = "I" /\ rec'[p].step = "REDEEMED" => Deep("P")
  BY <1>11 DEF IInv, PreimageInv
<1> HIDE DEF jobs, x
<1> QED
  BY <1>1, <1>7, <1>10, <1>11, <1>12, <1>13, <1>14, <1>15, <1>16, SavedStep DEF Reading

\* Signed keeps the invariant.
LEMMA BySigned ==
    ASSUME IInv, Signed
    PROVE  IInv'
<1>1. Mark("P", "release_signed") /\ EndStep("P")
      /\ UNCHANGED <<now, fund, spend, match, tower, misled, faults>>
  BY DEF Signed
<1> QED
  BY <1>1, MarkedStep, Types, Ended, TwoPhones

\* release keeps the invariant: it signs for a record that left.
LEMMA ByRelease ==
    ASSUME IInv, release
    PROVE  IInv'
<1>1. /\ At("P", "idle") /\ rec["P"].step = "CANCELLED" /\ rec["P"].rejected = {}
      /\ UNCHANGED <<now, fund, spend, tower, misled, faults>>
  BY DEF release, releaseDue
<1>2. CASE Mark("P", "release_none") /\ UNCHANGED <<match, run>>
  BY <1>1, <1>2, MarkedStep, Types, TwoPhones DEF At
<1>3. CASE match' = [match EXCEPT !.sigs = TRUE] /\ Goto("P", "signed") /\ UNCHANGED rec
  <2>1. match' \in Match
    BY <1>3, Types DEF Match
  <2>2. /\ run' \in [Phones -> [pc : Pc, info : Info \cup {None}]]
        /\ run'["P"].pc = "signed" /\ run'["I"] = run["I"]
    BY <1>3, Types, Went, TwoPhones DEF Pc
  <2>3. TypeOK'
    BY <1>1, <1>3, <2>1, <2>2, Types DEF TypeOK
  <2>4. rec["P"].pending = None
    BY <1>1, TwoPhones DEF IInv, PhoneInv, StepInv, Left
  <2>5. Kept("P") /\ Others("P")
    BY <1>1, <1>3, <2>2, <2>4, TwoPhones DEF Kept, Others
  <2>6. SpendStep
    BY <1>1 DEF SpendStep, Mined, IInv, PreimageInv, SeesPreimage
  <2>7. Reveals("P") /\ Settles("P")
    BY <1>1, <1>3 DEF Reveals, Settles, IInv, PreimageInv
  <2>8. SigsInv'
    BY <1>1, <1>3 DEF SigsInv
  <2> QED
    BY <1>1, <2>3, <2>5, <2>6, <2>7, <2>8, Acted, TwoPhones
<1> QED
  BY <1>2, <1>3 DEF release

-----------------------------------------------------------------------------
(* The steps of a phone that send a spend                                  *)

\* A step that sends and saves a mark at most keeps the invariant, if the preimage it sends goes
\* to a buried BTC leg.
LEMMA SentStep ==
    ASSUME IInv, NEW p \in Phones, NEW q \in Phones, NEW kind \in {"redeem", "refund", "release"},
           Sent(q, kind), q = "P" /\ kind = "redeem" => Deep("P"),
           UNCHANGED <<now, fund, tower, misled>>, faults' \in 0..MaxFaults,
           rec' \in [Phones -> Record], rec'[Other(p)] = rec[Other(p)],
           rec'[p].step = rec[p].step, rec'[p].pending = rec[p].pending,
           rec'[p].funding = rec[p].funding, rec'[p].their = rec[p].their,
           rec'[p].rejected = rec[p].rejected, match' \in Match, match'.sigs = match.sigs,
           run' \in [Phones -> [pc : Pc, info : Info \cup {None}]], run'[Other(p)] = run[Other(p)],
           \/ run'[p].pc = "idle"
           \/ /\ rec[p].step \notin Left
              /\ \/ run'[p].pc = "after" /\ run'[p].info # None
                 \/ run'[p].pc \in {"refunded", "released"}
                 \/ run'[p].pc = "redeemed" /\ (p = "I" => Deep("P"))
    PROVE  IInv'
<1>1. /\ spend' \in [Phones -> Spend \cup {None}]
      /\ spend'[Other(q)] = spend[Other(q)]
      /\ \A r \in Phones : (Mined(r) => spend'[r] = spend[r]) /\ (Mined(r)' => Mined(r))
      /\ spend'[q] # None => spend'[q] = spend[q] \/ spend'[q].kind = kind
  BY Types, Sends
<1>2. TypeOK'
  BY <1>1, Types DEF TypeOK
<1>3. SpendStep
  <2>1. SeesPreimage => Deep("P")
    BY DEF IInv, PreimageInv
  <2>2. SeesPreimage' => Deep("P")
    <3>1. CASE q = "P"
      BY <1>1, <2>1, <3>1 DEF SeesPreimage
    <3>2. CASE q = "I"
      BY <1>1, <2>1, <3>2, TwoPhones DEF SeesPreimage
    <3> QED
      BY <3>1, <3>2 DEF Phones
  <2> QED
    BY <1>1, <2>2 DEF SpendStep
<1>4. Kept(p) /\ Others(p)
  <2>1. rec[p].step \in Left => rec[p].pending = None
    BY DEF IInv, PhoneInv, StepInv
  <2> QED
    BY <2>1 DEF Kept, Others, Reading
<1>5. Reveals(p) /\ Settles(p)
  BY DEF Reveals, Settles, IInv, PreimageInv
<1>6. SigsInv'
  BY TwoPhones DEF IInv, SigsInv
<1> QED
  BY <1>2, <1>3, <1>4, <1>5, <1>6, Acted

\* A step that saves only where the swap stands, and sends nothing, keeps the invariant, if it
\* ends the swap on a mined spend only.
LEMMA StoodStep ==
    ASSUME IInv, NEW p \in Phones, NEW s \in {"REDEEMED", "REFUNDING", "REFUNDED", "THEY_FUNDED", "DONE"},
           Save(p, [rec[p] EXCEPT !.step = s]),
           rec[p].step \notin Left, UNCHANGED <<now, fund, spend, match, tower, run, misled>>,
           run[p].pc = "idle", faults' \in 0..MaxFaults,
           p = "I" /\ s = "REDEEMED" => Deep("P"),
           s = "DONE" => Mined(Other(p)) /\ (p = "I" => spend["P"].kind = "redeem"),
           s = "REFUNDED" => Mined(p) /\ spend[p].kind # "redeem"
    PROVE  IInv'
<1>1. rec[p] \in Record
  BY Types
<1>2. [rec[p] EXCEPT !.step = s] \in Record
  BY <1>1 DEF Record
<1>3. /\ rec' \in [Phones -> Record] /\ rec'[p] = [rec[p] EXCEPT !.step = s]
      /\ rec'[Other(p)] = rec[Other(p)]
  BY <1>2, Types, Saved
<1>4. /\ rec'[p].pending = rec[p].pending /\ rec'[p].funding = rec[p].funding
      /\ rec'[p].their = rec[p].their /\ rec'[p].step = s /\ rec'[p].rejected = rec[p].rejected
  BY <1>1, <1>3 DEF Record
<1>5. TypeOK'
  BY <1>3, Types DEF TypeOK
<1>6. SpendStep
  BY DEF SpendStep, Mined, IInv, PreimageInv, SeesPreimage
<1>7. Kept(p) /\ Others(p)
  BY <1>3, <1>4 DEF Kept, Others, Left
<1>8. Reveals(p)
  BY <1>4 DEF Reveals, IInv, PreimageInv
<1>9. Settles(p)
  BY <1>4 DEF Settles
<1>10. SigsInv'
  <2>1. CASE p = "P"
    BY <2>1 DEF IInv, SigsInv, Left
  <2>2. CASE p = "I"
    BY <1>3, <2>2, TwoPhones DEF IInv, SigsInv
  <2> QED
    BY <2>1, <2>2 DEF Phones
<1> QED
  BY <1>5, <1>6, <1>7, <1>8, <1>9, <1>10, Acted

\* A wrong answer is one thing gone wrong.
LEMMA Asked ==
    ASSUME IInv, NEW a, NEW b, Cost(Wrong(a, b))
    PROVE  faults' \in 0..MaxFaults
BY Types, Counted DEF Wrong

\* participantRedeem keeps the invariant.
LEMMA ByParticipantRedeem ==
    ASSUME IInv, participantRedeem
    PROVE  IInv'
<1>1. /\ At("P", "idle") /\ active("P") /\ UNCHANGED <<now, fund, match, tower, misled>> /\ "P" \in Phones
      /\ "I" \in Phones /\ Other("P") = "I"
  BY TwoPhones DEF participantRedeem
<1>2. PICK there \in BOOLEAN :
           /\ Cost(Wrong(there, spend["I"] = None))
           /\ IF there
              THEN /\ Sent("I", "redeem") /\ UNCHANGED rec
                   /\ IF Took("I", "redeem") THEN Goto("P", "redeemed") ELSE EndStep("P")
              ELSE /\ Save("P", [rec["P"] EXCEPT !.step = "REDEEMED"])
                   /\ UNCHANGED <<spend, run>>
  BY DEF participantRedeem
<1>3. rec["P"].step \notin Left /\ run["P"].pc = "idle"
  BY <1>1 DEF active, Left, At
<1>4. faults' \in 0..MaxFaults
  BY <1>2, Asked
<1>5. CASE Sent("I", "redeem") /\ UNCHANGED rec /\ (Goto("P", "redeemed") \/ EndStep("P"))
  <2>1. /\ run' \in [Phones -> [pc : Pc, info : Info \cup {None}]] /\ run'["I"] = run["I"]
        /\ run'["P"].pc \in {"idle", "redeemed"}
    <3>1. "redeemed" \in Pc
      BY DEF Pc
    <3> QED
      BY <1>1, <1>5, <3>1, Types, Went, Ended
  <2> QED
    BY <1>1, <1>3, <1>4, <1>5, <2>1, SentStep, Types
<1>6. CASE Save("P", [rec["P"] EXCEPT !.step = "REDEEMED"]) /\ UNCHANGED <<spend, run>>
  BY <1>1, <1>3, <1>4, <1>6, StoodStep
<1> QED
  BY <1>2, <1>5, <1>6

\* refundIfDue keeps the invariant.
LEMMA ByRefundIfDue ==
    ASSUME IInv, NEW p \in Phones, refundIfDue(p)
    PROVE  IInv'
<1>1. /\ At(p, "idle") /\ active(p) /\ UNCHANGED <<now, fund, match, tower, misled>>
  BY DEF refundIfDue
<1>2. PICK gone \in BOOLEAN :
           /\ Cost(Wrong(gone, spend[p] # None))
           /\ IF Agreed(gone, spend[p] # None)
              THEN Save(p, [rec[p] EXCEPT !.step = "REFUNDING"]) /\ UNCHANGED <<spend, run>>
              ELSE /\ Sent(p, "refund") /\ UNCHANGED rec
                   /\ IF Took(p, "refund") THEN Goto(p, "refunded") ELSE EndStep(p)
  BY DEF refundIfDue
<1>3. rec[p].step \notin Left /\ run[p].pc = "idle"
  BY <1>1 DEF active, Left, At
<1>4. faults' \in 0..MaxFaults
  BY <1>2, Asked
<1>5. CASE Sent(p, "refund") /\ UNCHANGED rec /\ (Goto(p, "refunded") \/ EndStep(p))
  <2>1. /\ run' \in [Phones -> [pc : Pc, info : Info \cup {None}]] /\ run'[Other(p)] = run[Other(p)]
        /\ run'[p].pc \in {"idle", "refunded"}
    <3>1. "refunded" \in Pc
      BY DEF Pc
    <3> QED
      BY <1>5, <3>1, Types, Went, Ended
  <2> QED
    BY <1>1, <1>3, <1>4, <1>5, <2>1, SentStep, Types
<1>6. CASE Save(p, [rec[p] EXCEPT !.step = "REFUNDING"]) /\ UNCHANGED <<spend, run>>
  BY <1>1, <1>3, <1>4, <1>6, StoodStep
<1> QED
  BY <1>2, <1>5, <1>6

\* refundProgress keeps the invariant: it settles on a mined spend of our own.
LEMMA ByRefundProgress ==
    ASSUME IInv, NEW p \in Phones, refundProgress(p)
    PROVE  IInv'
<1>1. /\ run[p].pc = "idle" /\ rec[p].step \notin Left /\ UNCHANGED <<now, fund, match, tower, run, misled>>
  BY DEF refundProgress, At, Left
<1>2. PICK confirmed \in BOOLEAN :
           /\ Cost(Wrong(confirmed, Mined(p)))
           /\ IF Agreed(confirmed, OurSpend(p))
              THEN Save(p, [rec[p] EXCEPT !.step = "REFUNDED"]) /\ UNCHANGED spend
              ELSE /\ UNCHANGED rec
                   /\ IF now < Lock(p) THEN Has(p, "released") /\ spend[p] = None /\ Sent(p, "release")
                                       ELSE Sent(p, "refund")
  BY DEF refundProgress
<1>3. faults' \in 0..MaxFaults
  BY <1>2, Asked
<1>4. CASE OurSpend(p) /\ Save(p, [rec[p] EXCEPT !.step = "REFUNDED"]) /\ UNCHANGED spend
  <2>1. Mined(p) /\ spend[p].kind # "redeem"
    BY <1>4 DEF OurSpend
  <2> QED
    BY <1>1, <1>3, <1>4, <2>1, StoodStep
<1>5. CASE UNCHANGED rec /\ Sent(p, "release")
  BY <1>1, <1>3, <1>5, SentStep, Types
<1>6. CASE UNCHANGED rec /\ Sent(p, "refund")
  BY <1>1, <1>3, <1>6, SentStep, Types
<1> QED
  BY <1>2, <1>4, <1>5, <1>6 DEF Agreed

\* doneCheck keeps the invariant: an initiator is done on its own redeem only.
LEMMA ByDoneCheck ==
    ASSUME IInv, NEW p \in Phones, doneCheck(p)
    PROVE  IInv'
<1>1. /\ run[p].pc = "idle" /\ rec[p].step = "REDEEMED" /\ rec[p].step \notin Left
      /\ UNCHANGED <<now, fund, match, tower, run, misled>>
  BY DEF doneCheck, At, Left
<1>2. PICK confirmed \in BOOLEAN :
           /\ Cost(Wrong(confirmed, Mined(Other(p))))
           /\ IF Agreed(confirmed, Mined(Other(p)))
              THEN Save(p, [rec[p] EXCEPT !.step = DoneStep(p)]) /\ UNCHANGED spend
              ELSE p = "I" /\ Sent(Other(p), "redeem") /\ UNCHANGED rec
  BY DEF doneCheck
<1>3. faults' \in 0..MaxFaults
  BY <1>2, Asked
<1>4. CASE Mined(Other(p)) /\ Save(p, [rec[p] EXCEPT !.step = DoneStep(p)]) /\ UNCHANGED spend
  <2>1. DoneStep(p) \in {"THEY_FUNDED", "DONE"}
        /\ (DoneStep(p) = "DONE" => (p = "I" => spend["P"].kind = "redeem"))
    BY DEF DoneStep
  <2> HIDE DEF DoneStep
  <2> QED
    BY <1>1, <1>3, <1>4, <2>1, StoodStep
<1>5. CASE p = "I" /\ Sent(Other(p), "redeem") /\ UNCHANGED rec
  <2>1. Deep("P") /\ Other(p) \in Phones
    BY <1>1, <1>5, TwoPhones DEF IInv, PreimageInv
  <2> QED
    BY <1>1, <1>3, <1>5, <2>1, SentStep, Types
<1> QED
  BY <1>2, <1>4, <1>5 DEF Agreed

\* initiatorRedeem keeps the invariant: the leg it redeems is buried.
LEMMA ByInitiatorRedeem ==
    ASSUME IInv, initiatorRedeem
    PROVE  IInv'
<1>1. /\ run["I"].pc = "redeem" /\ UNCHANGED <<now, fund, match, misled>>
      /\ "P" \in Phones /\ "I" \in Phones /\ Other("I") = "P"
  BY TwoPhones DEF initiatorRedeem, At
<1> DEFINE r == [rec["I"] EXCEPT !.step = "REDEEMED", !.marks = @ \cup {"redeem_watched"}]
<1>2. /\ \E there, watched \in BOOLEAN :
             Cost(Wrong(there, spend["P"] = None) + IF ~there /\ SeesPreimage /\ ~watched THEN 1 ELSE 0)
      /\ \/ EndStep("I") /\ UNCHANGED <<spend, rec, tower>>
         \/ Sent("P", "redeem") /\ UNCHANGED <<rec, tower>> /\ (Goto("I", "redeemed") \/ EndStep("I"))
         \/ /\ EndStep("I") /\ UNCHANGED spend /\ Save("I", r) /\ tower' = tower \cup {<<"I", "redeem">>}
  BY DEF initiatorRedeem
<1>3. Deep("P") /\ rec["I"].step \notin Left
  BY <1>1, Busy DEF IInv, PreimageInv
<1>4. faults' \in 0..MaxFaults
  <2>1. PICK there \in BOOLEAN, watched \in BOOLEAN :
             Cost(Wrong(there, spend["P"] = None) + IF ~there /\ SeesPreimage /\ ~watched THEN 1 ELSE 0)
    BY <1>2
  <2>2. Wrong(there, spend["P"] = None) + (IF ~there /\ SeesPreimage /\ ~watched THEN 1 ELSE 0) \in Nat
    BY DEF Wrong
  <2> QED
    BY <2>1, <2>2, Types, Counted
<1>5. CASE EndStep("I") /\ UNCHANGED <<spend, rec, tower>>
  BY <1>1, <1>4, <1>5, Unsaved, Types, Ended
<1>6. CASE Sent("P", "redeem") /\ UNCHANGED <<rec, tower>> /\ (Goto("I", "redeemed") \/ EndStep("I"))
  <2>1. /\ run' \in [Phones -> [pc : Pc, info : Info \cup {None}]] /\ run'["P"] = run["P"]
        /\ run'["I"].pc \in {"idle", "redeemed"}
    <3>1. "redeemed" \in Pc
      BY DEF Pc
    <3> QED
      BY <1>1, <1>6, <3>1, Types, Went, Ended
  <2> QED
    BY <1>1, <1>3, <1>4, <1>6, <2>1, SentStep, Types
<1>7. CASE EndStep("I") /\ UNCHANGED spend /\ Save("I", r) /\ tower' = tower \cup {<<"I", "redeem">>}
  <2>1. rec["I"] \in Record
    BY <1>1, Types
  <2>2. r \in Record
    BY <2>1 DEF Record
  <2>3. rec' \in [Phones -> Record] /\ rec'["I"] = r /\ rec'["P"] = rec["P"]
    BY <1>1, <1>7, <2>2, Types, Saved
  <2>4. /\ rec'["I"].pending = rec["I"].pending /\ rec'["I"].funding = rec["I"].funding
        /\ rec'["I"].their = rec["I"].their /\ rec'["I"].step = "REDEEMED"
        /\ rec'["I"].rejected = rec["I"].rejected
    BY <2>1, <2>3 DEF Record
  <2>5. tower' \subseteq Phones \X {"refund", "redeem"}
    BY <1>1, <1>7, Types
  <2>6. /\ run' \in [Phones -> [pc : Pc, info : Info \cup {None}]] /\ run'["P"] = run["P"]
        /\ run'["I"].pc = "idle"
    BY <1>1, <1>7, Types, Ended
  <2> QED
    BY <1>1, <1>3, <1>4, <1>7, <2>3, <2>4, <2>5, <2>6, SavedStep, Types DEF Left
<1> QED
  BY <1>2, <1>5, <1>6, <1>7

\* releaseBack keeps the invariant.
LEMMA ByReleaseBack ==
    ASSUME IInv, releaseBack
    PROVE  IInv'
<1>1. /\ run["I"].pc = "release" /\ UNCHANGED <<now, fund, tower, misled, faults>> /\ Mark("I", "release_asked")
      /\ match' = [match EXCEPT !.asked = @ \/ (~Has("I", "release_asked") /\ releasable(match))]
      /\ "P" \in Phones /\ "I" \in Phones /\ Other("I") = "P"
  BY TwoPhones DEF releaseBack, At
<1>2. /\ rec["I"].step \notin Left /\ run["I"].info # None /\ "after" \in Pc /\ "released" \in Pc
      /\ faults' \in 0..MaxFaults
  BY <1>1, Busy, Types DEF IInv, PhoneInv, StepInv, Reading, Pc
<1>3. match' \in Match /\ match'.sigs = match.sigs
  BY <1>1, Types DEF Match
<1>4. CASE Sent("I", "release") /\ (Goto("I", "released") \/ Goto("I", "after"))
  <2>1. /\ run' \in [Phones -> [pc : Pc, info : Info \cup {None}]] /\ run'["P"] = run["P"]
        /\ run'["I"].pc \in {"after", "released"} /\ run'["I"].info # None
    BY <1>1, <1>2, <1>4, Types, Went
  <2>2. /\ rec' \in [Phones -> Record] /\ rec'["P"] = rec["P"]
        /\ rec'["I"].step = rec["I"].step /\ rec'["I"].pending = rec["I"].pending
        /\ rec'["I"].funding = rec["I"].funding /\ rec'["I"].their = rec["I"].their
        /\ rec'["I"].rejected = rec["I"].rejected
    BY <1>1, Types, Marked
  <2> QED
    BY <1>1, <1>2, <1>3, <1>4, <2>1, <2>2, SentStep
<1>5. CASE Goto("I", "after") /\ UNCHANGED spend
  <2>1. /\ run' \in [Phones -> [pc : Pc, info : Info \cup {None}]] /\ run'["P"] = run["P"]
        /\ run'["I"].pc = "after" /\ run'["I"].info # None
    BY <1>1, <1>2, <1>5, Types, Went
  <2>2. "after" \in Reading \ {"send", "sent", "redeem"}
    BY DEF Reading
  <2> QED
    BY <1>1, <1>2, <1>3, <1>5, <2>1, <2>2, MarkedStep, Types
<1> QED
  BY <1>4, <1>5 DEF releaseBack

-----------------------------------------------------------------------------
(* The fundings                                                            *)

\* A step, of a phone or its chain, that moves one funding keeps the invariant, if a buried one
\* stays, one that could not land is taken up only with none pending, and the participant's
\* first stands on a buried XBT leg.
LEMMA FundStep ==
    ASSUME IInv, NEW p \in Phones, NEW x \in Txs,
           NEW v \in {"signed", "pool", "mined", "deep", "dead"},
           fund' = [fund EXCEPT ![p][x] = v],
           fund[p][x] = "deep" => v = "deep",
           \/ rec'[p].pending = rec[p].pending /\ (v = "dead" \/ Live(p, x))
           \/ /\ rec[p].pending = None /\ rec'[p].pending = x /\ fund[p][x] = "none"
              /\ rec[p].step \notin Left,
           rec[p].funding = x => v \in {"pool", "mined", "deep"},
           fund[p][x] = "none" /\ p = "P" => Deep("I"),
           rec' \in [Phones -> Record], rec'[Other(p)] = rec[Other(p)],
           rec'[p].step = rec[p].step, rec'[p].funding = rec[p].funding, rec'[p].their = rec[p].their,
           rec'[p].rejected = rec[p].rejected,
           UNCHANGED <<now, spend, match, tower, misled>>, faults' \in 0..MaxFaults,
           run' \in [Phones -> [pc : Pc, info : Info \cup {None}]], run'[Other(p)] = run[Other(p)],
           \/ run'[p] = run[p] \/ run'[p].pc = "idle"
           \/ /\ run'[p].pc \in {"send", "sent"} /\ run'[p].info # None
              /\ rec[p].step \notin Left /\ rec'[p].pending # None /\ rec[p].funding = None
    PROVE  IInv'
<1>1. /\ fund'[p][x] = v /\ \A y \in Txs : y # x => fund'[p][y] = fund[p][y]
      /\ fund'[Other(p)] = fund[Other(p)]
  BY Types, TwoPhones DEF TypeOK
<1>2. fund' \in [Phones -> [Txs -> {"none", "signed", "pool", "mined", "deep", "dead"}]]
  BY Types DEF TypeOK
<1>3. TypeOK'
  BY <1>2, Types DEF TypeOK
<1>4. DeepStays
  BY <1>1, TwoPhones DEF DeepStays
<1>5. PhoneInv(p)'
  <2>1. FundInv(p)'
    <3>1. OneLands(p)'
      <4>1. \A y \in Txs : Live(p, y)' => Live(p, y) \/ (y = x /\ rec[p].pending = None /\ rec'[p].pending = x)
        BY <1>1 DEF Live
      <4>2. rec[p].pending = None => \A y \in Txs \ misled[p] : ~Live(p, y)
        BY DEF IInv, PhoneInv, FundInv, OneLands
      <4>3. x # None
        BY SwapEngineConstants
      <4> QED
        BY <4>1, <4>2, <4>3 DEF IInv, PhoneInv, FundInv, OneLands
    <3>2. rec'[p].funding # None => rec'[p].funding = rec'[p].pending /\ rec'[p].funding \in OnChain(p)'
      <4> SUFFICES ASSUME rec[p].funding # None
                   PROVE  rec[p].funding = rec'[p].pending /\ rec[p].funding \in OnChain(p)'
        OBVIOUS
      <4>1. rec[p].funding = rec[p].pending /\ rec[p].funding \in Txs
            /\ fund[p][rec[p].funding] \in {"pool", "mined", "deep"}
        BY DEF IInv, PhoneInv, FundInv, OnChain
      <4>2. fund'[p][rec[p].funding] \in {"pool", "mined", "deep"}
        BY <1>1, <4>1
      <4> QED
        BY <4>1, <4>2 DEF OnChain
    <3>3. /\ run'[p].pc \in {"send", "sent"} => rec'[p].pending # None
          /\ run'[p].pc \in {"fund", "send", "sent"} => rec'[p].funding = None
      BY DEF IInv, PhoneInv, FundInv
    <3>4. rec'[p].pending # None => fund'[p][rec'[p].pending] # "none"
      <4>1. rec'[p].pending \in Tx
        BY DEF Record
      <4> QED
        BY <1>1, <4>1 DEF IInv, PhoneInv, FundInv, Tx
    <3>5. misled[p] \subseteq rec[p].rejected /\ misled[p] \subseteq Txs /\ \A y \in misled[p] : fund[p][y] # "none"
      BY Types DEF TypeOK, IInv, PhoneInv, FundInv
    <3>6. \A y \in misled[p] : fund'[p][y] # "none"
      BY <1>1, <3>5
    <3>7. rec'[p].pending \in misled[p] => rec'[p].funding = rec'[p].pending
      BY <3>5 DEF IInv, PhoneInv, FundInv
    <3> QED
      BY <3>1, <3>2, <3>3, <3>4, <3>5, <3>6, <3>7 DEF FundInv
  <2>2. StepInv(p)'
    BY DEF IInv, PhoneInv, StepInv, Left, Reading
  <2>3. TheirInv(p)'
    BY <1>1 DEF IInv, PhoneInv, TheirInv
  <2> QED
    BY <2>1, <2>2, <2>3 DEF PhoneInv
<1>6. PhoneInv(Other(p))'
  BY <1>1, <1>4, OtherPhone, TwoPhones, Types DEF IInv
<1>7. \A q \in Phones : PhoneInv(q)'
  BY <1>5, <1>6, TwoPhones
<1>8. (Deep("P") => Deep("P")') /\ (Deep("I") => Deep("I")')
  BY <1>4, TwoPhones DEF Deep, DeepStays
<1>9. PreimageInv'
  <2>1. rec'["I"].step = rec["I"].step
    BY TwoPhones
  <2>2. run'["I"].pc \in {"redeem", "redeemed"} => run["I"].pc \in {"redeem", "redeemed"}
    BY TwoPhones
  <2>3. SeesPreimage' = SeesPreimage
    BY DEF SeesPreimage
  <2>4. ASSUME NEW y \in Txs, fund'["P"][y] # "none"
        PROVE  Deep("I")
    <3>1. CASE fund["P"][y] # "none"
      BY <3>1 DEF IInv, PreimageInv
    <3>2. CASE fund["P"][y] = "none"
      <4>1. p = "P" /\ y = x
        BY <1>1, <2>4, <3>2, TwoPhones DEF Phones
      <4> QED
        BY <1>1, <2>4, <3>2, <4>1
    <3> QED
      BY <3>1, <3>2
  <2> QED
    BY <1>8, <2>1, <2>2, <2>3, <2>4 DEF IInv, PreimageInv
<1>10. SigsInv' /\ SettledForGood'
  <2>1. \A q \in Phones : rec'[q].step = rec[q].step /\ rec'[q].rejected = rec[q].rejected
    BY TwoPhones
  <2> QED
    BY <2>1, TwoPhones DEF IInv, SigsInv, SettledForGood, Mined
<1> QED
  BY <1>3, <1>7, <1>9, <1>10 DEF IInv

\* What a transaction sent becomes: one signed reaches the mempool.
Resent(p, x) == IF fund[p][x] = "signed" THEN "pool" ELSE fund[p][x]

\* Sending the pending funding, once or again, keeps the invariant.
LEMMA SentFunding ==
    ASSUME IInv, NEW p \in Phones, NEW x \in Txs, x = rec[p].pending, rec[p].step \notin Left,
           rec[p].funding = None, fund' = [fund EXCEPT ![p][x] = Resent(p, x)],
           UNCHANGED <<now, spend, match, tower, misled>>, rec' = rec, faults' \in 0..MaxFaults,
           run' \in [Phones -> [pc : Pc, info : Info \cup {None}]], run'[Other(p)] = run[Other(p)],
           run'[p].pc = "idle" \/ (run'[p].pc = "sent" /\ run'[p].info # None)
    PROVE  IInv'
<1>1. fund[p][x] \in {"signed", "pool", "mined", "deep", "dead"}
  BY Types, SwapEngineConstants DEF TypeOK, IInv, PhoneInv, FundInv
<1>2. Resent(p, x) \in {"signed", "pool", "mined", "deep", "dead"}
  BY <1>1 DEF Resent
<1>3. /\ fund[p][x] = "deep" => Resent(p, x) = "deep"
      /\ Resent(p, x) = "dead" \/ Live(p, x)
      /\ fund[p][x] # "none" /\ rec[p].funding # x
  BY <1>1, SwapEngineConstants DEF Resent, Live
<1>4. rec' \in [Phones -> Record] /\ x # None
  BY Types, SwapEngineConstants
<1> QED
  BY <1>2, <1>3, <1>4, FundStep

\* The funding pending, sent.
LEMMA PendingSent ==
    ASSUME IInv, NEW p \in Phones, rec[p].pending # None,
           fund' = [fund EXCEPT ![p][rec[p].pending] = IF @ = "signed" THEN "pool" ELSE @]
    PROVE  rec[p].pending \in Txs /\ fund' = [fund EXCEPT ![p][rec[p].pending] = Resent(p, rec[p].pending)]
<1>1. rec[p].pending \in Txs
  BY Types DEF Record, Tx
<1> QED
  BY <1>1, Types DEF TypeOK, Resent

\* Send keeps the invariant.
LEMMA BySend ==
    ASSUME IInv, NEW p \in Phones, Send(p)
    PROVE  IInv'
<1>1. /\ run[p].pc = "send" /\ (Goto(p, "sent") \/ EndStep(p))
      /\ fund' = [fund EXCEPT ![p][rec[p].pending] = IF @ = "signed" THEN "pool" ELSE @]
      /\ UNCHANGED <<now, spend, match, tower, rec, misled, faults>>
  BY DEF Send, At
<1>2. rec[p].pending # None /\ rec[p].funding = None /\ rec[p].step \notin Left /\ run[p].info # None
  BY <1>1, Busy DEF IInv, PhoneInv, FundInv, StepInv, Reading
<1>3. /\ run' \in [Phones -> [pc : Pc, info : Info \cup {None}]] /\ run'[Other(p)] = run[Other(p)]
      /\ run'[p].pc = "idle" \/ (run'[p].pc = "sent" /\ run'[p].info # None)
  <2>1. "sent" \in Pc
    BY DEF Pc
  <2> QED
    BY <1>1, <1>2, <2>1, Types, Went, Ended
<1> QED
  BY <1>1, <1>2, <1>3, PendingSent, SentFunding, Types

\* A funding given up, dead or counted as one the phone was misled about, keeps the invariant.
LEMMA GivenUp ==
    ASSUME IInv, NEW p \in Phones, NEW x \in Txs, x = rec[p].pending, rec[p].step \notin Left,
           run[p].pc = "fund", NEW given, given = misled[p] \/ given = misled[p] \cup {x},
           Live(p, x) => x \in given,
           misled' = [misled EXCEPT ![p] = given],
           Save(p, [rec[p] EXCEPT !.pending = None, !.rejected = @ \cup {x}]),
           UNCHANGED <<now, fund, spend, match, tower>>, faults' \in 0..MaxFaults,
           run' \in [Phones -> [pc : Pc, info : Info \cup {None}]], run'[Other(p)] = run[Other(p)],
           run'[p].pc = "idle"
    PROVE  IInv'
<1> DEFINE r == [rec[p] EXCEPT !.pending = None, !.rejected = @ \cup {x}]
<1>1. rec[p] \in Record
  BY Types
<1>2. r \in Record
  BY <1>1 DEF Record, Tx
<1>3. rec' \in [Phones -> Record] /\ rec'[p] = r /\ rec'[Other(p)] = rec[Other(p)]
  BY <1>2, Types, Saved
<1>4. /\ rec'[p].pending = None /\ rec'[p].funding = rec[p].funding
      /\ rec'[p].their = rec[p].their /\ rec'[p].step = rec[p].step
      /\ rec'[p].rejected = rec[p].rejected \cup {x}
  BY <1>1, <1>3 DEF Record
<1> HIDE DEF r
<1>5. misled \in [Phones -> SUBSET Txs] /\ given \in SUBSET Txs
  BY Types DEF TypeOK
<1>6. misled' \in [Phones -> SUBSET Txs] /\ misled'[p] = given /\ misled'[Other(p)] = misled[Other(p)]
  BY <1>5, TwoPhones
<1>7. FundInv(p)
  BY DEF IInv, PhoneInv
<1>8. rec[p].funding = None /\ x # None /\ x \notin misled[p] /\ fund[p][x] # "none"
  BY <1>7, SwapEngineConstants DEF FundInv
<1>9. \A y \in Txs \ given : ~Live(p, y)
  BY <1>7, <1>8 DEF FundInv, OneLands
<1>10. FundInv(p)'
  <2>1. OneLands(p)'
    BY <1>6, <1>9 DEF OneLands, Live
  <2>2. given \subseteq rec'[p].rejected /\ \A y \in given : fund[p][y] # "none"
    BY <1>4, <1>7, <1>8 DEF FundInv
  <2>3. None \notin given
    BY <1>5, SwapEngineConstants
  <2> QED
    BY <1>4, <1>6, <1>8, <2>1, <2>2, <2>3 DEF FundInv
<1>11. StepInv(p)' /\ TheirInv(p)'
  BY <1>4 DEF StepInv, TheirInv, Reading, Left, IInv, PhoneInv
<1>12. DeepStays
  BY DEF DeepStays
<1>13. PhoneInv(Other(p))'
  BY <1>3, <1>6, <1>12, OtherPhone, TwoPhones, Types DEF IInv
<1>14. \A q \in Phones : PhoneInv(q)'
  BY <1>10, <1>11, <1>13, TwoPhones DEF PhoneInv
<1>15. \A q \in Phones : rec'[q].step = rec[q].step
  BY <1>3, <1>4, TwoPhones
<1>16. PreimageInv'
  <2>1. run'["I"].pc \in {"redeem", "redeemed"} => run["I"].pc \in {"redeem", "redeemed"}
    BY TwoPhones
  <2>2. rec'["I"].step = rec["I"].step
    BY <1>15, TwoPhones
  <2> QED
    BY <2>1, <2>2 DEF IInv, PreimageInv, SeesPreimage, Deep
<1>17. SettledForGood'
  BY <1>15 DEF IInv, SettledForGood, Mined
<1>18. SigsInv'
  <2>1. CASE p = "P"
    BY <2>1 DEF IInv, SigsInv, Left
  <2>2. CASE p = "I"
    BY <1>3, <2>2, TwoPhones DEF IInv, SigsInv
  <2> QED
    BY <2>1, <2>2 DEF Phones
<1>19. TypeOK'
  BY <1>3, <1>6, Types DEF TypeOK
<1> QED
  BY <1>14, <1>16, <1>17, <1>18, <1>19 DEF IInv

\* resendPending keeps the invariant: one given up was dead, or the phone was misled about it.
LEMMA ByResendPending ==
    ASSUME IInv, NEW p \in Phones, resendPending(p)
    PROVE  IInv'
<1> DEFINE x == rec[p].pending
           right == IF fund[p][x] = "dead" THEN "missingorspent" ELSE "taken"
<1>1. run[p].pc = "fund" /\ x # None /\ UNCHANGED <<now, spend, match, tower>>
  BY DEF resendPending, At
<1>2. PICK reply \in {"taken", "conflict", "missingorspent"} :
          /\ Cost(Wrong(reply, right) + IF x \in OnChain(p) THEN 1 ELSE 0)
          /\ misled' = [misled EXCEPT ![p] = IF reply = "missingorspent" /\ reply # right
                                             THEN @ \cup {x} ELSE @]
          /\ fund' = [fund EXCEPT ![p][x] = IF reply = "taken" /\ @ = "signed" THEN "pool" ELSE @]
          /\ IF definitiveReject(reply)
             THEN Save(p, [rec[p] EXCEPT !.pending = None, !.rejected = @ \cup {x}])
             ELSE UNCHANGED rec
          /\ IF reply = "taken" THEN Goto(p, "sent") ELSE EndStep(p)
  BY DEF resendPending
<1>3. /\ rec[p].step \notin Left /\ rec[p].funding = None /\ run[p].info # None
      /\ x \in Txs /\ misled \in [Phones -> SUBSET Txs]
  BY <1>1, Busy, Types DEF IInv, PhoneInv, FundInv, StepInv, Reading, TypeOK, Record, Tx
<1>4. faults' \in 0..MaxFaults
  <2>1. Wrong(reply, right) + (IF x \in OnChain(p) THEN 1 ELSE 0) \in Nat
    BY DEF Wrong
  <2> QED
    BY <1>2, <2>1, Types, Counted
<1>5. reply # "taken" => fund' = fund
  BY <1>2, <1>3, Types DEF TypeOK
<1>6. CASE reply = "taken"
  <2>1. misled' = misled /\ UNCHANGED rec /\ Goto(p, "sent")
    BY <1>2, <1>3, <1>6 DEF definitiveReject
  <2>2. fund' = [fund EXCEPT ![p][x] = Resent(p, x)]
    BY <1>2, <1>3, <1>6, Types DEF TypeOK, Resent
  <2>3. /\ run' \in [Phones -> [pc : Pc, info : Info \cup {None}]] /\ run'[Other(p)] = run[Other(p)]
        /\ run'[p].pc = "sent" /\ run'[p].info = run[p].info
    <3>1. "sent" \in Pc
      BY DEF Pc
    <3> QED
      BY <2>1, <3>1, Types, Went
  <2> QED
    BY <1>1, <1>3, <1>4, <2>1, <2>2, <2>3, SentFunding
<1>7. CASE reply = "conflict"
  <2>1. misled' = misled /\ UNCHANGED rec /\ EndStep(p)
    BY <1>2, <1>3, <1>7 DEF definitiveReject
  <2> QED
    BY <1>1, <1>4, <1>5, <1>7, <2>1, Unsaved, Types, Ended
<1>8. CASE reply = "missingorspent"
  <2>1. Save(p, [rec[p] EXCEPT !.pending = None, !.rejected = @ \cup {x}]) /\ EndStep(p)
    BY <1>2, <1>8 DEF definitiveReject
  <2>2. PICK given : given = IF reply # right THEN misled[p] \cup {x} ELSE misled[p]
    OBVIOUS
  <2>3. misled' = [misled EXCEPT ![p] = given]
    BY <1>2, <1>3, <1>8, <2>2
  <2>4. Live(p, x) => x \in given
    BY <1>8, <2>2 DEF Live
  <2>5. given = misled[p] \/ given = misled[p] \cup {x}
    BY <2>2
  <2>6. /\ run' \in [Phones -> [pc : Pc, info : Info \cup {None}]] /\ run'[Other(p)] = run[Other(p)]
        /\ run'[p].pc = "idle"
    BY <2>1, Types, Ended
  <2> QED
    BY <1>1, <1>3, <1>4, <1>5, <1>8, <2>1, <2>3, <2>4, <2>5, <2>6, GivenUp
<1> QED
  BY <1>6, <1>7, <1>8

\* FundOrLeave keeps the invariant: it signs only with nothing pending, and a participant only
\* against a buried XBT leg.
LEMMA ByFundOrLeave ==
    ASSUME IInv, NEW p \in Phones, FundOrLeave(p)
    PROVE  IInv'
<1>1. /\ run[p].pc = "fund" /\ rec[p].pending = None /\ UNCHANGED <<now, spend, match, tower, misled>>
  BY DEF FundOrLeave, At, NonePending
<1>2. rec[p].step \notin Left /\ rec[p] \in Record /\ run[p].info # None /\ rec[p].funding = None
  BY <1>1, Busy, Types DEF IInv, PhoneInv, FundInv, StepInv, Reading
<1>3. CASE matchEnded(p) /\ EndStep(p) /\ UNCHANGED fund
  BY <1>1, <1>2, <1>3, LeftIt, Types, Ended
<1>4. CASE EndStep(p) /\ UNCHANGED <<fund, rec, faults>>
  BY <1>1, <1>4, Unsaved, Types, Ended
<1>5. CASE closeUnfunded(p, "CANCELLED") /\ EndStep(p) /\ UNCHANGED fund
  BY <1>1, <1>2, <1>5, LeftIt, Types, Ended
<1>6. CASE Save(p, [rec[p] EXCEPT !.step = "NEED_FUNDING"]) /\ EndStep(p) /\ UNCHANGED <<fund, faults>>
  <2>1. [rec[p] EXCEPT !.step = "NEED_FUNDING"] \in Record
    BY <1>2 DEF Record
  <2>2. /\ rec' \in [Phones -> Record] /\ rec'[p] = [rec[p] EXCEPT !.step = "NEED_FUNDING"]
        /\ rec'[Other(p)] = rec[Other(p)]
    BY <1>6, <2>1, Types, Saved
  <2>3. /\ rec'[p].pending = rec[p].pending /\ rec'[p].funding = rec[p].funding
        /\ rec'[p].their = rec[p].their /\ rec'[p].step = "NEED_FUNDING"
        /\ rec'[p].rejected = rec[p].rejected
    BY <1>2, <2>2 DEF Record
  <2>4. <<"I", "redeem">> \in tower' => Deep("P")
    BY <1>1 DEF IInv, PreimageInv
  <2> QED
    BY <1>1, <1>2, <1>6, <2>2, <2>3, <2>4, SavedStep, Types, Ended DEF Left
<1>7. ASSUME MayFund(p), Goto(p, "send"), UNCHANGED faults, NEW x \in Txs, fund[p][x] = "none",
             fund' = [fund EXCEPT ![p][x] = "signed"], Save(p, [rec[p] EXCEPT !.pending = x])
      PROVE  IInv'
  <2>1. [rec[p] EXCEPT !.pending = x] \in Record
    BY <1>2 DEF Record, Tx
  <2>2. /\ rec' \in [Phones -> Record] /\ rec'[p] = [rec[p] EXCEPT !.pending = x]
        /\ rec'[Other(p)] = rec[Other(p)]
    BY <1>7, <2>1, Types, Saved
  <2>3. /\ rec'[p].pending = x /\ rec'[p].funding = rec[p].funding
        /\ rec'[p].their = rec[p].their /\ rec'[p].step = rec[p].step
        /\ rec'[p].rejected = rec[p].rejected
    BY <1>2, <2>2 DEF Record
  <2>4. /\ run' \in [Phones -> [pc : Pc, info : Info \cup {None}]] /\ run'[Other(p)] = run[Other(p)]
        /\ run'[p].pc = "send" /\ run'[p].info = run[p].info
    <3>1. "send" \in Pc
      BY DEF Pc
    <3> QED
      BY <1>7, <3>1, Types, Went
  <2>5. p = "P" => Deep("I")
    <3>1. p = "P" => rec[p].their \in Txs /\ fund[Other(p)][rec[p].their] = "deep"
      BY <1>2, <1>7 DEF MayFund, IInv, PhoneInv, TheirInv, Record, Tx
    <3> QED
      BY <3>1, TwoPhones DEF Deep
  <2>6. rec[p].funding # x
    BY <1>2, SwapEngineConstants
  <2>7. rec'[p].pending # None
    BY <2>3, SwapEngineConstants
  <2> QED
    BY <1>1, <1>2, <1>7, <2>2, <2>3, <2>4, <2>5, <2>6, <2>7, FundStep, Types
<1> QED
  BY <1>3, <1>4, <1>5, <1>6, <1>7 DEF FundOrLeave

-----------------------------------------------------------------------------
(* What goes on around the phones                                          *)

\* The clock and the edge's ticks keep the invariant.
LEMMA ByTick ==
    ASSUME IInv, Pass \/ EdgeTick
    PROVE  IInv'
<1>1. /\ UNCHANGED <<fund, spend, tower, rec, run, misled, faults>> /\ now' \in 0..MaxTime
      /\ match' \in Match /\ match'.sigs = match.sigs
  <2>1. CASE Pass
    BY <2>1, Types, SwapEngineConstants DEF Pass, TypeOK
  <2>2. CASE EdgeTick
    BY <2>2, Types DEF EdgeTick, TypeOK, Match, Status
  <2> QED
    BY <2>1, <2>2
<1>2. TypeOK'
  BY <1>1, Types DEF TypeOK
<1>3. \A p \in Phones : PhoneInv(p)'
  BY <1>1 DEF IInv, PhoneInv, FundInv, OneLands, Live, StepInv, TheirInv, OnChain
<1>4. PreimageInv' /\ SigsInv' /\ SettledForGood'
  BY <1>1 DEF IInv, PreimageInv, SigsInv, SettledForGood, Mined, SeesPreimage, Deep
<1> QED
  BY <1>2, <1>3, <1>4 DEF IInv

\* Bury, Conflict and Lands keep the invariant: what could land gets deeper or dies, and what
\* dies was not recorded.
LEMMA ByBlock ==
    ASSUME IInv, NEW p \in Phones, Bury(p) \/ Conflict(p) \/ Lands(p)
    PROVE  IInv'
<1>1. UNCHANGED <<now, spend, match, tower, rec, run, misled>> /\ faults' \in 0..MaxFaults
  <2>1. CASE Bury(p)
    BY <2>1, Types DEF Bury
  <2>2. CASE Conflict(p)
    BY <2>2, Types, Counted DEF Conflict
  <2>3. CASE Lands(p)
    BY <2>3, Types DEF Lands
  <2> QED
    BY <2>1, <2>2, <2>3
<1>2. PICK x \in Txs, v \in {"pool", "mined", "deep", "dead"} :
          /\ fund' = [fund EXCEPT ![p][x] = v] /\ fund[p][x] \notin {"none", "deep", "dead"}
          /\ v = "dead" => rec[p].funding # x
  <2>1. CASE Bury(p)
    BY <2>1 DEF Bury
  <2>2. CASE Conflict(p)
    BY <2>2 DEF Conflict
  <2>3. CASE Lands(p)
    <3>1. rec[p].rejected \subseteq Txs
      BY Types DEF Record
    <3> QED
      BY <2>3, <3>1 DEF Lands
  <2> QED
    BY <2>1, <2>2, <2>3
<1>3. Live(p, x)
  BY <1>2 DEF Live
<1>4. rec' = rec /\ rec' \in [Phones -> Record] /\ run' = run
      /\ run' \in [Phones -> [pc : Pc, info : Info \cup {None}]]
  BY <1>1, Types
<1> QED
  BY <1>1, <1>2, <1>3, <1>4, FundStep

\* A change of one spend, from one that was not mined, keeps the invariant if no preimage comes
\* out.
LEMMA SpendMoved ==
    ASSUME IInv, NEW p \in Phones, ~Mined(p), NEW s \in Spend \cup {None},
           spend' = [spend EXCEPT ![p] = s],
           s # None /\ s.kind = "redeem" /\ p = "P" => Deep("P"),
           UNCHANGED <<now, fund, match, tower, rec, run, misled>>, faults' \in 0..MaxFaults
    PROVE  IInv'
<1>1. spend'[p] = s /\ spend'[Other(p)] = spend[Other(p)] /\ spend' \in [Phones -> Spend \cup {None}]
  BY Types, TwoPhones DEF TypeOK
<1>2. TypeOK'
  BY <1>1, Types DEF TypeOK
<1>3. \A q \in Phones : PhoneInv(q)'
  BY DEF IInv, PhoneInv, FundInv, OneLands, Live, StepInv, TheirInv, OnChain
<1>4. PreimageInv'
  <2>1. SeesPreimage' => Deep("P")
    <3>1. CASE p = "P"
      BY <1>1, <3>1 DEF SeesPreimage
    <3>2. CASE p = "I"
      BY <1>1, <3>2, TwoPhones DEF SeesPreimage, IInv, PreimageInv
    <3> QED
      BY <3>1, <3>2 DEF Phones
  <2> QED
    BY <2>1 DEF IInv, PreimageInv, Deep
<1>5. SettledForGood'
  <2>1. \A q \in Phones : Mined(q) => Mined(q)' /\ spend'[q] = spend[q]
    <3> SUFFICES ASSUME NEW q \in Phones, Mined(q)
                 PROVE  Mined(q)' /\ spend'[q] = spend[q]
      OBVIOUS
    <3>1. q = Other(p)
      BY TwoPhones
    <3>2. spend'[q] = spend[q]
      BY <1>1, <3>1
    <3> QED
      BY <3>2 DEF Mined
  <2> SUFFICES ASSUME NEW q \in Phones
               PROVE  /\ rec'[q].step = "DONE" => Mined(Other(q))' /\ (q = "I" => spend'["P"].kind = "redeem")
                      /\ rec'[q].step = "REFUNDED" => Mined(q)' /\ spend'[q].kind # "redeem"
    BY DEF SettledForGood
  <2>2. /\ rec[q].step = "DONE" => Mined(Other(q)) /\ (q = "I" => spend["P"].kind = "redeem")
        /\ rec[q].step = "REFUNDED" => Mined(q) /\ spend[q].kind # "redeem"
    BY DEF IInv, SettledForGood
  <2>3. Other(q) \in Phones /\ (q = "I" => Other(q) = "P")
    BY TwoPhones
  <2> QED
    BY <2>1, <2>2, <2>3
<1> QED
  BY <1>2, <1>3, <1>4, <1>5 DEF IInv, SigsInv

\* MineSpend and Evict keep the invariant.
LEMMA BySpendFate ==
    ASSUME IInv, NEW p \in Phones, MineSpend(p) \/ Evict(p)
    PROVE  IInv'
<1>1. spend[p] # None /\ ~Mined(p) /\ UNCHANGED <<now, fund, match, tower, rec, run, misled>>
  BY DEF MineSpend, Evict
<1>2. spend[p] \in Spend /\ spend \in [Phones -> Spend \cup {None}]
  BY <1>1, Types DEF TypeOK
<1>3. CASE MineSpend(p)
  <2>1. spend' = [spend EXCEPT ![p] = [spend[p] EXCEPT !.st = "mined"]] /\ UNCHANGED faults
    BY <1>2, <1>3 DEF MineSpend
  <2>2. [spend[p] EXCEPT !.st = "mined"] \in Spend /\ [spend[p] EXCEPT !.st = "mined"].kind = spend[p].kind
    BY <1>2 DEF Spend
  <2>3. p = "P" /\ spend[p].kind = "redeem" => Deep("P")
    BY <1>1 DEF IInv, PreimageInv, SeesPreimage
  <2> QED
    BY <1>1, <2>1, <2>2, <2>3, SpendMoved, Types
<1>4. CASE Evict(p)
  <2>1. faults' \in 0..MaxFaults /\ spend' = [spend EXCEPT ![p] = None]
    BY <1>4, Types, Counted DEF Evict
  <2> QED
    BY <1>1, <2>1, SpendMoved
<1> QED
  BY <1>3, <1>4

\* The watchtower keeps the invariant: the redeem it sends for the initiator stands on a buried
\* BTC leg.
LEMMA ByTower ==
    ASSUME IInv, NEW p \in Phones, Tower(p)
    PROVE  IInv'
<1>1. spend[p] = None /\ UNCHANGED <<now, fund, match, tower, rec, run, misled, faults>>
  BY DEF Tower
<1>2. PICK kind \in {"refund", "redeem"} :
          Sent(p, kind) /\ (kind = "redeem" => <<Other(p), "redeem">> \in tower)
  BY DEF Tower
<1>3. kind = "redeem" /\ p = "P" => Deep("P")
  BY <1>2, TwoPhones DEF IInv, PreimageInv
<1>4. PICK s \in Broadcast(p, kind) : spend' = [spend EXCEPT ![p] = s]
  BY <1>2 DEF Sent
<1>5. s = None \/ s = InPool(kind)
  BY <1>1, <1>4 DEF Broadcast
<1>6. InPool(kind) \in Spend /\ InPool(kind).kind = kind /\ InPool(kind).st = "pool"
  BY DEF InPool, Spend
<1>7. ~Mined(p)
  BY <1>1 DEF Mined
<1> QED
  BY <1>1, <1>3, <1>4, <1>5, <1>6, <1>7, SpendMoved, Types

-----------------------------------------------------------------------------
(* The invariant and what follows from it                                  *)

\* It holds at the start.
LEMMA InitIInv ==
    ASSUME Init
    PROVE  IInv
<1>1. Fresh \in Record /\ Fresh.pending = None /\ Fresh.funding = None /\ Fresh.their = None
      /\ Fresh.step = "MATCHED" /\ Fresh.rejected = {}
  BY DEF Fresh, Record, Tx
<1>2. NoStep \in [pc : Pc, info : Info \cup {None}] /\ NoStep.pc = "idle"
  BY DEF NoStep, Pc
<1>3. /\ \A p \in Phones : rec[p] = Fresh /\ run[p] = NoStep /\ spend[p] = None
      /\ \A p \in Phones, x \in Txs : fund[p][x] = "none"
      /\ tower = {} /\ match.sigs = FALSE /\ \A p \in Phones : misled[p] = {}
  BY DEF Init
<1>4. TypeOK
  <2>1. match \in Match
    BY DEF Init, Match, Status, Tx
  <2>2. now \in 0..MaxTime /\ faults \in 0..MaxFaults
    BY SwapEngineConstants DEF Init
  <2>3. /\ fund \in [Phones -> [Txs -> {"none", "signed", "pool", "mined", "deep", "dead"}]]
        /\ spend \in [Phones -> Spend \cup {None}] /\ misled \in [Phones -> SUBSET Txs]
    BY DEF Init
  <2>4. rec \in [Phones -> Record] /\ run \in [Phones -> [pc : Pc, info : Info \cup {None}]]
    BY <1>1, <1>2 DEF Init
  <2> QED
    BY <1>3, <2>1, <2>2, <2>3, <2>4 DEF TypeOK
<1>5. \A p \in Phones : PhoneInv(p)
  BY <1>1, <1>2, <1>3 DEF PhoneInv, FundInv, OneLands, Live, StepInv, TheirInv, Left, Reading
<1>6. PreimageInv /\ SigsInv
  BY <1>1, <1>2, <1>3, TwoPhones DEF PreimageInv, SeesPreimage, SigsInv
<1>7. SettledForGood
  BY <1>1, <1>3 DEF SettledForGood
<1> QED
  BY <1>4, <1>5, <1>6, <1>7 DEF IInv

\* Every step keeps it.
LEMMA NextIInv ==
    ASSUME IInv, [Next]_vars
    PROVE  IInv'
<1>1. CASE Pass \/ EdgeTick
  BY <1>1, ByTick
<1>2. ASSUME NEW p \in Phones, Step(p)
      PROVE  IInv'
  <2>1. CASE \/ resumeClose(p) \/ Redeemed(p) \/ refundIfDue(p) \/ Refunded(p) \/ refundProgress(p)
             \/ doneCheck(p) \/ ReadMatch(p) \/ Walked(p)
    BY <2>1, ByResumeClose, ByRedeemed, ByRefundIfDue, ByRefunded, ByRefundProgress, ByDoneCheck,
       ByReadMatch, ByWalked
  <2>2. CASE \/ review(p) \/ Accepted(p) \/ pollRelay(p) \/ theirFunding(p) \/ FindFunding(p)
             \/ resendPending(p) \/ FundOrLeave(p) \/ Send(p) \/ NotSeen(p) \/ afterFunding(p)
    BY <2>2, ByReview, ByAccepted, ByPollRelay, ByTheirFunding, ByFindFunding, ByResendPending,
       ByFundOrLeave, BySend, ByAbandon, ByAfterFunding
  <2>3. CASE p = "P" /\ (participantRedeem \/ release \/ Signed)
    BY <2>3, ByParticipantRedeem, ByRelease, BySigned
  <2>4. CASE p = "I" /\ (initiatorRedeem \/ releaseBack \/ Released)
    BY <2>4, ByInitiatorRedeem, ByReleaseBack, ByRefunded
  <2> QED
    BY <1>2, <2>1, <2>2, <2>3, <2>4 DEF Step
<1>3. ASSUME NEW p \in Phones, Chain(p) \/ Tower(p) \/ Abandon(p) \/ Conflict(p) \/ Lands(p) \/ Evict(p)
      PROVE  IInv'
  BY <1>3, ByBlock, BySpendFate, ByTower, ByAbandon DEF Chain
<1>4. CASE UNCHANGED vars
  <2>1. UNCHANGED <<now, fund, spend, match, tower, rec, run, misled, faults>>
    BY <1>4 DEF vars
  <2>2. TypeOK'
    BY <2>1 DEF IInv, TypeOK
  <2>3. \A p \in Phones : PhoneInv(p)'
    BY <2>1 DEF IInv, PhoneInv, FundInv, OneLands, Live, StepInv, TheirInv, OnChain
  <2>4. PreimageInv' /\ SigsInv' /\ SettledForGood'
    BY <2>1 DEF IInv, PreimageInv, SigsInv, SettledForGood, Mined, SeesPreimage, Deep
  <2> QED
    BY <2>2, <2>3, <2>4 DEF IInv
<1> QED
  BY <1>1, <1>2, <1>3, <1>4 DEF Next

\* The inductive invariant holds in every state of every run.
THEOREM Invariance == Spec => []IInv
BY InitIInv, NextIInv, PTL DEF Spec

\* Every variable of the phones, the edge and the chains keeps its type.
THEOREM TypeCorrect == Spec => []TypeOK
<1>1. IInv => TypeOK
  BY DEF IInv
<1> QED
  BY <1>1, Invariance, PTL

\* A phone never has two fundings of one swap on chain, however often its step is cut off, the
\* transaction re-sent or rejected, and whatever the edge answers, but for one it gave up on the
\* edge's wrong word (resendPending, fund).
THEOREM NeverFundedTwice == Spec => []FundedOnce
<1>1. ASSUME IInv
      PROVE  FundedOnce
  <2> SUFFICES ASSUME NEW p \in Phones
               PROVE  Cardinality(OnChain(p) \ misled[p]) <= 1
    BY DEF FundedOnce
  <2>1. \A x, y \in OnChain(p) \ misled[p] : x = y
    BY <1>1 DEF IInv, PhoneInv, FundInv, OneLands, OnChain, Live
  <2>2. CASE OnChain(p) \ misled[p] = {}
    BY <2>2, FS_EmptySet
  <2>3. CASE OnChain(p) \ misled[p] # {}
    <3>1. PICK x \in OnChain(p) \ misled[p] : TRUE
      BY <2>3
    <3>2. OnChain(p) \ misled[p] = {x}
      BY <2>1, <3>1
    <3>3. Cardinality({x}) = 1
      BY FS_Singleton
    <3> QED
      BY <3>2, <3>3
  <2> QED
    BY <2>2, <2>3
<1> QED
  BY <1>1, Invariance, PTL

\* A swap the phone left as unfunded has nothing of its own on chain or able to land, but for a
\* funding given up on the edge's wrong word (closeUnfunded, matchEnded).
THEOREM NothingLeftBehind == Spec => []LeftWithNothing
<1>1. ASSUME IInv
      PROVE  LeftWithNothing
  <2> SUFFICES ASSUME NEW p \in Phones, rec[p].step \in Left, NEW x \in Txs \ misled[p]
               PROVE  fund[p][x] \in {"none", "dead"}
    BY DEF LeftWithNothing, Left
  <2>1. rec[p].pending = None
    BY <1>1 DEF IInv, PhoneInv, StepInv
  <2> QED
    BY <1>1, <2>1 DEF IInv, PhoneInv, FundInv, OneLands, Live
<1> QED
  BY <1>1, Invariance, PTL

\* The participant signs only against a buried XBT leg, and the preimage goes out only for a
\* buried BTC leg, however the edge answers (theirFunding, initiatorRedeem, the watchtower).
THEOREM FundedAgainst == Spec => []FundsWhatIsThere
<1>1. IInv => FundsWhatIsThere
  BY DEF IInv, PreimageInv, FundsWhatIsThere, Deep
<1> QED
  BY <1>1, Invariance, PTL

\* The XBT is released only while the participant has nothing in the swap and nothing that may
\* get there, a funding it was misled about included (release, releaseDue).
THEOREM ReleaseIsSafe == Spec => []ReleasedAlone
<1>1. ASSUME IInv
      PROVE  ReleasedAlone
  <2> SUFFICES ASSUME match.sigs, NEW x \in Txs
               PROVE  fund["P"][x] \in {"none", "dead"}
    BY DEF ReleasedAlone
  <2>1. rec["P"].pending = None /\ rec["P"].rejected = {} /\ FundInv("P")
    BY <1>1, TwoPhones DEF IInv, SigsInv, PhoneInv, StepInv, Left
  <2>2. misled["P"] = {}
    BY <2>1 DEF FundInv
  <2> QED
    BY <2>1, <2>2 DEF FundInv, OneLands, Live
<1> QED
  BY <1>1, Invariance, PTL

\* A record is closed as done or refunded, its keys wiped, only on a mined spend that says so
\* (doneCheck, refundProgress).
THEOREM KeysWipedLast == Spec => []SettledForGood
<1>1. IInv => SettledForGood
  BY DEF IInv
<1> QED
  BY <1>1, Invariance, PTL

=============================================================================

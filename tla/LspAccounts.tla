---------------------------- MODULE LspAccounts ----------------------------
(***************************************************************************)
(* Fortis accounts and held payments of the LSP: the ledger (account.rs),  *)
(* the account API served by the metrics thread (account_api.rs), and the  *)
(* main thread that handles LDK's events, delivers held payments and moves *)
(* balances into the users' channels (main.rs, held.rs, conversion.rs).    *)
(*                                                                         *)
(* Every ledger call is one durable transaction under one mutex.  Between  *)
(* two of them, and between a call of the node and the call that records   *)
(* it, the other thread runs or the process stops; LDK hands out an event  *)
(* until it is acknowledged.                                               *)
(***************************************************************************)
EXTENDS Integers, Sequences, FiniteSets, FiniteSetsExt

CONSTANTS
    Nodes,        \* account owners' node ids
    Bills,        \* payment hash -> [kind, owner, amt]: every payment of the instance
    Scenarios,    \* what may happen in one behaviour, chosen at its start: the signed requests
                  \* the phones make ([node, op, hash, amt, exp]) and, as bounds, the
                  \* payments routed and the blocks and seconds that pass
    CustodyMax,   \* custody_max_msat
    AccountMax,   \* account_max_msat
    MinFee,       \* the flat part of every fee, 50 sat or 1,000 sat
    Dust,         \* DUST_SAT
    Safety,       \* held::SAFETY_BLOCKS
    Deadline,     \* claim_deadline of a held payment
    MaxAhead,     \* MAX_AHEAD_SECS
    MaxSends,     \* bound: payments and channel opens of the LSP
    MaxCrashes    \* bound: stops of the process

Requests == UNION {s.requests : s \in Scenarios}
Hashes == DOMAIN Bills
Amt(h) == Bills[h].amt
Owner(h) == Bills[h].owner
OfKind(k) == {h \in Hashes : Bills[h].kind = k}

\* A request names a payment of the kind it is about.  A node id is a key, never the mark of
\* the network.
ASSUME LspConstants ==
    /\ \A h \in Hashes : /\ Amt(h) \in Nat \ {0}
                         /\ Bills[h].kind \in {"invoice", "fee", "offer", "held", "ext"}
                         /\ Bills[h].kind # "ext" => Owner(h) \in Nodes
    /\ Requests # {} /\ "ln" \notin Nodes
    /\ \A r \in Requests :
          /\ r.node \in Nodes /\ r.amt \in Nat /\ r.exp \in Nat
          /\ r.op \in {"invoice", "fee_invoice", "offer", "channel_invoice", "pay", "withdraw"}
          /\ r.op = "invoice" => r.hash \in OfKind("invoice")
          /\ r.op = "fee_invoice" => r.hash \in OfKind("fee")
          /\ r.op = "offer" => r.hash \in OfKind("offer")
          /\ r.op = "channel_invoice" => r.hash \in OfKind("held")
          /\ r.op = "pay" => r.hash \in OfKind("invoice") \cup OfKind("ext")
    /\ \A s \in Scenarios : s.forwards \in Nat /\ s.blocks \in Nat /\ s.seconds \in Nat
    /\ {CustodyMax, AccountMax, MinFee, Dust, Safety, Deadline, MaxAhead} \subseteq Nat
    /\ {MaxSends, MaxCrashes} \subseteq Nat

VARIABLES
    now, height,
    balance,   \* accounts.balance_msat
    holds,     \* table holds: a set of [id, node, amt, base, kind]
    entries,   \* credits: [node, hash, from], from another account or the network
    issued,    \* tables invoices, fee_invoices, offers: payments asked for
    held,      \* table held: hash -> [st, fid]
    revenue,   \* table revenue: [kind, ref, amt]
    nonces,    \* table nonces, by the request
    scenario,  \* the member of Scenarios this behaviour is
    served,    \* how often each was let through
    inbound,   \* LDK: hash -> what became of the payment to us
    out,       \* LDK: our payments and channel opens, by id
    onchain,   \* coins sent for withdrawals, by the request
    routed,    \* payments routed through the LSP so far
    queue,     \* LDK: events not yet acknowledged
    api,       \* the metrics thread
    main,      \* the main thread
    crashes

ledger == <<balance, holds, entries, issued, held, revenue, nonces>>
ldk == <<inbound, out, onchain, routed, queue>>
world == <<now, height, crashes, scenario>>
vars == <<now, height, balance, holds, entries, issued, held, revenue, nonces, scenario, served,
          inbound, out, onchain, routed, queue, api, main, crashes>>

-----------------------------------------------------------------------------
(* The ledger (account.rs)                                                 *)

\* SUM(amt_msat) of some rows.
SumAmt(S) == SumFunction([x \in S |-> x.amt])

HoldsOf(n) == {x \in holds : x.node = n}
account_of(n) == [balance |-> balance[n], held |-> SumAmt(HoldsOf(n))]
free_msat(n) == account_of(n).balance - account_of(n).held
total_custody == SumFunction(balance)
HoldWith(id) == {x \in holds : x.id = id}
conversions == {x.node : x \in {y \in holds : y.kind = "conversion"}}
over_cap(cap) == {n \in Nodes : balance[n] > cap}

add_balance(n, d) == balance' = [balance EXCEPT ![n] = @ + d]

Credited(n, h) == \E e \in entries : e.node = n /\ e.hash = h

\* INSERT OR IGNORE under the index credited_once; the balance moves with it.
credit(n, h) ==
    IF Credited(n, h)
    THEN UNCHANGED <<balance, entries>>
    ELSE /\ entries' = entries \cup {[node |-> n, hash |-> h, from |-> "ln"]}
         /\ add_balance(n, Amt(h))

\* Both sides in one transaction; refused without a trace when `m` lacks it.
transfer(m, n, h) ==
    IF Credited(n, h) \/ free_msat(m) < Amt(h)
    THEN UNCHANGED <<balance, entries>>
    ELSE /\ entries' = entries \cup {[node |-> n, hash |-> h, from |-> m]}
         /\ balance' = [balance EXCEPT ![n] = @ + Amt(h), ![m] = @ - Amt(h)]

\* Fails on too little free money and on an id in use.
CanHold(n, id, a) == free_msat(n) >= a /\ HoldWith(id) = {}
hold_kind(n, id, a, base, kind) ==
    holds' = holds \cup {[id |-> id, node |-> n, amt |-> a, base |-> base, kind |-> kind]}

take_hold(id) == holds' = holds \ HoldWith(id)

\* Mutant: the hold stays.
FaultSettleHold(id, spent) ==
    \/ HoldWith(id) = {} /\ UNCHANGED <<balance, holds>>
    \/ \E x \in HoldWith(id) : add_balance(x.node, -Min({spent, x.amt})) /\ UNCHANGED holds

\* Debits what was spent, at most the hold; nothing when the hold is gone.
settle_hold(id, spent) ==
    \/ HoldWith(id) = {} /\ UNCHANGED <<balance, holds>>
    \/ \E x \in HoldWith(id) :
          take_hold(id) /\ add_balance(x.node, -Min({spent, x.amt}))

\* Mutant: the whole reserve is debited.
FaultSettleSend(id, fee) ==
    \E x \in HoldWith(id) : settle_hold(id, x.amt)

settle_send(id, fee) ==
    \E x \in HoldWith(id) : settle_hold(id, x.base + fee)

\* revenue_once: a second row of the same kind and reference is ignored.
record_revenue(kind, ref, a) ==
    revenue' = IF a = 0 \/ \E r \in revenue : r.kind = kind /\ r.ref = ref
               THEN revenue
               ELSE revenue \cup {[kind |-> kind, ref |-> ref, amt |-> a]}

settle_withdrawal(id, fee) ==
    \E x \in HoldWith(id) :
        /\ take_hold(id) /\ add_balance(x.node, -x.amt)
        /\ record_revenue("withdrawal_fee", id, fee)

finish_conversion(id, fee) ==
    \E x \in HoldWith(id) :
        /\ take_hold(id) /\ add_balance(x.node, -x.amt)
        /\ record_revenue("channel_fee", id, fee)

abandon_conversion(id) == take_hold(id) /\ UNCHANGED <<balance, revenue>>

rename_hold(old, new) ==
    holds' = {IF x.id = old THEN [x EXCEPT !.id = new] ELSE x : x \in holds}

held_insert(h) == held' = [held EXCEPT ![h] = [st |-> "open", fid |-> 0]]

held_update(h, st, fid) == held' = [held EXCEPT ![h] = [st |-> st, fid |-> fid]]

held_by_forward(i) == {h \in OfKind("held") : held[h].fid = i}

\* Mutant: a nonce is pruned in the second its request is still good for.
FaultUnexpired == {x \in nonces : x.exp > now}

\* The rows DELETE leaves, by the clock the ledger reads itself.
Unexpired == {x \in nonces : x.exp >= now}

\* INSERT OR IGNORE: the request's own nonce is there afterwards in any case.
use_nonce(r) == nonces' = Unexpired \cup {r}

-----------------------------------------------------------------------------
(* Fees and plans (account_api.rs, conversion.rs)                          *)

fee_cap_msat(a) == a \div 100 + MinFee
conversion_fee_msat(a) == Max({a \div 100, MinFee})

\* The network fee stays below the flat one here.
withdrawal(a) ==
    LET fee == Max({a \div 100, MinFee})
    IN [fee |-> fee, ok |-> a >= fee + Dust]

\* How an account over the cap may be moved, and what is sent for it.
plan(free, cap, busy) ==
    LET moved == free - conversion_fee_msat(free)
    IN IF free <= cap \/ busy \/ moved <= 0 THEN {}
       ELSE {[how |-> w, amt |-> moved] : w \in {"conv:pay", "conv:chan"}}

-----------------------------------------------------------------------------
(* The node: payments in and out, as LDK reports them                      *)

Event(kind, ref, fee) == [kind |-> kind, ref |-> ref, fee |-> fee]
Emit(e) == queue' = Append(queue, e)

\* Why: "send", "forward" (a held payment), "deliver", "conv:pay", "conv:chan".
\* What is sent and what its account is to be charged, fee aside.
Sent(why, n, ref, a, charge) ==
    /\ Len(out) < MaxSends
    /\ out' = Append(out, [why |-> why, node |-> n, ref |-> ref, amt |-> a,
                           charge |-> charge, st |-> "flying", fee |-> 0])

claim_for_hash(h) ==
    inbound' = [inbound EXCEPT ![h] = IF @ = "locked" THEN "claimed" ELSE @]
fail_for_hash(h) ==
    inbound' = [inbound EXCEPT ![h] = IF @ = "locked" THEN "refunded" ELSE @]

\* Somebody pays what the LSP asked for: claimed at once, or locked until told.
PayIn(h) ==
    /\ inbound[h] = "none"
    /\ \/ /\ h \in issued
          /\ inbound' = [inbound EXCEPT ![h] = "claimed"]
          /\ Emit(Event("received", h, 0))
       \/ /\ h \in OfKind("held") /\ held[h].st = "open" /\ height < Deadline
          /\ inbound' = [inbound EXCEPT ![h] = "locked"]
          /\ Emit(Event("claimable", h, 0))
    /\ UNCHANGED <<ledger, world, served, out, onchain, routed, api, main>>

\* A payment of ours ends; a routed one pays at most the fee reserved for it.
Resolve(i) ==
    /\ out[i].st = "flying"
    /\ \E ok \in BOOLEAN : \E fee \in (IF ok /\ out[i].why = "send" THEN 0..MinFee ELSE {0}) :
          /\ out' = [out EXCEPT ![i].st = IF ok THEN "ok" ELSE "failed", ![i].fee = fee]
          /\ Emit(Event(IF ok THEN "ok" ELSE "failed", i, fee))
    /\ UNCHANGED <<ledger, world, served, inbound, onchain, routed, api, main>>

\* A payment is routed through the LSP, numbered by its event.
Forwarded ==
    /\ routed < scenario.forwards
    /\ routed' = routed + 1
    /\ Emit(Event("forwarded", routed', MinFee))
    /\ UNCHANGED <<ledger, world, served, inbound, out, onchain, api, main>>

\* Blocks are minutes apart and the tick a second: a payment due for settlement
\* is looked at before the next one.
Block ==
    /\ height < scenario.blocks
    /\ \A h \in OfKind("held") : ~(held[h].st = "claimable" /\ height + Safety >= Deadline)
    /\ height' = height + 1
    /\ inbound' = [h \in Hashes |-> IF inbound[h] = "locked" /\ height' >= Deadline
                                    THEN "refunded" ELSE inbound[h]]
    /\ UNCHANGED <<ledger, now, crashes, scenario, served, out, onchain, routed, queue, api, main>>

Second ==
    /\ now < scenario.seconds
    /\ now' = now + 1
    /\ UNCHANGED <<ledger, height, crashes, scenario, served, ldk, api, main>>

-----------------------------------------------------------------------------
(* The account API, one request at a time (metrics.rs, account_api.rs)     *)

SendId(h) == <<"send", h>>
WithdrawId(r) == <<"withdraw", r.node, r.hash>>

IdleApi == [pc |-> "idle", req |-> CHOOSE r \in Requests : TRUE]
At(pc, r) == api' = [pc |-> pc, req |-> r]

\* Signature aside: not expired and not too far ahead, by the clock read as the request came in.
verify(r) == r.exp >= now /\ r.exp <= now + MaxAhead

\* The custody limit and the backing are looked at when the invoice is asked for.
invoice(r) ==
    /\ r.op = "invoice"
    /\ issued' \in {issued, IF total_custody + Amt(r.hash) <= CustodyMax
                             THEN issued \cup {r.hash} ELSE issued}
    /\ api' = IdleApi
    /\ UNCHANGED <<balance, holds, entries, held, revenue>>

\* The operator's share of a transfer fee: credited to no account.
fee_invoice(r) ==
    /\ r.op = "fee_invoice"
    /\ issued' = issued \cup {r.hash}
    /\ api' = IdleApi
    /\ UNCHANGED <<balance, holds, entries, held, revenue>>

\* The account's reusable offer, made once; the payment to come is its hash.
offer(r) ==
    /\ r.op = "offer"
    /\ issued' = IF CustodyMax = 0 THEN issued ELSE issued \cup {r.hash}
    /\ api' = IdleApi
    /\ UNCHANGED <<balance, holds, entries, held, revenue>>

\* Every call draws a fresh preimage: a second one makes the invoice of a payment that is
\* none of the instance's.
channel_invoice(r) ==
    /\ r.op = "channel_invoice"
    /\ IF held[r.hash].st = "none" THEN held_insert(r.hash) ELSE UNCHANGED held
    /\ api' = IdleApi
    /\ UNCHANGED <<balance, holds, entries, issued, revenue>>

\* Another account's invoice is settled in the ledger; for any other the amount
\* and the fee cap are held before the node is asked to pay.
pay(r) ==
    /\ r.op = "pay"
    /\ LET h == r.hash
            reserve == Amt(h) + fee_cap_msat(Amt(h))
       IN \/ /\ h \in issued \cap OfKind("invoice")
             /\ IF Owner(h) = r.node THEN UNCHANGED <<balance, entries>>
                                     ELSE transfer(r.node, Owner(h), h)
             /\ api' = IdleApi
             /\ UNCHANGED holds
          \/ /\ h \in OfKind("ext")
             /\ IF CanHold(r.node, SendId(h), reserve)
                THEN hold_kind(r.node, SendId(h), reserve, Amt(h), "send") /\ At("pay", r)
                ELSE api' = IdleApi /\ UNCHANGED holds
             /\ UNCHANGED <<balance, entries>>
    /\ UNCHANGED <<issued, held, revenue>>

withdraw(r) ==
    /\ r.op = "withdraw"
    /\ IF withdrawal(r.amt).ok /\ CanHold(r.node, WithdrawId(r), r.amt)
       THEN hold_kind(r.node, WithdrawId(r), r.amt, r.amt, "withdraw") /\ At("withdraw", r)
       ELSE api' = IdleApi /\ UNCHANGED holds
    /\ UNCHANGED <<balance, entries, issued, held, revenue>>

\* A request comes in and is good for this second; its nonce is looked up after that.
\* Bound: copies of a served request come only while the clock has still to turn.
handle(r) ==
    /\ api.pc = "idle"
    /\ served[r] = 0 \/ now < scenario.seconds
    /\ verify(r)
    /\ At("nonce", r)
    /\ UNCHANGED <<ledger, served, world, ldk, main>>

\* The nonce is taken and the request served, or it is refused as replayed.
serve ==
    LET r == api.req
    IN /\ api.pc = "nonce"
       /\ use_nonce(r)
       /\ \/ /\ r \in Unexpired
             /\ api' = IdleApi
             /\ UNCHANGED <<balance, holds, entries, issued, held, revenue, served>>
          \/ /\ r \notin Unexpired
             /\ served' = [served EXCEPT ![r] = @ + 1]
             /\ \/ invoice(r) \/ fee_invoice(r) \/ offer(r)
                \/ channel_invoice(r) \/ pay(r) \/ withdraw(r)
       /\ UNCHANGED <<world, ldk, main>>

\* LDK refuses to pay a hash that is being paid or was paid.
send_bolt11 ==
    LET r == api.req
        again == \E i \in 1..Len(out) : out[i].why = "send" /\ out[i].ref = r.hash
                                       /\ out[i].st # "failed"
    IN /\ api.pc = "pay"
       /\ \/ ~again /\ Sent("send", r.node, r.hash, Amt(r.hash), Amt(r.hash)) /\ api' = IdleApi
          \/ At("unpaid", r) /\ UNCHANGED out
       /\ UNCHANGED <<ledger, world, served, inbound, onchain, routed, queue, main>>

\* The coins of a withdrawal, told apart by which time its request was served.
Coins(r) == [node |-> r.node, amt |-> r.amt, req |-> r, nth |-> served[r]]

send_onchain ==
    /\ api.pc = "withdraw"
    /\ \/ onchain' = onchain \cup {Coins(api.req)} /\ At("settle", api.req)
       \/ At("unpaid", api.req) /\ UNCHANGED onchain
    /\ UNCHANGED <<ledger, world, served, inbound, out, routed, queue, main>>

\* The last step of withdraw, or the release after the node refused.
ApiSettle ==
    /\ \/ /\ api.pc = "settle"
          /\ settle_withdrawal(WithdrawId(api.req), withdrawal(api.req.amt).fee)
       \/ /\ api.pc = "unpaid"
          /\ settle_hold(IF api.req.op = "pay" THEN SendId(api.req.hash) ELSE WithdrawId(api.req), 0)
          /\ UNCHANGED revenue
    /\ api' = IdleApi
    /\ UNCHANGED <<entries, issued, held, nonces, served, world, ldk, main>>

-----------------------------------------------------------------------------
(* The main thread: events, held payments, balances                        *)

\* ev: within an event that is still to be acknowledged.
Main(pc, ref, amt, how, ev) == [pc |-> pc, ref |-> ref, amt |-> amt, how |-> how, ev |-> ev]
IdleMain == Main("idle", 0, 0, "none", FALSE)
AckMain == Main("ack", 0, 0, "none", TRUE)
Go(pc, ref, amt, how) == main' = Main(pc, ref, amt, how, main.ev)
Done == main' = IF main.ev THEN AckMain ELSE IdleMain

\* The hold of a move, once its payment or channel has an id.
MoveId(i) == <<out[i].why, i>>

fee_invoice_paid(h) == record_revenue("transfer_fee", <<"hash", h>>, Amt(h))

on_offer_payment_received(h) == h \in OfKind("offer") /\ credit(Owner(h), h)

\* An account's invoice, a transfer fee, or a payment of an account's offer.
on_payment_received(h) ==
    /\ \/ h \in OfKind("invoice") /\ credit(Owner(h), h) /\ UNCHANGED revenue
       \/ h \in OfKind("fee") /\ fee_invoice_paid(h) /\ UNCHANGED <<balance, entries>>
       \/ on_offer_payment_received(h) /\ UNCHANGED revenue
    /\ main' = AckMain
    /\ UNCHANGED <<holds, held, inbound>>

\* A second PaymentClaimable of the same payment changes nothing.
on_claimable(h) ==
    /\ IF held[h].st = "open"
       THEN held_update(h, "claimable", 0) /\ main' = Main("deliver", h, 0, "none", TRUE)
       ELSE main' = AckMain /\ UNCHANGED held
    /\ UNCHANGED <<balance, holds, entries, revenue, inbound>>

\* What the LSP earned by routing a payment: its fee and, if it opened a channel, the part
\* skimmed for that, in two calls.  Their reference is the time, to the nanosecond.
PaymentForwarded(k, fee) ==
    /\ \E skim \in 0..fee :
          LET at == <<"forward", k, Cardinality(revenue)>>
          IN /\ record_revenue("routing_fee", at, fee - skim)
             /\ main' = Main("skim", at, skim, "none", TRUE)
    /\ UNCHANGED <<balance, holds, entries, held, inbound>>

SkimRecord ==
    /\ main.pc = "skim"
    /\ record_revenue("channel_fee", main.ref, main.amt)
    /\ main' = AckMain
    /\ UNCHANGED <<balance, holds, entries, issued, held, nonces, served, world, ldk, api>>

on_forward_result(i, ok) ==
    /\ out[i].why = "forward"
    /\ \/ held_by_forward(i) = {} /\ main' = AckMain /\ UNCHANGED <<held, inbound>>
       \/ \E h \in held_by_forward(i) :
             IF ok THEN claim_for_hash(h) /\ main' = Main("settled", h, i, "none", TRUE) /\ UNCHANGED held
                   ELSE held_update(h, "claimable", 0) /\ main' = AckMain /\ UNCHANGED inbound
    /\ UNCHANGED <<balance, holds, entries, revenue>>

on_delivery_result(i, ok) ==
    /\ out[i].why \in {"deliver", "conv:pay", "conv:chan"}
    /\ LET fee == IF out[i].why = "deliver" THEN 0
                  ELSE conversion_fee_msat((CHOOSE x \in HoldWith(MoveId(i)) : TRUE).amt)
       IN IF HoldWith(MoveId(i)) = {} THEN UNCHANGED <<balance, holds, revenue>>
          ELSE IF ok THEN finish_conversion(MoveId(i), fee)
                     ELSE abandon_conversion(MoveId(i))
    /\ main' = AckMain
    /\ UNCHANGED <<entries, held, inbound>>

on_payment_resolved(i, ok, fee) ==
    /\ out[i].why = "send"
    /\ LET id == SendId(out[i].ref)
       IN IF HoldWith(id) = {} THEN UNCHANGED <<balance, holds>>
          ELSE IF ok THEN settle_send(id, fee) ELSE settle_hold(id, 0)
    /\ main' = AckMain
    /\ UNCHANGED <<entries, revenue, held, inbound>>

account_event ==
    /\ main.pc = "idle" /\ queue # <<>>
    /\ LET e == Head(queue)
       IN \/ e.kind = "received" /\ on_payment_received(e.ref)
          \/ e.kind = "claimable" /\ on_claimable(e.ref)
          \/ e.kind = "forwarded" /\ PaymentForwarded(e.ref, e.fee)
          \/ /\ e.kind \in {"ok", "failed"}
             /\ \/ on_forward_result(e.ref, e.kind = "ok")
                \/ on_delivery_result(e.ref, e.kind = "ok")
                \/ on_payment_resolved(e.ref, e.kind = "ok", e.fee)
    /\ UNCHANGED <<issued, nonces, served, world, out, onchain, routed, queue, api>>

event_handled ==
    /\ main.pc = "ack"
    /\ queue' = Tail(queue)
    /\ main' = IdleMain
    /\ UNCHANGED <<ledger, served, world, inbound, out, onchain, routed, api>>

\* Mutant: a payment already on its way is delivered again.
FaultDelivering(h) ==
    /\ held[h].st \in {"claimable", "forwarding"}
    /\ main.pc = "idle" \/ (main.pc = "deliver" /\ main.ref = h)

\* Within the event, or at a tick, for a payment nobody has settled.
Delivering(h) ==
    /\ held[h].st = "claimable"
    /\ main.pc = "idle" \/ (main.pc = "deliver" /\ main.ref = h)

\* Nearly timed out: into the account if custody has room, else back.
settle_into_account(h) ==
    /\ Delivering(h)
    /\ height + Safety >= Deadline
    /\ IF CustodyMax > 0 /\ CustodyMax >= total_custody + Amt(h)
       THEN claim_for_hash(h) /\ Go("claimed", h, 0, "none") /\ UNCHANGED held
       ELSE fail_for_hash(h) /\ held_update(h, "failed", 0) /\ Done
    /\ UNCHANGED <<balance, holds, entries, issued, revenue, nonces, served, world,
                   out, onchain, routed, queue, api>>

\* The phone is there and its channel has room: keysend the amount.  It may
\* fail to start, and the phone may be away.
deliver(h) ==
    /\ Delivering(h)
    /\ height + Safety < Deadline
    /\ \/ /\ height + 2 * Safety < Deadline
          /\ Sent("forward", Owner(h), h, Amt(h), 0)
          /\ Go("forward", h, Len(out'), "none")
       \/ main.ev /\ Done /\ UNCHANGED out
    /\ UNCHANGED <<ledger, served, world, inbound, onchain, routed, queue, api>>

\* What is written after the node was called.
HeldRecord ==
    LET h == main.ref
    IN /\ \/ main.pc = "forward" /\ held_update(h, "forwarding", main.amt) /\ Done
             /\ UNCHANGED <<balance, entries>>
          \/ main.pc = "claimed" /\ credit(Owner(h), h) /\ Go("credited", h, 0, "none")
             /\ UNCHANGED held
          \/ main.pc = "credited" /\ held_update(h, "credited", held[h].fid) /\ Done
             /\ UNCHANGED <<balance, entries>>
          \/ main.pc = "settled" /\ held_update(h, "done", held[h].fid) /\ Done
             /\ UNCHANGED <<balance, entries>>
       /\ UNCHANGED <<holds, issued, revenue, nonces, served, world, ldk, api>>

PendingId(how, n) == <<IF how = "deliver" THEN "deliver:pending" ELSE "conv:pending", n>>

\* deliver_balances: the snapshot of the accounts.  The phone is connected and
\* its channel takes all that is free.
deliver_balances(n) ==
    /\ main.pc = "idle"
    /\ n \in over_cap(0) \ conversions
    /\ free_msat(n) >= 1
    /\ Go("read", n, 0, "deliver")
    /\ UNCHANGED <<ledger, served, world, ldk, api>>

\* The same for accounts over the cap; what is sent is planned from the snapshot.
run_conversions(n) ==
    /\ main.pc = "idle"
    /\ n \in over_cap(AccountMax)
    /\ \E p \in plan(free_msat(n), AccountMax, n \in conversions) :
          Go("read", n, p.amt, p.how)
    /\ UNCHANGED <<ledger, served, world, ldk, api>>

\* start_conversion reads what is free, unlocks, and holds that much.
start_conversion ==
    /\ \/ /\ main.pc = "read"
          /\ main' = Main("hold", main.ref, [plan |-> main.amt, free |-> free_msat(main.ref)],
                          main.how, FALSE)
          /\ UNCHANGED holds
       \/ /\ main.pc = "hold"
          /\ LET id == PendingId(main.how, main.ref)
             IN IF CanHold(main.ref, id, main.amt.free)
                THEN /\ hold_kind(main.ref, id, main.amt.free, main.amt.free, "conversion")
                     /\ Go("send", main.ref, main.amt, main.how)
                ELSE main' = IdleMain /\ UNCHANGED holds
    /\ UNCHANGED <<balance, entries, issued, held, revenue, nonces, served, world, ldk, api>>

\* The keysend or the channel open starts, or the hold is given up.
MoveSend ==
    /\ main.pc = "send"
    /\ LET n == main.ref
           a == IF main.how = "deliver" THEN main.amt.free ELSE main.amt.plan
       IN \/ Sent(main.how, n, "none", a, main.amt.free) /\ Go("rename", n, Len(out'), main.how)
             /\ UNCHANGED holds
          \/ take_hold(PendingId(main.how, n)) /\ main' = IdleMain /\ UNCHANGED out
    /\ UNCHANGED <<balance, entries, issued, held, revenue, nonces, served, world,
                   inbound, onchain, routed, queue, api>>

MoveRename ==
    /\ main.pc = "rename"
    /\ rename_hold(PendingId(main.how, main.ref), MoveId(main.amt))
    /\ main' = IdleMain
    /\ UNCHANGED <<balance, entries, issued, held, revenue, nonces, served, world, ldk, api>>

\* The process stops where that matters and is started again: the ledger and
\* LDK's store survive, the threads do not.
Crash ==
    /\ crashes < MaxCrashes
    /\ api.pc # "idle" \/ main.pc # "idle"
    /\ crashes' = crashes + 1
    /\ api' = IdleApi
    /\ main' = IdleMain
    /\ UNCHANGED <<now, height, scenario, ledger, served, ldk>>

-----------------------------------------------------------------------------
Init ==
    /\ now = 0 /\ height = 0 /\ crashes = 0 /\ routed = 0
    /\ balance = [n \in Nodes |-> 0]
    /\ holds = {} /\ entries = {} /\ issued = {} /\ revenue = {} /\ nonces = {} /\ onchain = {}
    /\ held = [h \in OfKind("held") |-> [st |-> "none", fid |-> 0]]
    /\ scenario \in Scenarios
    /\ served = [r \in scenario.requests |-> 0]
    /\ inbound = [h \in Hashes |-> "none"]
    /\ out = <<>> /\ queue = <<>>
    /\ api = IdleApi /\ main = IdleMain

ApiStep ==
    \/ \E r \in scenario.requests : handle(r)
    \/ serve \/ send_bolt11 \/ send_onchain \/ ApiSettle

MainStep ==
    \/ account_event \/ SkimRecord \/ event_handled
    \/ \E h \in OfKind("held") : settle_into_account(h) \/ deliver(h)
    \/ HeldRecord
    \/ \E n \in Nodes : deliver_balances(n) \/ run_conversions(n)
    \/ start_conversion \/ MoveSend \/ MoveRename

Network ==
    \/ \E h \in Hashes : PayIn(h)
    \/ \E i \in 1..Len(out) : Resolve(i)
    \/ Forwarded

Next == ApiStep \/ MainStep \/ Network \/ Block \/ Second \/ Crash

Spec == Init /\ [][Next]_vars

-----------------------------------------------------------------------------
(* Properties                                                              *)

HeldStates == {"none", "open", "claimable", "forwarding", "credited", "failed", "done"}
Moves == {"deliver", "conv:pay", "conv:chan"}

HoldIds ==
    ({"send"} \X Hashes) \cup {WithdrawId(r) : r \in Requests}
    \cup ({"deliver:pending", "conv:pending"} \X Nodes) \cup (Moves \X Nat)

Hold == [id : HoldIds, node : Nodes, amt : Nat, base : Nat,
         kind : {"send", "withdraw", "conversion"}]

\* A payment or channel open of ours.
Outgoing == [why : Moves \cup {"send", "forward"}, node : Nodes, ref : Hashes \cup {"none"},
             amt : Nat, charge : Nat, st : {"flying", "ok", "failed"}, fee : Nat]

\* What LDK says of a payment in, one routed, or one of ours.
Events ==
    [kind : {"received"}, ref : Hashes \ (OfKind("held") \cup OfKind("ext")), fee : {0}]
    \cup [kind : {"claimable"}, ref : OfKind("held"), fee : {0}]
    \cup [kind : {"forwarded", "ok", "failed"}, ref : Nat, fee : Nat]

\* Every table and queue of the ledger, of LDK and of the two threads stays within its type.
TypeOK ==
    /\ now \in Nat /\ height \in Nat /\ crashes \in 0..MaxCrashes
    /\ scenario \in Scenarios /\ served \in [scenario.requests -> Nat]
    /\ balance \in [Nodes -> Int]
    /\ holds \subseteq Hold /\ IsFiniteSet(holds)
    /\ entries \subseteq [node : Nodes, hash : Hashes, from : Nodes \cup {"ln"}]
    /\ issued \subseteq OfKind("invoice") \cup OfKind("fee") \cup OfKind("offer")
    /\ nonces \subseteq Requests
    /\ onchain \subseteq [node : Nodes, amt : Nat, req : Requests, nth : Nat]
    /\ held \in [OfKind("held") -> [st : HeldStates, fid : Nat]]
    /\ inbound \in [Hashes -> {"none", "locked", "claimed", "refunded"}]
    /\ out \in Seq(Outgoing) /\ routed \in Nat
    /\ queue \in Seq(Events)
    /\ api \in [pc : {"idle", "nonce", "pay", "withdraw", "settle", "unpaid"}, req : Requests]
    /\ main.pc \in {"idle", "ack", "skim", "deliver", "forward", "claimed", "credited", "settled",
                     "read", "hold", "send", "rename"}

\* Sends, withdrawals and moves that overlap never reserve more than the account
\* has (hold_kind, transfer), across crashes and replayed events.
NeverOverdrawn == \A n \in Nodes : account_of(n).held <= account_of(n).balance

\* A signed request takes effect at most once however often it is delivered, as long as it is
\* good (use_nonce prunes nothing that verify does not refuse).  The two read the clock one
\* after the other: if the last second ends in between, and only then, it is served again,
\* once, because one thread serves all requests.
ServedOnce ==
    \A r \in scenario.requests : served[r] <= IF r.exp < now THEN 2 ELSE 1

\* account_auth.rs calls a nonce single-use: a replayed request is refused, always.
NeverReplayed == \A r \in scenario.requests : served[r] <= 1

Credits(n) == {e \in entries : e.node = n}
Given(n) == {e \in entries : e.from = n}
PaidIn(S) == SumFunction([e \in S |-> Amt(e.hash)])
Debited(n) == PaidIn(Credits(n)) - PaidIn(Given(n)) - balance[n]

OutOf(n) == {i \in 1..Len(out) : out[i].node = n /\ out[i].why # "forward"}
Left(n) == SumFunction([i \in {i \in OutOf(n) : out[i].st = "ok"} |-> out[i].charge + out[i].fee])
           + SumAmt({c \in onchain : c.node = n})

Quiet(n) ==
    /\ HoldsOf(n) = {}
    /\ \A k \in 1..Len(queue) : queue[k].kind \notin {"ok", "failed"}

\* An invoice is paid by two requests, or by one that was served twice.
Retried ==
    \/ \E r, q \in scenario.requests : r # q /\ r.op = "pay" /\ q.op = "pay" /\ r.hash = q.hash
    \/ \E r \in scenario.requests : r.op = "pay" /\ served[r] > 1

\* Once nothing of an account is under way it was debited what left for it, to the
\* unit and with the fee really paid: nothing settles twice or is given back after it
\* left (pay, withdraw, settle_send, finish_conversion).  A crash is no exception unless
\* the phone pays the same invoice again while the replayed event is due.
ChargedExactly ==
    crashes = 0 \/ ~Retried => \A n \in Nodes : Quiet(n) => Debited(n) = Left(n)

Forwards(h) == {i \in 1..Len(out) : out[i].why = "forward" /\ out[i].ref = h /\ out[i].st # "failed"}
Arrived(h) == {i \in Forwards(h) : out[i].st = "ok"}

\* 1 if P, 0 if not.
One(P) == IF P THEN 1 ELSE 0

\* The payers' deadline has passed.
Late == height >= Deadline

\* A held payment goes one way: to the phone, to the account, or back to its payer (deliver,
\* on_forward_result, settle_into_account).  Each stop of the process between a call of the
\* node and the row that records it adds at most one more way, and so does the payers'
\* deadline.  What is done reached the phone, what is credited is in the account, and both
\* were paid for in time; what was taken from the payer arrived, unless the LSP stopped
\* before it could credit it.
HeldOnce ==
    \A h \in OfKind("held") :
        /\ Cardinality(Forwards(h)) + One(Credited(Owner(h), h)) + One(inbound[h] = "refunded")
              <= 1 + crashes + One(Late)
        /\ held[h].st = "done" => Arrived(h) # {} /\ (inbound[h] = "claimed" \/ Late)
        /\ held[h].st = "credited" => Credited(Owner(h), h) /\ (inbound[h] = "claimed" \/ Late)
        /\ held[h].st = "failed" => inbound[h] = "refunded" \/ crashes > 0
        /\ inbound[h] = "claimed" => \/ Arrived(h) # {} \/ Credited(Owner(h), h)
                                     \/ main.pc = "claimed" /\ main.ref = h
                                     \/ crashes > 0 /\ held[h].st \in {"claimable", "failed"}

Acct == INSTANCE Account WITH
    Amount <- [h \in Hashes |-> Amt(h)],
    reserved <- [n \in Nodes |-> account_of(n).held],
    paid <- [n \in Nodes |-> {e.hash : e \in Credits(n)}]

\* The ledger under its two threads, crashes and replayed events included, keeps the
\* account's promise: LspAccounts implements Account.
AccountKept == Acct!Spec

\* A conversion debits what it sends plus the fee for moving it, no more and no less
\* (conversion::plan, finish_conversion).
ConvertedExactly ==
    \A i \in 1..Len(out) :
        out[i].why \in {"conv:pay", "conv:chan"}
        => out[i].amt + conversion_fee_msat(out[i].charge) = out[i].charge

\* A payment routed through the LSP earns its fee once, also when its event is
\* handed out again (record_revenue).
RoutingFeeOnce == Cardinality({r \in revenue : r.kind = "routing_fee"}) <= routed

\* What the LSP took from the payer of a held payment is not written off as failed,
\* also when it stops between taking it and crediting it (settle_into_account).
ClaimedNotFailed ==
    \A h \in OfKind("held") : inbound[h] = "claimed" => held[h].st # "failed"

\* A held payment reaches its owner once, also when the LSP stops between sending it to
\* the phone and recording that it did (deliver).
DeliveredOnce ==
    \A h \in OfKind("held") :
        Cardinality(Arrived(h)) + (IF Credited(Owner(h), h) THEN 1 ELSE 0) <= 1

\* A held payment is never refunded to its payer once the phone has it
\* (deliver forwards only while there is time left).
ForwardInTime ==
    \A h \in OfKind("held") : Arrived(h) # {} => inbound[h] # "refunded"
=============================================================================

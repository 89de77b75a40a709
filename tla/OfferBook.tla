----------------------------- MODULE OfferBook -----------------------------
(***************************************************************************)
(* The offers of fortis-edge and the matches made of them: posting, taking *)
(* and cancelling an offer, price-limit matching with partial fills, the   *)
(* watchtower's rematch pass, and what a cancelled match gives back.       *)
(*                                                                         *)
(* A request checks without the matching lock and then works under it, one *)
(* locked section at a time.  A match is three writes (the match, the two  *)
(* offers) and so is its cancellation; a fault stops after some of them.   *)
(* What happens inside a match is SwapMatch's; here it is accepted, funded *)
(* and declined at any time and missed once its deadlines have passed.     *)
(***************************************************************************)
EXTENDS Integers, FiniteSets, FiniteSetsExt, Functions

CONSTANTS
    Threads,      \* worker threads that serve requests
    Requests,     \* what clients post, each any number of times
    None,         \* no client_id, no recovery tag, no match
    Unit,         \* sats in one XBT: prices are BTC sat per Unit
    MinLeg,       \* MIN_BTC_LEG_SAT
    Cap,          \* max_btc_sat
    MaxOpen,      \* MAX_OPEN_OFFERS
    AcceptSecs,   \* ACCEPT_SECS
    FundSecs,     \* INITIATOR_FUND_SECS
    ExpiresSecs,  \* life of an offer
    MaxOffers,    \* bound: offers ever made
    MaxMatches,   \* bound: matches ever made
    MaxCalls,     \* bound: requests served
    MaxTime,      \* bound: the last instant explored
    MaxFaults     \* bound: crashes and failed writes

OfferIds == 1..MaxOffers
MatchIds == 1..MaxMatches
Times == 0..MaxTime
Directions == {"xbt_to_btc", "btc_to_xbt"}

\* A request as its client sends it.  "offer" posts one, "take" takes part of a
\* listed one, "code" takes a private one by its share code.  A price of 0 is
\* refused at once.
Request ==
    [kind : {"offer", "take", "code"}, token : STRING, client : STRING \cup {None},
     tag : STRING \cup {None}, direction : Directions, amount : Nat, price : Nat \ {0},
     private : BOOLEAN]

ASSUME OfferBookConstants ==
    /\ Requests \subseteq Request
    /\ Unit \in Nat \ {0} /\ MinLeg \in Nat \ {0} /\ Cap \in Nat /\ MaxOpen \in Nat
    /\ AcceptSecs \in Nat /\ FundSecs \in Nat /\ ExpiresSecs \in Nat \ {0}
    /\ MaxOffers \in Nat /\ MaxMatches \in Nat /\ MaxCalls \in Nat
    /\ MaxTime \in Nat /\ MaxFaults \in Nat
    /\ None \notin MatchIds \cup OfferIds

VARIABLES
    offers,   \* stored offers
    matches,  \* stored matches
    tags,     \* CF_TAGS: the offer that claimed each tag
    th,       \* worker threads
    tower,    \* the watchtower's pass over the book and what is left of it
    now,      \* wall clock
    budget    \* calls and faults so far

vars == <<offers, matches, tags, th, tower, now, budget>>

-----------------------------------------------------------------------------
(* Types                                                                   *)

Tags == {r.tag : r \in Requests} \ {None}
Tokens == {r.token : r \in Requests}
Clients == {r.client : r \in Requests} \cup {None}

OfferStatus == {"none", "open", "matched", "cancelled", "expired", "filled"}

\* Offer; `posted` is what its owner asked to swap, kept to state properties.
Offer ==
    [status : OfferStatus, token : Tokens, direction : Directions, amount : Nat,
     posted : Nat, price : Nat \ {0}, created : Times, expires : Nat, private : BOOLEAN,
     code : BOOLEAN, client : Clients, tag : Tags \cup {None}, match : MatchIds \cup {None}]

MatchStatus == {"none", "proposed", "accepted", "funded", "cancelled", "closed"}

\* Match: what of it the book depends on.  `pre` is pre_match_amounts, `missed`
\* is missed_participant_deadline, "funded" is InitiatorFunded and "closed" every
\* status after it.
Match ==
    [status : MatchStatus, init : OfferIds, part : OfferIds, price : Nat \ {0},
     xbt : Nat, btc : Nat, pre : Nat \X Nat, at : Times, missed : BOOLEAN]

NoOffer == [status |-> "none"]
NoMatch == [status |-> "none"]

Idle == [pc |-> "idle"]
Resting == [pass |-> "none", left |-> {}]

\* A request that passed its checks, and its offer on the way through the lock.
Worker ==
    {Idle}
    \cup [pc : {"insert"}, req : Requests, at : Times]
    \cup [pc : {"match"}, i : OfferIds, at : Times]
    \cup [pc : {"take"}, req : Requests, amount : Nat, maker : OfferIds, at : Times]
    \cup [pc : {"clean"}, i : OfferIds]

\* The matches a deadlines pass, or the offers a rematch pass, has yet to look at.
Tower ==
    [pass : {"none"}, left : {{}}]
    \cup [pass : {"deadlines"}, left : SUBSET MatchIds]
    \cup [pass : {"rematch"}, left : SUBSET OfferIds]

\* TypeOK: an offer's amount never goes below zero, a match names stored
\* offers' ids, and a tag names the offer that claimed it.
TypeOK ==
    /\ offers \in [OfferIds -> Offer \cup {NoOffer}]
    /\ matches \in [MatchIds -> Match \cup {NoMatch}]
    /\ tags \in [Tags -> OfferIds \cup {None}]
    /\ th \in [Threads -> Worker]
    /\ tower \in Tower
    /\ now \in Times
    /\ budget \in [calls : 0..MaxCalls, faults : 0..MaxFaults]

Stored == {i \in OfferIds : offers[i].status # "none"}
Made == {k \in MatchIds : matches[k].status # "none"}

\* new_id: neither an offer's id nor the id of one a match was made for.
Fresh == {i \in OfferIds \ Stored : \A k \in Made : i \notin {matches[k].init, matches[k].part}}

-----------------------------------------------------------------------------
(* Amounts                                                                 *)

btc_for_xbt(x, price) == (x * price) \div Unit
xbt_for_btc(b, price) == (b * Unit) \div price

\* An amount on its own send chain, as BTC.
btc_leg_value(direction, amount, price) ==
    IF direction = "xbt_to_btc" THEN btc_for_xbt(amount, price) ELSE amount

opposite(direction) == IF direction = "xbt_to_btc" THEN "btc_to_xbt" ELSE "xbt_to_btc"

\* What a seller and a buyer would exchange at a price.
Fill(seller, buyer, price) ==
    LET x == Min({seller.amount, xbt_for_btc(buyer.amount, price), xbt_for_btc(Cap, price)})
    IN  [xbt |-> x, btc |-> btc_for_xbt(x, price)]

Fillable(seller, buyer, price) == Fill(seller, buyer, price).btc >= MinLeg

matchable(o, at) == o.status = "open" /\ o.expires > at

FaultCrosses(a, b) == TRUE

\* offers_cross: the seller asks no more than the buyer bids.
offers_cross(a, b) ==
    IF a.direction = "xbt_to_btc" THEN a.price <= b.price ELSE b.price <= a.price

\* settle: the remainder stays open if it is worth the minimum.
Settled(o, consumed, limiting, k) ==
    LET rest == o.amount - consumed
    IN  IF btc_leg_value(o.direction, rest, o.price) >= MinLeg
          THEN [o EXCEPT !.amount = rest, !.status = "open", !.match = None]
          ELSE [o EXCEPT !.amount = rest, !.match = k,
                         !.status = IF limiting THEN "matched" ELSE "filled"]

-----------------------------------------------------------------------------
(* Faults: a handler stops after some of its writes                        *)

\* Of the writes 1..n, those done: all, or with a fault any first few.
WritesDone(n, faults) ==
    IF faults = budget.faults THEN {n} ELSE IF faults <= MaxFaults THEN 0..(n - 1) ELSE {}

TagFree(tag, i) == tag \in Tags => tags[tag] \in {None, i}

Claimed(tag, i) == IF tag = None THEN tags ELSE [tags EXCEPT ![tag] = i]

-----------------------------------------------------------------------------
(* pair: one match of two offers; a new taker's offer is stored with it    *)

\* Offers i (held as a) and j (held as b) at a price.  The writes are the match,
\* the seller's offer, the buyer's; put_offer refuses a tag another offer holds.
\* `faults` is the fault count after it, `done` tells whether all were written.
Pair(i, a, j, b, price, at, faults, done) ==
    LET si == IF a.direction = "xbt_to_btc" THEN i ELSE j
        bi == IF a.direction = "xbt_to_btc" THEN j ELSE i
        s == IF si = i THEN a ELSE b
        p == IF si = i THEN b ELSE a
        f == Fill(s, p, price)
        k == Min(MatchIds \ Made)
        s2 == Settled(s, f.xbt, f.xbt = s.amount, k)
        p2 == Settled(p, f.btc, f.xbt = xbt_for_btc(p.amount, price), k)
        reach == IF ~TagFree(s.tag, si) THEN 1 ELSE IF ~TagFree(p.tag, bi) THEN 2 ELSE 3
    IN  /\ Made # MatchIds
        /\ \E w \in WritesDone(reach, faults) :
             /\ matches' = IF w = 0 THEN matches ELSE
                  [matches EXCEPT ![k] =
                     [status |-> "proposed", init |-> si, part |-> bi, price |-> price,
                      xbt |-> f.xbt, btc |-> f.btc, pre |-> <<s.amount, p.amount>>, at |-> at,
                      missed |-> FALSE]]
             /\ offers' = CASE w < 2 -> offers
                            [] w = 2 -> [offers EXCEPT ![si] = s2]
                            [] w = 3 -> [offers EXCEPT ![si] = s2, ![bi] = p2]
             /\ tags' = IF w < 2 THEN tags
                        ELSE [g \in Tags |-> CASE g = s.tag -> si
                                               [] g = p.tag /\ w = 3 -> bi
                                               [] OTHER -> tags[g]]
             /\ done = (w = 3)

-----------------------------------------------------------------------------
(* match_locked                                                            *)

\* Offers that share a cancelled match.
CancelledPairs ==
    {{matches[k].init, matches[k].part} : k \in {k \in Made : matches[k].status = "cancelled"}}

Price(i, j) == IF offers[i].created < offers[j].created THEN offers[i].price ELSE offers[j].price

\* Offers i may be paired with, none in a pair of `barred`.
Candidates(i, barred, at) ==
    {j \in Stored :
       LET a == offers[i]  b == offers[j]
       IN  /\ b.direction = opposite(a.direction)
           /\ ~b.private /\ matchable(b, at) /\ b.token # a.token
           /\ {i, j} \notin barred
           /\ offers_cross(a, b)
           /\ IF a.direction = "xbt_to_btc" THEN Fillable(a, b, Price(i, j)) ELSE Fillable(b, a, Price(i, j))}

\* j is tried no later than k: the better price, then the older.
Before(j, k) ==
    LET b == offers[j]  c == offers[k]
    IN  \/ IF b.direction = "btc_to_xbt" THEN b.price > c.price ELSE b.price < c.price
        \/ b.price = c.price /\ b.created < c.created
        \/ b.price = c.price /\ b.created = c.created /\ j <= k

\* match_locked finds no one, or pairs i with the first candidate that fills.
NoMatchFor(i, barred, at) == ~matchable(offers[i], at) \/ Candidates(i, barred, at) = {}

MatchLocked(i, barred, at, faults, done) ==
    /\ ~NoMatchFor(i, barred, at)
    /\ \E j \in Candidates(i, barred, at) :
         /\ \A k \in Candidates(i, barred, at) : Before(j, k)
         /\ Pair(i, offers[i], j, offers[j], Price(i, j), at, faults, done)

-----------------------------------------------------------------------------
(* Requests                                                                *)

\* The matching lock is free: only a pass of the watchtower holds it across steps.
Unlocked == tower = Resting

Goto(t, rec) == th' = [th EXCEPT ![t] = rec]

Call ==
    /\ budget.calls < MaxCalls
    /\ budget' = [budget EXCEPT !.calls = @ + 1]

\* The fault count goes from `budget.faults` to one of these.
FaultCounts == budget.faults..(budget.faults + 1)

Faulting(faults) == budget' = [budget EXCEPT !.faults = faults]

Replayed(r) == r.client # None /\ \E i \in Stored : offers[i].token = r.token /\ offers[i].client = r.client

Unused(tag) == tag \in Tags => tags[tag] = None

\* open_offers_of: open, not expired.
OpenOf(token) ==
    {i \in Stored : offers[i].token = token /\ matchable(offers[i], now)}

NewOffer(r, direction, amount, price, private, code, at) ==
    [status |-> "open", token |-> r.token, direction |-> direction, amount |-> amount,
     posted |-> amount, price |-> price, created |-> at, expires |-> at + ExpiresSecs,
     private |-> private, code |-> code, client |-> r.client, tag |-> r.tag, match |-> None]

\* create_offer up to the lock.  A request that is refused, for a reason here or
\* because its token is struck out, changes nothing and is left out.
CreateCheck(t, r) ==
    /\ th[t] = Idle /\ Call
    /\ r.kind = "offer" /\ ~Replayed(r) /\ Unused(r.tag)
    /\ Cardinality(OpenOf(r.token)) < MaxOpen
    /\ btc_leg_value(r.direction, r.amount, r.price) \in MinLeg..Cap
    /\ Goto(t, [pc |-> "insert", req |-> r, at |-> now])
    /\ UNCHANGED <<offers, matches, tags, tower, now>>

FaultCreateInsert(t) ==
    LET r == th[t].req
    IN  /\ Unlocked /\ th[t].pc = "insert"
        /\ \E i \in Fresh :
             /\ offers' = [offers EXCEPT ![i] = NewOffer(r, r.direction, r.amount, r.price,
                                                         r.private, r.private, th[t].at)]
             /\ Goto(t, IF r.private THEN Idle ELSE [pc |-> "match", i |-> i, at |-> th[t].at])
             /\ tags' = Claimed(r.tag, i)
        /\ UNCHANGED <<matches, tower, now, budget>>

\* The lookup and the insert are one step.
CreateInsert(t) ==
    LET r == th[t].req
    IN  /\ Unlocked /\ th[t].pc = "insert"
        /\ IF Replayed(r) \/ ~Unused(r.tag)
             THEN Goto(t, Idle) /\ UNCHANGED <<offers, tags>>
             ELSE \E i \in Fresh :
                    /\ offers' = [offers EXCEPT ![i] = NewOffer(r, r.direction, r.amount, r.price,
                                                                r.private, r.private, th[t].at)]
                    /\ Goto(t, IF r.private THEN Idle ELSE [pc |-> "match", i |-> i, at |-> th[t].at])
                    /\ tags' = Claimed(r.tag, i)
        /\ UNCHANGED <<matches, tower, now, budget>>

\* create_offer's loop: match while a remainder is open.
CreateMatch(t) ==
    LET i == th[t].i
    IN  /\ Unlocked /\ th[t].pc = "match"
        /\ \/ /\ NoMatchFor(i, {}, th[t].at)
              /\ Goto(t, Idle)
              /\ UNCHANGED <<offers, matches, tags, budget>>
           \/ \E faults \in FaultCounts, done \in BOOLEAN :
                /\ MatchLocked(i, {}, th[t].at, faults, done)
                /\ Faulting(faults)
                /\ Goto(t, IF done /\ offers'[i].status = "open" THEN th[t] ELSE Idle)
        /\ UNCHANGED <<tower, now>>

\* take_offer up to the lock: all or part of listed offer j, at its price.
TakeCheck(t, r, j) ==
    /\ th[t] = Idle /\ Call
    /\ r.kind = "take" /\ ~Replayed(r) /\ Unused(r.tag)
    /\ LET mk == offers[j]
           have == IF r.direction = "xbt_to_btc" THEN xbt_for_btc(mk.amount, mk.price)
                                                  ELSE btc_for_xbt(mk.amount, mk.price)
       IN  /\ ~mk.private /\ matchable(mk, now) /\ mk.token # r.token
           /\ r.price = mk.price /\ r.direction = opposite(mk.direction)
           /\ btc_leg_value(r.direction, r.amount, r.price) \in MinLeg..Cap
           /\ r.amount <= have
    /\ Goto(t, [pc |-> "take", req |-> r, amount |-> r.amount, maker |-> j, at |-> now])
    /\ UNCHANGED <<offers, matches, tags, tower, now>>

\* take up to the lock: the whole private offer behind a code.
CodeCheck(t, r, j) ==
    /\ th[t] = Idle /\ Call
    /\ r.kind = "code" /\ Unused(r.tag)
    /\ LET mk == offers[j]
       IN  /\ mk.code
           /\ Goto(t, [pc |-> "take", req |-> r, maker |-> j, at |-> now,
                       amount |-> IF mk.direction = "btc_to_xbt" THEN xbt_for_btc(mk.amount, mk.price)
                                                                 ELSE btc_for_xbt(mk.amount, mk.price)])
    /\ UNCHANGED <<offers, matches, tags, tower, now>>

\* take_public, take_private: the taker's unlisted offer paired with the maker's.
TakePair(t) ==
    LET j == th[t].maker
        mk == offers[j]
        taker == NewOffer(th[t].req, opposite(mk.direction), th[t].amount, mk.price, TRUE, FALSE, th[t].at)
        fits == IF taker.direction = "xbt_to_btc" THEN Fillable(taker, mk, mk.price)
                                                   ELSE Fillable(mk, taker, mk.price)
    IN  /\ Unlocked /\ th[t].pc = "take"
        /\ IF ~matchable(mk, th[t].at) \/ mk.token = taker.token \/ ~fits
             THEN Goto(t, Idle) /\ UNCHANGED <<offers, matches, tags, budget>>
             ELSE \E i \in Fresh, faults \in FaultCounts, done \in BOOLEAN :
                    /\ Pair(i, taker, j, mk, mk.price, th[t].at, faults, done)
                    /\ Faulting(faults)
                    /\ Goto(t, IF done THEN [pc |-> "clean", i |-> i] ELSE Idle)
        /\ UNCHANGED <<tower, now>>

\* What the fill left of the taker's side is not an offer anyone asked for.
TakeClean(t) ==
    LET i == th[t].i
    IN  /\ Unlocked /\ th[t].pc = "clean"
        /\ offers' = IF offers[i].status = "open" THEN [offers EXCEPT ![i].status = "cancelled"] ELSE offers
        /\ Goto(t, Idle)
        /\ UNCHANGED <<matches, tags, tower, now, budget>>

cancel_offer(i) ==
    /\ Unlocked
    /\ offers[i].status = "open"
    /\ offers' = [offers EXCEPT ![i].status = "cancelled"]
    /\ UNCHANGED <<matches, tags, th, tower, now, budget>>

-----------------------------------------------------------------------------
(* Matches: their progress and their end                                   *)

\* Accepted by both, then funded by the initiator, then by the participant.
Progress(k) ==
    /\ Unlocked
    /\ \E to \in CASE matches[k].status = "proposed" -> {"accepted"}
                   [] matches[k].status = "accepted" -> {"funded"}
                   [] matches[k].status = "funded" -> {"closed"}
                   [] OTHER -> {} :
         matches' = [matches EXCEPT ![k].status = to]
    /\ UNCHANGED <<offers, tags, th, tower, now, budget>>

\* A participant's funding mined in time turns up after the match was cancelled.
Reinstate(k) ==
    /\ Unlocked
    /\ matches[k].status = "cancelled" /\ matches[k].missed
    /\ matches' = [matches EXCEPT ![k].status = "closed", ![k].missed = FALSE]
    /\ UNCHANGED <<offers, tags, th, tower, now, budget>>

FaultReleased(i, k, pre, consumed, how) ==
    LET o == offers[i]
    IN  IF how = "reopen" THEN [o EXCEPT !.match = None, !.amount = pre, !.status = "open"]
                          ELSE [o EXCEPT !.match = None, !.status = "cancelled"]

FaultReleasedHeld(i, k, pre, consumed, how) ==
    [offers[i] EXCEPT !.match = IF @ = k THEN None ELSE @]

\* release: offer i gives up or gets back what match k took.
Released(i, k, pre, consumed, how) ==
    LET o == offers[i]
        held == o.status # "none" /\ o.match = k
    IN  CASE held /\ how = "reopen" -> [o EXCEPT !.match = None, !.amount = pre, !.status = "open"]
          [] held /\ how = "cancel" -> [o EXCEPT !.match = None, !.status = "cancelled"]
          [] ~held /\ o.status = "open" /\ how = "reopen" -> [o EXCEPT !.amount = @ + consumed]
          [] ~held /\ o.status = "open" /\ how = "cancel" -> [o EXCEPT !.status = "cancelled"]
          [] OTHER -> o

\* cancel: the match, then the two offers.
Cancel(k, initiator, participant, missed) ==
    LET mk == matches[k]
        s2 == Released(mk.init, k, mk.pre[1], mk.xbt, initiator)
        p2 == Released(mk.part, k, mk.pre[2], mk.btc, participant)
    IN  \E faults \in FaultCounts :
          /\ Faulting(faults)
          /\ \E w \in WritesDone(3, faults) :
               /\ matches' = IF w = 0 THEN matches
                             ELSE [matches EXCEPT ![k].status = "cancelled", ![k].missed = missed]
               /\ offers' = CASE w < 2 -> offers
                              [] w = 2 -> [offers EXCEPT ![mk.init] = s2]
                              [] w = 3 -> [offers EXCEPT ![mk.init] = s2, ![mk.part] = p2]

on_decline(k) ==
    /\ Unlocked
    /\ matches[k].status = "proposed"
    /\ Cancel(k, "cancel", "reopen", FALSE) \/ Cancel(k, "reopen", "cancel", FALSE)
    /\ UNCHANGED <<tags, th, tower, now>>

-----------------------------------------------------------------------------
(* tick: deadlines first, which may reopen offers, then expiry             *)

Overdue(k) ==
    LET mk == matches[k]
    IN  \/ mk.status = "proposed" /\ now > mk.at + AcceptSecs
        \/ mk.status = "accepted" /\ now > mk.at + AcceptSecs + FundSecs

\* The participant's deadline depends on when the XBT funding was confirmed
\* (SwapMatch): any time later than the match.
Lapsing(k) == matches[k].status = "funded" /\ now > matches[k].at

Expiring == {i \in Stored : offers[i].status = "open" /\ offers[i].expires <= now}

\* A pass that would find nothing is left out.
TickStart ==
    /\ Unlocked
    /\ \E lapsed \in SUBSET {k \in Made : Lapsing(k)} :
         LET due == lapsed \cup {k \in Made : Overdue(k)}
         IN  /\ due # {} \/ Expiring # {}
             /\ tower' = [pass |-> "deadlines", left |-> due]
    /\ UNCHANGED <<offers, matches, tags, th, now, budget>>

\* tick_match: no one funded, or one side kept the other waiting (and is struck,
\* SwapMatch); after the initiator funded, neither offer goes back on the book.
tick_match ==
    /\ tower.pass = "deadlines"
    /\ \E k \in tower.left :
         /\ \A l \in tower.left : k <= l
         /\ CASE matches[k].status = "proposed" -> Cancel(k, "reopen", "reopen", FALSE)
              [] matches[k].status = "accepted" -> Cancel(k, "cancel", "reopen", FALSE)
              [] matches[k].status = "funded" -> Cancel(k, "cancel", "cancel", TRUE)
         /\ tower' = [tower EXCEPT !.left = @ \ {k}]
    /\ UNCHANGED <<tags, th, now>>

TickExpire ==
    /\ tower.pass = "deadlines" /\ tower.left = {}
    /\ offers' = [i \in OfferIds |-> IF i \in Expiring THEN [offers[i] EXCEPT !.status = "expired"]
                                                       ELSE offers[i]]
    /\ tower' = Resting
    /\ UNCHANGED <<matches, tags, th, now, budget>>

-----------------------------------------------------------------------------
(* rematch                                                                 *)

FaultCrossing ==
    {i \in Stored :
       /\ offers[i].status = "open" /\ ~offers[i].private
       /\ \E j \in Stored :
            /\ offers[j].direction = opposite(offers[i].direction)
            /\ matchable(offers[j], now) /\ ~offers[j].private
            /\ offers_cross(offers[i], offers[j]) /\ offers[i].price # offers[j].price}

\* Open public offers that cross the best opposite one.
Crossing ==
    {i \in Stored :
       /\ offers[i].status = "open" /\ ~offers[i].private
       /\ \E j \in Stored :
            /\ offers[j].direction = opposite(offers[i].direction)
            /\ matchable(offers[j], now) /\ ~offers[j].private
            /\ offers_cross(offers[i], offers[j])}

RematchStart ==
    /\ Unlocked
    /\ Crossing # {}
    /\ tower' = [pass |-> "rematch", left |-> Crossing]
    /\ UNCHANGED <<offers, matches, tags, th, now, budget>>

\* The next offer of the pass, the oldest, never with one it cancelled a match with.
RematchOne ==
    /\ tower.pass = "rematch"
    /\ \E i \in tower.left :
         /\ \A j \in tower.left : \/ offers[i].created < offers[j].created
                                  \/ offers[i].created = offers[j].created /\ i <= j
         /\ \/ NoMatchFor(i, CancelledPairs, now) /\ UNCHANGED <<offers, matches, tags, budget>>
            \/ \E faults \in FaultCounts, done \in BOOLEAN :
                 MatchLocked(i, CancelledPairs, now, faults, done) /\ Faulting(faults)
         /\ tower' = IF tower.left = {i} THEN Resting ELSE [tower EXCEPT !.left = @ \ {i}]
    /\ UNCHANGED <<th, now>>

Tick ==
    /\ now < MaxTime
    /\ Unlocked
    /\ now' = now + 1
    /\ UNCHANGED <<offers, matches, tags, th, tower, budget>>

-----------------------------------------------------------------------------
Init ==
    /\ offers = [i \in OfferIds |-> NoOffer]
    /\ matches = [k \in MatchIds |-> NoMatch]
    /\ tags = [g \in Tags |-> None]
    /\ th = [t \in Threads |-> Idle]
    /\ tower = Resting
    /\ now = 0
    /\ budget = [calls |-> 0, faults |-> 0]

Serve(t) ==
    \/ \E r \in Requests :
         CreateCheck(t, r) \/ \E j \in Stored : TakeCheck(t, r, j) \/ CodeCheck(t, r, j)
    \/ CreateInsert(t) \/ CreateMatch(t) \/ TakePair(t) \/ TakeClean(t)

Next ==
    \/ \E t \in Threads : Serve(t)
    \/ \E i \in Stored : cancel_offer(i)
    \/ \E k \in Made : Progress(k) \/ Reinstate(k) \/ on_decline(k)
    \/ TickStart \/ tick_match \/ TickExpire
    \/ RematchStart \/ RematchOne \/ Tick

Spec == Init /\ [][Next]_vars

\* The watchtower's thread goes on for ever: a pass it began ends, and one
\* that would find something is begun although requests and the other pass
\* take the lock in between.
Fairness ==
    /\ WF_vars(RematchOne) /\ WF_vars(tick_match \/ TickExpire)
    /\ SF_vars(RematchStart) /\ SF_vars(TickStart)

FairSpec == Spec /\ Fairness

-----------------------------------------------------------------------------
(* Properties                                                              *)

Live(k) == matches[k].status \notin {"none", "cancelled"}

\* What live matches hold of an offer, on its send chain.
Held(i) ==
    SumFunction([k \in MatchIds |->
        CASE Live(k) /\ matches[k].init = i -> matches[k].xbt
          [] Live(k) /\ matches[k].part = i -> matches[k].btc
          [] OTHER -> 0])

\* What is still on the book of an offer and what its live matches hold never
\* exceed what its owner posted, however fills, cancels and re-matches follow
\* each other (settle, release).
NeverOversold ==
    \A i \in Stored : Held(i) + (IF offers[i].status = "open" THEN offers[i].amount ELSE 0) <= offers[i].posted

\* Neither side of a match gets worse than its own limit, at the price and in
\* coins, and the swap is within the size limits (pair, match_locked).
WithinLimits ==
    \A k \in Made :
      LET mk == matches[k]
          s == offers[mk.init]  b == offers[mk.part]
      IN  s.status # "none" /\ b.status # "none" =>
            /\ s.token # b.token
            /\ s.price <= mk.price /\ mk.price <= b.price
            /\ mk.btc >= btc_for_xbt(mk.xbt, s.price)
            /\ mk.btc <= btc_for_xbt(mk.xbt, b.price)
            /\ mk.btc \in MinLeg..Cap

\* An offer off the book for a match has that match, and it is not cancelled:
\* a cancelled match gives back or gives up what it held (cancel, release).
HeldByLiveMatch ==
    \A i \in Stored : offers[i].status \in {"matched", "filled"} =>
      /\ offers[i].match # None
      /\ Live(offers[i].match)
      /\ i \in {matches[offers[i].match].init, matches[offers[i].match].part}

\* Posting again with the same client_id makes no second offer, however the
\* two requests interleave (create_offer looks again under the lock).
PostedOnce ==
    \A i, j \in Stored :
      LET posted(o) == o.private => o.code
      IN  /\ posted(offers[i]) /\ posted(offers[j])
          /\ offers[i].client # None /\ offers[i].client = offers[j].client
          /\ offers[i].token = offers[j].token
          => i = j

\* Taking again with the same client_id makes no second match (take_offer).
TakenOnce ==
    \A k, l \in Made :
      LET taker(n) == IF offers[matches[n].init].private THEN offers[matches[n].init] ELSE offers[matches[n].part]
      IN  /\ taker(k).status # "none" /\ taker(l).status # "none"
          /\ taker(k).private /\ taker(l).private
          /\ taker(k).client # None /\ taker(k).client = taker(l).client
          /\ taker(k).token = taker(l).token
          => k = l

Tradable(i, j) ==
    /\ offers[i].direction = "xbt_to_btc" /\ ~offers[i].private /\ matchable(offers[i], now)
    /\ j \in Candidates(i, CancelledPairs, now)

\* Listed offers that cross do not stay open side by side for ever: the book
\* keeps coming back to where no two offers would trade, but for pairs that
\* already cancelled a match (rematch; the bound on matches aside).
BookClears == []<>((~\E i, j \in Stored : Tradable(i, j)) \/ Made = MatchIds)

=============================================================================

-------------------------- MODULE OfferBookProofs --------------------------
(***************************************************************************)
(* Proofs about OfferBook.  Everything that happens to the book is one of  *)
(* a few kinds of step: an offer is stored, a match is made and its offers *)
(* settled, a match goes on, a match is cancelled and its offers released, *)
(* or open offers leave the book.  Each kind keeps the invariant; each     *)
(* action is of a kind.                                                    *)
(***************************************************************************)
EXTENDS OfferBook, Sums

-----------------------------------------------------------------------------
(* The inductive invariant                                                 *)

\* An offer names a match exactly while it is off the book for one, and the
\* match names the offer.
NamesItsMatch ==
    \A i \in Stored :
      /\ offers[i].status \in {"matched", "filled"} <=> offers[i].match # None
      /\ offers[i].match # None =>
           /\ offers[i].match \in Made
           /\ i \in {matches[offers[i].match].init, matches[offers[i].match].part}

\* As long as nothing failed, that match is live.
NamesLiveMatch ==
    budget.faults = 0 => \A i \in Stored : offers[i].match # None => Live(offers[i].match)

\* A match takes no more of an offer than was on the book, and only one that
\* was cancelled missed its participant.
MatchesFit ==
    \A k \in Made :
      /\ matches[k].init # matches[k].part
      /\ matches[k].xbt <= matches[k].pre[1]
      /\ matches[k].btc <= matches[k].pre[2]
      /\ matches[k].missed => matches[k].status = "cancelled"

\* A stored offer holds its tag.
TagsKept == \A i \in Stored : offers[i].tag # None => tags[offers[i].tag] = i

\* A deadlines pass has matches left that no one cancelled or closed.
TowerSound ==
    tower.pass = "deadlines" =>
      \A k \in tower.left : matches[k].status \in {"proposed", "accepted", "funded"}

\* Every match was made of two stored offers: no write of a pair was refused.
Written == \A k \in Made : matches[k].init \in Stored /\ matches[k].part \in Stored

\* A match that still holds its amounts or may yet be reinstated.
Counts(k) == matches[k].status # "none" /\ (matches[k].status # "cancelled" \/ matches[k].missed)

\* What match k took of offer i.
Share(i, k) ==
    CASE Counts(k) /\ matches[k].init = i -> matches[k].xbt
      [] Counts(k) /\ matches[k].part = i -> matches[k].btc
      [] OTHER -> 0

Shares(i) == [k \in MatchIds |-> Share(i, k)]

Owed(i) == SumFunctionOnSet(Shares(i), MatchIds)

\* What of offer i is on the book or would come back to it with its match.
Rest(i) ==
    IF offers[i].status = "open" THEN offers[i].amount
    ELSE IF offers[i].match = None THEN 0
    ELSE LET m == matches[offers[i].match]
         IN  IF m.init = i THEN m.pre[1] - m.xbt ELSE m.pre[2] - m.btc

\* No offer has given out more than was posted.
BooksBalance ==
    budget.faults = 0 /\ Written => \A i \in Stored : Owed(i) + Rest(i) <= offers[i].posted

IInv ==
    /\ TypeOK /\ NamesItsMatch /\ NamesLiveMatch /\ MatchesFit /\ TagsKept /\ TowerSound
    /\ WithinLimits /\ PostedOnce /\ BooksBalance

-----------------------------------------------------------------------------
(* What a step does to one match and to one offer                          *)

\* The part of WithinLimits about match k.
Limits(k) ==
    LET mk == matches[k]
        s == offers[mk.init]  b == offers[mk.part]
    IN  s.status # "none" /\ b.status # "none" =>
          /\ s.token # b.token
          /\ s.price <= mk.price /\ mk.price <= b.price
          /\ mk.btc >= btc_for_xbt(mk.xbt, s.price)
          /\ mk.btc <= btc_for_xbt(mk.xbt, b.price)
          /\ mk.btc \in MinLeg..Cap

\* What never changes of a stored offer, and of a match.
OfferKept(o, n) ==
    /\ n.status # "none"
    /\ n.token = o.token /\ n.client = o.client /\ n.tag = o.tag
    /\ n.price = o.price /\ n.posted = o.posted
    /\ n.private = o.private /\ n.code = o.code

MatchKept(m, n) ==
    /\ n.status # "none"
    /\ n.init = m.init /\ n.part = m.part /\ n.price = m.price
    /\ n.xbt = m.xbt /\ n.btc = m.btc /\ n.pre = m.pre

MatchGoesOn(k) ==
    /\ k \in Made
    /\ MatchKept(matches[k], matches'[k])
    /\ matches'[k].missed => matches'[k].status = "cancelled"

MatchBegins(k) ==
    /\ k \notin Made
    /\ matches'[k].status # "none" /\ ~matches'[k].missed
    /\ matches'[k].init # matches'[k].part
    /\ matches'[k].xbt <= matches'[k].pre[1] /\ matches'[k].btc <= matches'[k].pre[2]
    /\ {matches'[k].init, matches'[k].part} \subseteq Stored \cup Fresh
    /\ Limits(k)'

\* Offer i is not off the book for a match; it is off the book for a live one.
Free(i) == offers[i].match = None /\ offers[i].status \notin {"matched", "filled"}

Bound(i) ==
    /\ offers[i].status \in {"matched", "filled"}
    /\ offers[i].match \in Made /\ Live(offers[i].match)
    /\ i \in {matches[offers[i].match].init, matches[offers[i].match].part}

OfferStays(i) ==
    /\ offers'[i] = offers[i]
    /\ i \in Stored /\ offers[i].match # None /\ budget'.faults = 0 => Live(offers[i].match)'

OfferGoesOn(i) ==
    /\ i \in Stored
    /\ OfferKept(offers[i], offers'[i])
    /\ Free(i)' \/ Bound(i)'

\* A new offer is a taker's, or its client has not posted it before.
OfferBegins(i) ==
    /\ i \in Fresh
    /\ offers'[i].status # "none"
    /\ Free(i)' \/ Bound(i)'
    /\ \/ offers'[i].private /\ ~offers'[i].code
       \/ offers'[i].client = None
       \/ \A j \in Stored : ~(offers[j].token = offers'[i].token /\ offers[j].client = offers'[i].client)

\* A step that changes matches and offers in these ways only.
Step ==
    /\ budget'.faults = 0 => budget.faults = 0
    /\ \A k \in MatchIds : matches'[k] = matches[k] \/ MatchGoesOn(k) \/ MatchBegins(k)
    /\ \A i \in OfferIds : OfferStays(i) \/ OfferGoesOn(i) \/ OfferBegins(i)
    /\ \A i, j \in Stored' \ Stored : i = j

-----------------------------------------------------------------------------
(* Such a step keeps what is said of each match and each offer             *)

\* Offers and matches stay stored, and what a match names was not reused.
LEMMA StepGrows ==
    ASSUME IInv, TypeOK', Step
    PROVE  /\ Stored \subseteq Stored' /\ Made \subseteq Made'
           /\ \A i \in Stored : OfferKept(offers[i], offers'[i])
           /\ \A k \in Made : MatchKept(matches[k], matches'[k])
           /\ \A i \in Stored' \ Stored : OfferBegins(i)
           /\ \A k \in Made' \ Made : MatchBegins(k)
           /\ \A k \in Made : /\ matches[k].init \in Stored' <=> matches[k].init \in Stored
                              /\ matches[k].part \in Stored' <=> matches[k].part \in Stored
<1>1. \A i \in OfferIds : offers'[i] \in Offer \cup {NoOffer} /\ offers[i] \in Offer \cup {NoOffer}
  BY DEF IInv, TypeOK
<1>2. \A k \in MatchIds : matches'[k] \in Match \cup {NoMatch} /\ matches[k] \in Match \cup {NoMatch}
  BY DEF IInv, TypeOK
<1>3. \A i \in Stored : OfferKept(offers[i], offers'[i])
  BY DEF Step, OfferStays, OfferGoesOn, OfferBegins, Fresh, Stored, OfferKept
<1>4. \A k \in Made : MatchKept(matches[k], matches'[k])
  BY DEF Step, MatchGoesOn, MatchBegins, Made, MatchKept
<1>5. Stored \subseteq Stored' /\ Made \subseteq Made'
  BY <1>3, <1>4 DEF Stored, Made, OfferKept, MatchKept
<1>6. \A i \in Stored' \ Stored : OfferBegins(i)
  BY DEF Step, OfferStays, OfferGoesOn, Stored
<1>7. \A k \in Made' \ Made : MatchBegins(k)
  BY DEF Step, MatchGoesOn, Made
<1>8. \A k \in Made : /\ matches[k].init \in Stored' <=> matches[k].init \in Stored
                      /\ matches[k].part \in Stored' <=> matches[k].part \in Stored
  BY <1>5, <1>6 DEF OfferBegins, Fresh
<1> QED
  BY <1>3, <1>4, <1>5, <1>6, <1>7, <1>8

\* If every match has its offers after the step, it had them before.
LEMMA WrittenBefore ==
    ASSUME IInv, TypeOK', Step, Written'
    PROVE  Written
BY StepGrows DEF Written, MatchKept

\* No match comes to hold more than its offers had.
LEMMA StepKeepsMatches ==
    ASSUME IInv, TypeOK', Step
    PROVE  MatchesFit'
<1> SUFFICES ASSUME NEW k \in Made'
             PROVE  /\ matches'[k].init # matches'[k].part
                    /\ matches'[k].xbt <= matches'[k].pre[1]
                    /\ matches'[k].btc <= matches'[k].pre[2]
                    /\ matches'[k].missed => matches'[k].status = "cancelled"
  BY DEF MatchesFit
<1>1. k \in MatchIds
  BY DEF Made
<1>2. CASE matches'[k] = matches[k]
  BY <1>2, <1>1 DEF IInv, MatchesFit, Made
<1>3. CASE MatchGoesOn(k)
  BY <1>3 DEF IInv, MatchesFit, MatchGoesOn, MatchKept
<1>4. CASE MatchBegins(k)
  BY <1>4 DEF MatchBegins
<1> QED
  BY <1>1, <1>2, <1>3, <1>4 DEF Step

\* Every match stays within the limits of its offers.
LEMMA StepKeepsLimits ==
    ASSUME IInv, TypeOK', Step
    PROVE  WithinLimits'
<1>1. \A k \in Made : Limits(k)
  BY DEF IInv, WithinLimits, Limits
<1>2. \A k \in Made' : Limits(k)'
  <2> TAKE k \in Made'
  <2>1. CASE k \in Made' \ Made
    BY <2>1, StepGrows DEF MatchBegins
  <2>2. CASE k \in Made
    <3>1. MatchKept(matches[k], matches'[k])
      BY <2>2, StepGrows
    <3>2. matches[k].init \in OfferIds /\ matches[k].part \in OfferIds
      BY <2>2 DEF IInv, TypeOK, Made, Match, NoMatch
    <3>3. ASSUME matches[k].init \in Stored', matches[k].part \in Stored'
          PROVE  /\ matches[k].init \in Stored /\ matches[k].part \in Stored
                 /\ OfferKept(offers[matches[k].init], offers'[matches[k].init])
                 /\ OfferKept(offers[matches[k].part], offers'[matches[k].part])
      BY <3>3, <2>2, StepGrows
    <3>4. offers'[matches[k].init].status # "none" => matches[k].init \in Stored'
      BY <3>2 DEF Stored
    <3>5. offers'[matches[k].part].status # "none" => matches[k].part \in Stored'
      BY <3>2 DEF Stored
    <3>6. Limits(k)
      BY <1>1, <2>2
    <3> QED
      BY <3>1, <3>3, <3>4, <3>5, <3>6 DEF Limits, MatchKept, OfferKept, Stored, btc_for_xbt
  <2> QED
    BY <2>1, <2>2
<1> QED
  BY <1>2 DEF WithinLimits, Limits

\* An offer off the book names its match.
LEMMA StepKeepsNames ==
    ASSUME IInv, TypeOK', Step
    PROVE  NamesItsMatch' /\ NamesLiveMatch'
<1> SUFFICES ASSUME NEW i \in Stored'
             PROVE  /\ offers'[i].status \in {"matched", "filled"} <=> offers'[i].match # None
                    /\ offers'[i].match # None =>
                         /\ offers'[i].match \in Made'
                         /\ i \in {matches'[offers'[i].match].init, matches'[offers'[i].match].part}
                    /\ budget'.faults = 0 /\ offers'[i].match # None => Live(offers[i].match)'
  BY DEF NamesItsMatch, NamesLiveMatch
<1>1. i \in OfferIds
  BY DEF Stored
<1>2. CASE OfferStays(i)
  <2>1. i \in Stored
    BY <1>2, <1>1 DEF OfferStays, Stored
  <2>2. offers[i].match # None => MatchKept(matches[offers[i].match], matches'[offers[i].match])
    BY <2>1, StepGrows DEF IInv, NamesItsMatch
  <2>3. offers[i].match # None => offers[i].match \in Made'
    BY <2>1, StepGrows DEF IInv, NamesItsMatch
  <2> QED
    BY <1>2, <2>1, <2>2, <2>3 DEF IInv, NamesItsMatch, OfferStays, MatchKept, Live
<1>3. CASE Free(i)'
  BY <1>3 DEF Free
<1>4. CASE Bound(i)'
  <2>1. offers'[i].match \in MatchIds
    BY <1>4 DEF Bound, Made
  <2> QED
    BY <1>4, <2>1, OfferBookConstants DEF Bound, Live
<1> QED
  BY <1>1, <1>2, <1>3, <1>4 DEF Step, OfferGoesOn, OfferBegins

\* No client posts an offer twice.
LEMMA StepKeepsPosted ==
    ASSUME IInv, TypeOK', Step
    PROVE  PostedOnce'
<1> DEFINE posted(o) == o.private => o.code
<1> SUFFICES ASSUME NEW i \in Stored', NEW j \in Stored',
                    posted(offers'[i]), posted(offers'[j]),
                    offers'[i].client # None, offers'[i].client = offers'[j].client,
                    offers'[i].token = offers'[j].token
             PROVE  i = j
  BY DEF PostedOnce
<1>0. \A n \in Stored : OfferKept(offers[n], offers'[n])
  BY StepGrows
<1>1. CASE i \in Stored /\ j \in Stored
  BY <1>0, <1>1 DEF IInv, PostedOnce, OfferKept
<1>2. CASE i \in Stored /\ j \notin Stored
  <2>1. OfferBegins(j)
    BY <1>2, StepGrows
  <2> QED
    BY <2>1, <1>0, <1>2 DEF OfferBegins, OfferKept
<1>3. CASE i \notin Stored /\ j \in Stored
  <2>1. OfferBegins(i)
    BY <1>3, StepGrows
  <2> QED
    BY <2>1, <1>0, <1>3 DEF OfferBegins, OfferKept
<1>4. CASE i \notin Stored /\ j \notin Stored
  BY <1>4 DEF Step
<1> QED
  BY <1>1, <1>2, <1>3, <1>4

\* The invariant, once the types, the tags, the pass and the books are kept.
LEMMA StepKeeps ==
    ASSUME IInv, Step, TypeOK', TagsKept', TowerSound', BooksBalance'
    PROVE  IInv'
BY StepKeepsMatches, StepKeepsLimits, StepKeepsNames, StepKeepsPosted DEF IInv

-----------------------------------------------------------------------------
(* What is owed of an offer                                                *)

\* There are finitely many matches.
LEMMA MatchIdsFinite == IsFiniteSet(MatchIds)
BY OfferBookConstants, FS_Interval DEF MatchIds

\* What a match took of an offer is an amount.
LEMMA ShareNat ==
    ASSUME TypeOK, NEW i, NEW k \in MatchIds
    PROVE  Share(i, k) \in Nat
<1>1. matches[k] \in Match \cup {NoMatch}
  BY DEF TypeOK
<1>2. Counts(k) => matches[k] \in Match
  BY <1>1 DEF Counts, NoMatch
<1> QED
  BY <1>2 DEF Share, Match

\* When one match changes, what is owed changes by its share.
LEMMA OwedChange ==
    ASSUME TypeOK, TypeOK', NEW i, NEW k \in MatchIds,
           \A l \in MatchIds \ {k} : matches'[l] = matches[l]
    PROVE  /\ Owed(i) \in Int /\ Owed(i)' \in Int
           /\ Owed(i)' = Owed(i) - Share(i, k) + Share(i, k)'
<1>1. \A l \in MatchIds : Shares(i)[l] \in Int
  BY ShareNat DEF Shares
<1>2. \A l \in MatchIds : Shares(i)'[l] \in Int
  <2> TAKE l \in MatchIds
  <2>1. Share(i, l)' \in Nat
    <3>1. matches'[l] \in Match \cup {NoMatch}
      BY DEF TypeOK
    <3>2. Counts(l)' => matches'[l] \in Match
      BY <3>1 DEF Counts, NoMatch
    <3> QED
      BY <3>2 DEF Share, Match
  <2> QED
    BY <2>1 DEF Shares
<1>3. \A l \in MatchIds \ {k} : Shares(i)'[l] = Shares(i)[l]
  BY DEF Shares, Share, Counts
<1>4. /\ SumFunctionOnSet(Shares(i), MatchIds) \in Int
      /\ SumFunctionOnSet(Shares(i)', MatchIds) \in Int
  BY <1>1, <1>2, MatchIdsFinite, SumInt
<1>5. SumFunctionOnSet(Shares(i)', MatchIds)
        = SumFunctionOnSet(Shares(i), MatchIds) - Shares(i)[k] + Shares(i)'[k]
  BY <1>1, <1>2, <1>3, MatchIdsFinite, SumChange
<1>6. Shares(i)[k] = Share(i, k) /\ Shares(i)'[k] = Share(i, k)'
  BY DEF Shares
<1> QED
  BY <1>4, <1>5, <1>6 DEF Owed

\* When no match changes, nor does what is owed.
LEMMA OwedSame ==
    ASSUME TypeOK, NEW i, matches' = matches
    PROVE  Owed(i) \in Int /\ Owed(i)' = Owed(i)
<1>1. \A l \in MatchIds : Shares(i)[l] \in Int
  BY ShareNat DEF Shares
<1>2. Shares(i)' = Shares(i)
  BY DEF Shares, Share, Counts
<1> QED
  BY <1>1, <1>2, MatchIdsFinite, SumInt DEF Owed

\* Nothing is owed of an offer no match names.
LEMMA OwedNothing ==
    ASSUME TypeOK, NEW i \in Fresh
    PROVE  Owed(i) = 0
<1>1. \A k \in MatchIds : Shares(i)[k] = 0
  BY DEF Shares, Share, Counts, Fresh, Made
<1> QED
  BY <1>1, MatchIdsFinite, SumZero DEF Owed

\* What is on the book of an offer is an amount.
LEMMA RestNat ==
    ASSUME IInv, NEW i \in Stored
    PROVE  Rest(i) \in Nat
<1>1. offers[i] \in Offer
  BY DEF IInv, TypeOK, Stored, NoOffer
<1>2. CASE offers[i].match = None \/ offers[i].status = "open"
  BY <1>1, <1>2 DEF Rest, Offer
<1>3. CASE offers[i].match # None /\ offers[i].status # "open"
  <2> DEFINE m == matches[offers[i].match]
  <2>1. offers[i].match \in Made
    BY <1>3 DEF IInv, NamesItsMatch
  <2>2. m \in Match
    BY <2>1 DEF IInv, TypeOK, Made, NoMatch
  <2>3. m.xbt <= m.pre[1] /\ m.btc <= m.pre[2]
    BY <2>1 DEF IInv, MatchesFit
  <2>4. m.xbt \in Nat /\ m.btc \in Nat /\ m.pre[1] \in Nat /\ m.pre[2] \in Nat
    BY <2>2 DEF Match
  <2>5. m.pre[1] - m.xbt \in Nat /\ m.pre[2] - m.btc \in Nat
    BY <2>3, <2>4
  <2> QED
    BY <2>5, <1>3 DEF Rest
<1> QED
  BY <1>2, <1>3

\* The same after a step.
LEMMA RestNatNext ==
    ASSUME IInv, TypeOK', Step, NEW i \in Stored'
    PROVE  Rest(i)' \in Nat
<1>1. offers'[i] \in Offer
  BY DEF TypeOK, Stored, NoOffer
<1>0. NamesItsMatch' /\ MatchesFit'
  BY StepKeepsNames, StepKeepsMatches
<1>2. CASE offers'[i].match = None \/ offers'[i].status = "open"
  BY <1>1, <1>2 DEF Rest, Offer
<1>3. CASE offers'[i].match # None /\ offers'[i].status # "open"
  <2> DEFINE m == matches'[offers'[i].match]
  <2>1. offers'[i].match \in Made'
    BY <1>3, <1>0 DEF NamesItsMatch
  <2>2. m \in Match
    BY <2>1 DEF TypeOK, Made, NoMatch
  <2>3. m.xbt <= m.pre[1] /\ m.btc <= m.pre[2]
    BY <2>1, <1>0 DEF MatchesFit
  <2>4. m.xbt \in Nat /\ m.btc \in Nat /\ m.pre[1] \in Nat /\ m.pre[2] \in Nat
    BY <2>2 DEF Match
  <2>5. m.pre[1] - m.xbt \in Nat /\ m.pre[2] - m.btc \in Nat
    BY <2>3, <2>4
  <2> QED
    BY <2>5, <1>3 DEF Rest
<1> QED
  BY <1>2, <1>3

\* What of offer i there is before a step: all of it, if it is new.
RestBefore(i) == IF i \in Stored THEN Rest(i) ELSE offers'[i].posted

\* The books stay balanced when what one match gives back or takes is what its
\* offers gain or lose.
LEMMA BooksOfMatch ==
    ASSUME IInv, TypeOK', Step, NEW k \in MatchIds,
           \A l \in MatchIds \ {k} : matches'[l] = matches[l],
           budget'.faults = 0 /\ Written' =>
             \A i \in Stored' : Share(i, k)' + Rest(i)' <= Share(i, k) + RestBefore(i)
    PROVE  BooksBalance'
<1> SUFFICES ASSUME budget'.faults = 0, Written', NEW i \in Stored'
             PROVE  Owed(i)' + Rest(i)' <= offers'[i].posted
  BY DEF BooksBalance
<1>1. TypeOK /\ budget.faults = 0 /\ Written
  BY WrittenBefore DEF Step, IInv
<1>2. /\ Owed(i) \in Int /\ Owed(i)' \in Int
      /\ Owed(i)' = Owed(i) - Share(i, k) + Share(i, k)'
  BY <1>1, OwedChange
<1>3. Share(i, k) \in Nat /\ Share(i, k)' \in Nat
  <2>1. matches'[k] \in Match \cup {NoMatch}
    BY DEF TypeOK
  <2>2. Counts(k)' => matches'[k] \in Match
    BY <2>1 DEF Counts, NoMatch
  <2>3. Share(i, k)' \in Nat
    BY <2>2 DEF Share, Match
  <2> QED
    BY <1>1, <2>3, ShareNat
<1>4. Share(i, k)' + Rest(i)' <= Share(i, k) + RestBefore(i)
  OBVIOUS
<1>5. Rest(i)' \in Nat /\ offers'[i].posted \in Nat
  BY RestNatNext DEF TypeOK, Stored, NoOffer, Offer
<1>6. CASE i \in Stored
  <2>1. Owed(i) + Rest(i) <= offers[i].posted
    BY <1>1, <1>6 DEF IInv, BooksBalance
  <2>2. offers'[i].posted = offers[i].posted
    BY <1>6, StepGrows DEF OfferKept
  <2>3. Rest(i) \in Nat /\ RestBefore(i) = Rest(i)
    BY <1>6, RestNat DEF RestBefore
  <2> QED
    BY <1>2, <1>3, <1>4, <1>5, <2>1, <2>2, <2>3
<1>7. CASE i \notin Stored
  <2>1. Owed(i) = 0
    BY <1>1, <1>7, StepGrows, OwedNothing DEF OfferBegins
  <2>2. RestBefore(i) = offers'[i].posted
    BY <1>7 DEF RestBefore
  <2>3. Share(i, k) = 0
    <3>1. i \in Fresh
      BY <1>7, StepGrows DEF OfferBegins
    <3> QED
      BY <3>1 DEF Share, Counts, Fresh, Made
  <2> QED
    BY <1>2, <1>3, <1>4, <1>5, <2>1, <2>2, <2>3
<1> QED
  BY <1>6, <1>7

\* The same for a step that changes no match.
LEMMA BooksOfOffers ==
    ASSUME IInv, TypeOK', Step, matches' = matches,
           \A i \in Stored' : Rest(i)' <= RestBefore(i)
    PROVE  BooksBalance'
<1> SUFFICES ASSUME budget'.faults = 0, Written', NEW i \in Stored'
             PROVE  Owed(i)' + Rest(i)' <= offers'[i].posted
  BY DEF BooksBalance
<1>1. TypeOK /\ budget.faults = 0 /\ Written
  BY WrittenBefore DEF Step, IInv
<1>2. Owed(i) \in Int /\ Owed(i)' = Owed(i)
  BY <1>1, OwedSame
<1>4. Rest(i)' <= RestBefore(i)
  OBVIOUS
<1>5. Rest(i)' \in Nat /\ offers'[i].posted \in Nat
  BY RestNatNext DEF TypeOK, Stored, NoOffer, Offer
<1>6. CASE i \in Stored
  <2>1. Owed(i) + Rest(i) <= offers[i].posted
    BY <1>1, <1>6 DEF IInv, BooksBalance
  <2>2. offers'[i].posted = offers[i].posted
    BY <1>6, StepGrows DEF OfferKept
  <2>3. Rest(i) \in Nat /\ RestBefore(i) = Rest(i)
    BY <1>6, RestNat DEF RestBefore
  <2> QED
    BY <1>2, <1>4, <1>5, <2>1, <2>2, <2>3
<1>7. CASE i \notin Stored
  <2>1. Owed(i) = 0
    BY <1>1, <1>7, StepGrows, OwedNothing DEF OfferBegins
  <2>2. RestBefore(i) = offers'[i].posted
    BY <1>7 DEF RestBefore
  <2> QED
    BY <1>2, <1>4, <1>5, <2>1, <2>2
<1> QED
  BY <1>6, <1>7

-----------------------------------------------------------------------------
(* Steps that leave offers and matches alone, and offers leaving the book  *)

\* A step of a thread, the clock or the start of a pass.
LEMMA QuietStep ==
    ASSUME IInv, TypeOK', TowerSound',
           offers' = offers, matches' = matches, tags' = tags, budget'.faults = budget.faults
    PROVE  IInv'
<1>1. Stored' = Stored /\ Made' = Made
  BY DEF Stored, Made
<1>2. \A i \in OfferIds : OfferStays(i)
  BY DEF OfferStays, IInv, NamesLiveMatch, Live
<1>3. Step
  BY <1>1, <1>2 DEF Step
<1>4. TagsKept'
  BY <1>1 DEF IInv, TagsKept
<1>5. \A i \in Stored' : Rest(i)' <= RestBefore(i)
  <2> TAKE i \in Stored'
  <2>1. Rest(i)' = Rest(i) /\ RestBefore(i) = Rest(i)
    BY <1>1 DEF Rest, RestBefore
  <2> QED
    BY <2>1, <1>1, RestNat
<1> QED
  BY <1>3, <1>4, <1>5, BooksOfOffers, StepKeeps

\* A change of an offer's status changes nothing else of it.
LEMMA OfferRestatused ==
    ASSUME NEW o \in Offer, NEW to \in OfferStatus \ {"none"}
    PROVE  /\ [o EXCEPT !.status = to] \in Offer
           /\ [o EXCEPT !.status = to].status = to
           /\ [o EXCEPT !.status = to].match = o.match
           /\ OfferKept(o, [o EXCEPT !.status = to])
<1>1. [o EXCEPT !.status = to] \in Offer
  BY DEF Offer
<1> QED
  BY <1>1 DEF Offer, OfferKept

\* Some open offers are cancelled or expire.
LEMMA LeavingStep ==
    ASSUME IInv, TypeOK', TowerSound', NEW S \in SUBSET Stored, NEW to \in {"cancelled", "expired"},
           \A i \in S : offers[i].status = "open" /\ offers'[i] = [offers[i] EXCEPT !.status = to],
           \A i \in OfferIds \ S : offers'[i] = offers[i],
           matches' = matches, tags' = tags, budget'.faults = budget.faults
    PROVE  IInv'
<1>0. \A i \in Stored : offers[i] \in Offer
  BY DEF IInv, TypeOK, Stored, NoOffer
<1>1. \A i \in S : /\ offers'[i].status = to
                   /\ OfferKept(offers[i], offers'[i])
                   /\ offers'[i].match = offers[i].match
  <2> TAKE i \in S
  <2>1. offers[i] \in Offer /\ offers'[i] = [offers[i] EXCEPT !.status = to]
    BY <1>0
  <2> QED
    BY <2>1, OfferRestatused DEF OfferStatus
<1>2. \A i \in S : offers[i].match = None
  BY DEF IInv, NamesItsMatch
<1>3. \A i \in S : OfferGoesOn(i)
  BY <1>1, <1>2 DEF OfferGoesOn, Free
<1>4. \A i \in OfferIds \ S : OfferStays(i)
  BY DEF OfferStays, IInv, NamesLiveMatch, Live
<1>5. Stored' = Stored
  BY <1>1 DEF Stored
<1>6. Step
  BY <1>3, <1>4, <1>5 DEF Step
<1>7. TagsKept'
  <2> SUFFICES ASSUME NEW i \in Stored, offers'[i].tag # None PROVE tags[offers'[i].tag] = i
    BY <1>5 DEF TagsKept
  <2>1. offers'[i].tag = offers[i].tag
    BY <1>1 DEF OfferKept, Stored
  <2> QED
    BY <2>1 DEF IInv, TagsKept
<1>8. \A i \in Stored' : Rest(i)' <= RestBefore(i)
  <2> TAKE i \in Stored'
  <2>1. i \in Stored /\ Rest(i) \in Nat /\ RestBefore(i) = Rest(i)
    BY <1>5, RestNat DEF RestBefore
  <2>2. CASE i \in S
    <3>1. Rest(i)' = 0
      BY <2>2, <1>1, <1>2 DEF Rest
    <3> QED
      BY <3>1, <2>1
  <2>3. CASE i \notin S
    <3>1. Rest(i)' = Rest(i)
      BY <2>1, <2>3 DEF Rest, Stored
    <3> QED
      BY <3>1, <2>1
  <2> QED
    BY <2>2, <2>3
<1> QED
  BY <1>6, <1>7, <1>8, BooksOfOffers, StepKeeps

-----------------------------------------------------------------------------
(* A match goes on                                                         *)

\* One match moves on or comes back to life, and its offers stay.
LEMMA MatchStep ==
    ASSUME IInv, TypeOK', TowerSound', NEW k \in Made,
           \A l \in MatchIds \ {k} : matches'[l] = matches[l],
           MatchKept(matches[k], matches'[k]),
           Counts(k), Live(k)', ~matches'[k].missed,
           offers' = offers, tags' = tags, budget'.faults = budget.faults
    PROVE  IInv'
<1>1. Stored' = Stored /\ k \in MatchIds
  BY DEF Stored, Made
<1>2. \A i \in OfferIds : OfferStays(i)
  <2> SUFFICES ASSUME NEW i \in Stored, offers[i].match # None, budget.faults = 0
               PROVE  Live(offers[i].match)'
    BY DEF OfferStays
  <2>1. offers[i].match \in MatchIds /\ Live(offers[i].match)
    BY DEF IInv, NamesItsMatch, NamesLiveMatch, Made
  <2> QED
    BY <2>1 DEF Live
<1>3. MatchGoesOn(k)
  BY DEF MatchGoesOn
<1>4. Step
  BY <1>1, <1>2, <1>3 DEF Step
<1>5. TagsKept'
  BY <1>1 DEF IInv, TagsKept
<1>6. \A i \in Stored' : Share(i, k)' + Rest(i)' <= Share(i, k) + RestBefore(i)
  <2> TAKE i \in Stored'
  <2>1. Counts(k)'
    BY DEF Counts, Live
  <2>2. Share(i, k)' = Share(i, k)
    BY <2>1 DEF Share, MatchKept
  <2>3. \A l \in Made : MatchKept(matches[l], matches'[l])
    BY <1>4, StepGrows DEF IInv
  <2>4. Rest(i)' = Rest(i)
    <3>1. offers[i].match # None => MatchKept(matches[offers[i].match], matches'[offers[i].match])
      BY <1>1, <2>3 DEF IInv, NamesItsMatch
    <3> QED
      BY <3>1 DEF Rest, MatchKept
  <2>5. Share(i, k) \in Nat /\ Rest(i) \in Nat /\ RestBefore(i) = Rest(i)
    BY <1>1, ShareNat, RestNat DEF RestBefore, IInv
  <2> QED
    BY <2>2, <2>4, <2>5
<1>7. BooksBalance'
  BY <1>1, <1>4, <1>6, BooksOfMatch
<1> QED
  BY <1>4, <1>5, <1>7, StepKeeps

-----------------------------------------------------------------------------
(* An offer is posted                                                      *)

\* A new offer goes on the book whole, and claims its tag.
LEMMA PostStep ==
    ASSUME IInv, TypeOK', TowerSound', NEW i \in Fresh, NEW o \in Offer,
           o.status = "open", o.match = None, o.posted = o.amount,
           o.client # None => \A j \in Stored : ~(offers[j].token = o.token /\ offers[j].client = o.client),
           Unused(o.tag),
           offers' = [offers EXCEPT ![i] = o], tags' = Claimed(o.tag, i),
           matches' = matches, budget'.faults = budget.faults
    PROVE  IInv'
<1>0. i \in OfferIds /\ i \notin Stored /\ offers \in [OfferIds -> Offer \cup {NoOffer}]
      /\ tags \in [Tags -> OfferIds \cup {None}] /\ tags' \in [Tags -> OfferIds \cup {None}]
  BY DEF Fresh, IInv, TypeOK
<1>1. offers'[i] = o /\ \A j \in OfferIds \ {i} : offers'[j] = offers[j]
  BY <1>0
<1>2. Stored' = Stored \cup {i}
  BY <1>0, <1>1 DEF Stored
<1>3. OfferBegins(i)
  BY <1>1 DEF OfferBegins, Free
<1>4. \A j \in OfferIds \ {i} : OfferStays(j)
  BY <1>1 DEF OfferStays, IInv, NamesLiveMatch, Live
<1>5. Step
  BY <1>2, <1>3, <1>4 DEF Step
<1>6. TagsKept'
  <2> SUFFICES ASSUME NEW j \in Stored', offers'[j].tag # None PROVE tags'[offers'[j].tag] = j
    BY DEF TagsKept
  <2>1. offers'[j].tag \in Tags
    BY DEF TypeOK, Stored, NoOffer, Offer
  <2>2. CASE j = i
    BY <2>1, <2>2, <1>0, <1>1 DEF Claimed
  <2>3. CASE j \in Stored
    <3>1. offers'[j] = offers[j] /\ tags[offers[j].tag] = j
      BY <2>3, <1>0, <1>1 DEF IInv, TagsKept, Stored
    <3>2. offers[j].tag # o.tag
      BY <3>1, <2>1, <2>3, <1>0, OfferBookConstants DEF Unused, Stored
    <3> QED
      BY <2>1, <3>1, <3>2, <1>0 DEF Claimed
  <2> QED
    BY <2>2, <2>3, <1>2
<1>7. \A j \in Stored' : Rest(j)' <= RestBefore(j)
  <2> TAKE j \in Stored'
  <2>1. CASE j = i
    <3>1. Rest(j)' = o.amount /\ RestBefore(j) = o.posted
      BY <2>1, <1>0, <1>1 DEF Rest, RestBefore
    <3> QED
      BY <3>1 DEF Offer
  <2>2. CASE j \in Stored
    <3>1. Rest(j)' = Rest(j) /\ RestBefore(j) = Rest(j)
      BY <2>2, <1>0, <1>1 DEF Rest, RestBefore, Stored
    <3> QED
      BY <3>1, <2>2, RestNat
  <2> QED
    BY <2>1, <2>2, <1>2
<1> QED
  BY <1>5, <1>6, <1>7, BooksOfOffers, StepKeeps

-----------------------------------------------------------------------------
(* A match is cancelled                                                    *)

\* What release makes of offer o, and n is the offer after it: nothing, when it
\* is off the book for another reason; or it lets go of match k; or, still on
\* the book, it gets back what the match took or leaves.
LetsGo(o, n, k, pre, consumed, how) ==
    \/ n = o /\ o.match # k /\ o.status # "open"
    \/ /\ o.match = k /\ o.status # "open" /\ n.match = None
       /\ \/ how = "reopen" /\ n.status = "open" /\ n.amount = pre
          \/ how = "cancel" /\ n.status = "cancelled"
    \/ /\ o.match = None /\ o.status = "open" /\ n.match = None
       /\ \/ how = "reopen" /\ n.status = "open" /\ n.amount = o.amount + consumed
          \/ how = "cancel" /\ n.status = "cancelled"

\* An offer with another amount, status and match.
Changed(o, amount, to, match) == [o EXCEPT !.amount = amount, !.status = to, !.match = match]

\* Such a change changes nothing else of an offer.
LEMMA OfferChanged ==
    ASSUME NEW o \in Offer, NEW amount \in Nat, NEW to \in OfferStatus, to # "none",
           NEW match \in MatchIds \cup {None}
    PROVE  /\ Changed(o, amount, to, match) \in Offer
           /\ OfferKept(o, Changed(o, amount, to, match))
           /\ Changed(o, amount, to, match).amount = amount
           /\ Changed(o, amount, to, match).status = to
           /\ Changed(o, amount, to, match).match = match
<1> DEFINE n == [o EXCEPT !.amount = amount, !.status = to, !.match = match]
<1>1. n \in Offer
  BY DEF Offer
<1>2. n.amount = amount /\ n.status = to /\ n.match = match
  BY DEF Offer
<1>3. OfferKept(o, n)
  BY DEF Offer, OfferKept
<1> QED
  BY <1>1, <1>2, <1>3 DEF Changed

\* release, for a stored offer.
LEMMA ReleasedIs ==
    ASSUME IInv, NEW i \in Stored, NEW k \in MatchIds, NEW pre \in Nat, NEW consumed \in Nat,
           NEW how \in {"reopen", "cancel"}
    PROVE  /\ Released(i, k, pre, consumed, how) \in Offer
           /\ OfferKept(offers[i], Released(i, k, pre, consumed, how))
           /\ LetsGo(offers[i], Released(i, k, pre, consumed, how), k, pre, consumed, how)
<1> DEFINE o == offers[i]
           n == Released(i, k, pre, consumed, how)
           held == o.status # "none" /\ o.match = k
<1>1. o \in Offer /\ o.status # "none"
  BY DEF IInv, TypeOK, Stored, NoOffer
<1>2. /\ o.amount \in Nat /\ o.amount + consumed \in Nat /\ None \in MatchIds \cup {None}
      /\ "open" \in OfferStatus /\ "cancelled" \in OfferStatus
  BY <1>1 DEF Offer, OfferStatus
<1>3. /\ o.status \in {"matched", "filled"} <=> o.match # None
      /\ k # None
  BY OfferBookConstants DEF IInv, NamesItsMatch
<1>4. OfferKept(o, o)
  BY <1>1 DEF OfferKept
<1>5. CASE held /\ how = "reopen"
  <2> DEFINE z == Changed(o, pre, "open", None)
  <2>1. n = [o EXCEPT !.match = None, !.amount = pre, !.status = "open"]
    BY <1>5 DEF Released
  <2>2. n = z
    BY <1>1, <2>1 DEF Offer, Changed
  <2>3. z \in Offer /\ OfferKept(o, z) /\ z.amount = pre /\ z.status = "open" /\ z.match = None
    <3>1. z \in Offer /\ OfferKept(o, z)
      BY <1>1, <1>2, OfferChanged
    <3>2. z.amount = pre
      BY <1>1, <1>2, OfferChanged
    <3>3. z.status = "open" /\ z.match = None
      BY <1>1, <1>2, OfferChanged
    <3> QED
      BY <3>1, <3>2, <3>3
  <2> HIDE DEF n, z
  <2>4. n \in Offer /\ OfferKept(o, n) /\ n.amount = pre /\ n.status = "open" /\ n.match = None
    BY <2>2, <2>3
  <2>5. LetsGo(o, n, k, pre, consumed, how)
    BY <2>4, <1>3, <1>5 DEF LetsGo
  <2> QED
    BY <2>4, <2>5 DEF n
<1>6. CASE held /\ how = "cancel"
  <2> DEFINE z == Changed(o, o.amount, "cancelled", None)
  <2>1. n = [o EXCEPT !.match = None, !.status = "cancelled"]
    BY <1>6 DEF Released
  <2>2. n = z
    BY <1>1, <2>1 DEF Offer, Changed
  <2>3. z \in Offer /\ OfferKept(o, z) /\ z.status = "cancelled" /\ z.match = None
    BY <1>1, <1>2, OfferChanged
  <2> HIDE DEF n, z
  <2>4. n \in Offer /\ OfferKept(o, n) /\ n.status = "cancelled" /\ n.match = None
    BY <2>2, <2>3
  <2>5. LetsGo(o, n, k, pre, consumed, how)
    BY <2>4, <1>3, <1>6 DEF LetsGo
  <2> QED
    BY <2>4, <2>5 DEF n
<1>7. CASE ~held /\ o.status = "open" /\ how = "reopen"
  <2> DEFINE z == Changed(o, o.amount + consumed, "open", None)
  <2>1. n = [o EXCEPT !.amount = o.amount + consumed]
    BY <1>7 DEF Released
  <2>0. o.match = None /\ o.status = "open"
    BY <1>3, <1>7
  <2>2. n = z
    BY <1>1, <2>0, <2>1 DEF Offer, Changed
  <2>3. z \in Offer /\ OfferKept(o, z) /\ z.amount = o.amount + consumed /\ z.status = "open" /\ z.match = None
    BY <1>1, <1>2, OfferChanged
  <2> HIDE DEF n, z
  <2>4. n \in Offer /\ OfferKept(o, n) /\ n.amount = o.amount + consumed /\ n.status = "open" /\ n.match = None
    BY <2>2, <2>3
  <2>5. LetsGo(o, n, k, pre, consumed, how)
    BY <2>0, <2>4, <1>3, <1>7 DEF LetsGo
  <2> QED
    BY <2>4, <2>5 DEF n
<1>8. CASE ~held /\ o.status = "open" /\ how = "cancel"
  <2> DEFINE z == Changed(o, o.amount, "cancelled", None)
  <2>1. n = [o EXCEPT !.status = "cancelled"]
    BY <1>8 DEF Released
  <2>0. o.match = None /\ o.status = "open"
    BY <1>3, <1>8
  <2>2. n = z
    BY <1>1, <2>0, <2>1 DEF Offer, Changed
  <2>3. z \in Offer /\ OfferKept(o, z) /\ z.status = "cancelled" /\ z.match = None
    BY <1>1, <1>2, OfferChanged
  <2> HIDE DEF n, z
  <2>4. n \in Offer /\ OfferKept(o, n) /\ n.status = "cancelled" /\ n.match = None
    BY <2>2, <2>3
  <2>5. LetsGo(o, n, k, pre, consumed, how)
    BY <2>0, <2>4, <1>3, <1>8 DEF LetsGo
  <2> QED
    BY <2>4, <2>5 DEF n
<1>9. CASE ~held /\ o.status # "open"
  <2>1. n = o
    BY <1>9 DEF Released
  <2>2. LetsGo(o, n, k, pre, consumed, how)
    BY <2>1, <1>1, <1>9 DEF LetsGo
  <2> QED
    BY <2>1, <2>2, <1>1, <1>4
<1> QED
  BY <1>5, <1>6, <1>7, <1>8, <1>9

\* A handler that ends with no more faults than there were did all its writes.
LEMMA WritesOf ==
    ASSUME IInv, NEW n \in Nat \ {0}, NEW faults \in FaultCounts, NEW w \in WritesDone(n, faults),
           Faulting(faults)
    PROVE  /\ w \in 0..n
           /\ budget' \in [calls : 0..MaxCalls, faults : 0..MaxFaults]
           /\ budget'.faults = 0 => budget.faults = 0 /\ w = n
<1>1. budget \in [calls : 0..MaxCalls, faults : 0..MaxFaults]
  BY DEF IInv, TypeOK
<1>2. /\ faults \in Nat /\ faults >= budget.faults /\ faults <= MaxFaults
      /\ faults = budget.faults \/ faults # 0
      /\ budget.faults \in Nat /\ MaxFaults \in Nat
      /\ w \in 0..n /\ (faults = budget.faults => w = n)
  BY <1>1, OfferBookConstants DEF FaultCounts, WritesDone
<1>3. budget' = [budget EXCEPT !.faults = faults]
  BY DEF Faulting
<1>4. budget'.faults = faults /\ budget' \in [calls : 0..MaxCalls, faults : 0..MaxFaults]
  BY <1>1, <1>2, <1>3
<1> QED
  BY <1>2, <1>4

\* What a cancellation does, write by write.
LEMMA CancelEffects ==
    ASSUME IInv, NEW k \in Made, NEW first \in {"reopen", "cancel"}, NEW second \in {"reopen", "cancel"},
           NEW missed \in BOOLEAN, Cancel(k, first, second, missed)
    PROVE  \E w \in 0..3 :
             /\ budget' \in [calls : 0..MaxCalls, faults : 0..MaxFaults]
             /\ budget'.faults = 0 => budget.faults = 0 /\ w = 3
             /\ matches' \in [MatchIds -> Match \cup {NoMatch}]
             /\ offers' \in [OfferIds -> Offer \cup {NoOffer}]
             /\ \A l \in MatchIds \ {k} : matches'[l] = matches[l]
             /\ w = 0 => matches'[k] = matches[k]
             /\ w # 0 => /\ MatchKept(matches[k], matches'[k])
                         /\ matches'[k].status = "cancelled" /\ matches'[k].missed = missed
             /\ \A i \in OfferIds \ {matches[k].init, matches[k].part} : offers'[i] = offers[i]
             /\ \/ offers'[matches[k].init] = offers[matches[k].init] /\ (w < 2 \/ matches[k].init \notin Stored)
                \/ /\ w >= 2 /\ matches[k].init \in Stored
                   /\ OfferKept(offers[matches[k].init], offers'[matches[k].init])
                   /\ LetsGo(offers[matches[k].init], offers'[matches[k].init], k,
                             matches[k].pre[1], matches[k].xbt, first)
             /\ \/ offers'[matches[k].part] = offers[matches[k].part] /\ (w < 3 \/ matches[k].part \notin Stored)
                \/ /\ w = 3 /\ matches[k].part \in Stored
                   /\ OfferKept(offers[matches[k].part], offers'[matches[k].part])
                   /\ LetsGo(offers[matches[k].part], offers'[matches[k].part], k,
                             matches[k].pre[2], matches[k].btc, second)
<1> DEFINE mk == matches[k]
           s2 == Released(mk.init, k, mk.pre[1], mk.xbt, first)
           p2 == Released(mk.part, k, mk.pre[2], mk.btc, second)
           Cancelled == [matches EXCEPT ![k].status = "cancelled", ![k].missed = missed]
<1>0. PICK faults \in FaultCounts :
        /\ Faulting(faults)
        /\ \E w \in WritesDone(3, faults) :
             /\ matches' = IF w = 0 THEN matches ELSE Cancelled
             /\ offers' = CASE w < 2 -> offers
                            [] w = 2 -> [offers EXCEPT ![mk.init] = s2]
                            [] w = 3 -> [offers EXCEPT ![mk.init] = s2, ![mk.part] = p2]
  BY DEF Cancel
<1>1. PICK w \in WritesDone(3, faults) :
        /\ matches' = IF w = 0 THEN matches ELSE Cancelled
        /\ offers' = CASE w < 2 -> offers
                       [] w = 2 -> [offers EXCEPT ![mk.init] = s2]
                       [] w = 3 -> [offers EXCEPT ![mk.init] = s2, ![mk.part] = p2]
  BY <1>0
<1>2. /\ w \in 0..3
      /\ budget' \in [calls : 0..MaxCalls, faults : 0..MaxFaults]
      /\ budget'.faults = 0 => budget.faults = 0 /\ w = 3
  BY <1>0, <1>1, WritesOf
<1>3. /\ k \in MatchIds /\ mk \in Match /\ matches \in [MatchIds -> Match \cup {NoMatch}]
      /\ offers \in [OfferIds -> Offer \cup {NoOffer}]
      /\ mk.init # mk.part
  BY DEF IInv, TypeOK, Made, NoMatch, MatchesFit
<1>4. /\ mk.init \in OfferIds /\ mk.part \in OfferIds /\ mk.xbt \in Nat /\ mk.btc \in Nat
      /\ mk.pre[1] \in Nat /\ mk.pre[2] \in Nat
  BY <1>3 DEF Match
<1>5. /\ mk.init \in Stored => /\ s2 \in Offer /\ OfferKept(offers[mk.init], s2)
                               /\ LetsGo(offers[mk.init], s2, k, mk.pre[1], mk.xbt, first)
      /\ mk.part \in Stored => /\ p2 \in Offer /\ OfferKept(offers[mk.part], p2)
                               /\ LetsGo(offers[mk.part], p2, k, mk.pre[2], mk.btc, second)
  BY <1>3, <1>4, ReleasedIs
<1>6. /\ mk.init \notin Stored => s2 = offers[mk.init]
      /\ mk.part \notin Stored => p2 = offers[mk.part]
  BY <1>4 DEF Released, Stored
<1>7. s2 \in Offer \cup {NoOffer} /\ p2 \in Offer \cup {NoOffer}
  BY <1>3, <1>4, <1>5, <1>6
<1>8. /\ Cancelled \in [MatchIds -> Match \cup {NoMatch}]
      /\ \A l \in MatchIds \ {k} : Cancelled[l] = matches[l]
      /\ Cancelled[k] = [mk EXCEPT !.status = "cancelled", !.missed = missed]
  <2> DEFINE c == [mk EXCEPT !.status = "cancelled", !.missed = missed]
  <2>1. c \in Match
    BY <1>3 DEF Match, MatchStatus
  <2>2. Cancelled = [matches EXCEPT ![k] = c]
    BY <1>3
  <2> HIDE DEF c, Cancelled
  <2>3. Cancelled \in [MatchIds -> Match \cup {NoMatch}] /\ Cancelled[k] = c
    BY <1>3, <2>1, <2>2
  <2>4. \A l \in MatchIds \ {k} : Cancelled[l] = matches[l]
    BY <1>3, <2>2
  <2> QED
    BY <2>3, <2>4 DEF c
<1>9. LET c == [mk EXCEPT !.status = "cancelled", !.missed = missed]
      IN  MatchKept(mk, c) /\ c.status = "cancelled" /\ c.missed = missed
  BY <1>3 DEF Match, MatchKept
<1> HIDE DEF s2, p2, Cancelled
<1>10. /\ matches' \in [MatchIds -> Match \cup {NoMatch}]
       /\ \A l \in MatchIds \ {k} : matches'[l] = matches[l]
       /\ w = 0 => matches'[k] = matches[k]
       /\ w # 0 => /\ MatchKept(matches[k], matches'[k])
                   /\ matches'[k].status = "cancelled" /\ matches'[k].missed = missed
  BY <1>1, <1>3, <1>8, <1>9
<1>11. /\ w < 2 => offers' = offers
       /\ w = 2 => offers' = [offers EXCEPT ![mk.init] = s2]
       /\ w = 3 => offers' = [offers EXCEPT ![mk.init] = s2, ![mk.part] = p2]
       /\ w < 2 \/ w = 2 \/ w = 3
  BY <1>1, <1>2
<1>12. /\ offers' \in [OfferIds -> Offer \cup {NoOffer}]
       /\ \A i \in OfferIds \ {mk.init, mk.part} : offers'[i] = offers[i]
       /\ offers'[mk.init] = IF w < 2 THEN offers[mk.init] ELSE s2
       /\ offers'[mk.part] = IF w < 3 THEN offers[mk.part] ELSE p2
  <2>1. CASE w < 2
    BY <2>1, <1>2, <1>3, <1>11
  <2>2. CASE w = 2
    BY <2>2, <1>3, <1>4, <1>7, <1>11
  <2>3. CASE w = 3
    BY <2>3, <1>3, <1>4, <1>7, <1>11
  <2> QED
    BY <2>1, <2>2, <2>3, <1>11
<1>13. \/ offers'[mk.init] = offers[mk.init] /\ (w < 2 \/ mk.init \notin Stored)
       \/ /\ w >= 2 /\ mk.init \in Stored
          /\ OfferKept(offers[mk.init], offers'[mk.init])
          /\ LetsGo(offers[mk.init], offers'[mk.init], k, mk.pre[1], mk.xbt, first)
  <2>1. CASE w < 2
    BY <2>1, <1>12
  <2>2. CASE ~(w < 2)
    BY <2>2, <1>2, <1>12, <1>5, <1>6
  <2> QED
    BY <2>1, <2>2
<1>14. \/ offers'[mk.part] = offers[mk.part] /\ (w < 3 \/ mk.part \notin Stored)
       \/ /\ w = 3 /\ mk.part \in Stored
          /\ OfferKept(offers[mk.part], offers'[mk.part])
          /\ LetsGo(offers[mk.part], offers'[mk.part], k, mk.pre[2], mk.btc, second)
  <2>1. CASE w < 3
    BY <2>1, <1>12
  <2>2. CASE w = 3
    BY <2>2, <1>12, <1>5, <1>6
  <2> QED
    BY <2>1, <2>2, <1>2
<1> HIDE DEF mk
<1> QED
  BY <1>2, <1>10, <1>12, <1>13, <1>14 DEF mk

\* What an offer has back after release: at most what the match took, and that
\* only if it is reopened.
LEMMA LetsGoRest ==
    ASSUME IInv, NEW i \in Stored, NEW k \in Made,
           NEW pre \in Nat, NEW consumed \in Nat, NEW how \in {"reopen", "cancel"},
           \/ matches[k].init = i /\ pre = matches[k].pre[1] /\ consumed = matches[k].xbt
           \/ matches[k].init # i /\ pre = matches[k].pre[2] /\ consumed = matches[k].btc,
           \A l \in Made : MatchKept(matches[l], matches'[l]),
           LetsGo(offers[i], offers'[i], k, pre, consumed, how)
    PROVE  /\ how = "reopen" => Rest(i)' <= Rest(i) + consumed
           /\ how = "cancel" => Rest(i)' <= Rest(i)
<1>0. Rest(i) \in Nat /\ offers[i] \in Offer
  BY RestNat DEF IInv, TypeOK, Stored, NoOffer
<1>1. CASE offers'[i] = offers[i]
  <2>1. offers[i].match # None => offers[i].match \in Made
    BY DEF IInv, NamesItsMatch
  <2>2. Rest(i)' = Rest(i)
    BY <1>1, <2>1 DEF Rest, MatchKept
  <2> QED
    BY <1>0, <2>2
<1>2. CASE offers[i].match = k /\ offers[i].status # "open"
  <2>1. CASE how = "reopen" /\ offers'[i].status = "open" /\ offers'[i].amount = pre
    <3>1. Rest(i)' = pre
      BY <2>1 DEF Rest
    <3>2. Rest(i) = pre - consumed
      BY <1>2, OfferBookConstants DEF Rest, Made
    <3> QED
      BY <3>1, <3>2, <2>1
  <2>2. CASE how = "cancel" /\ offers'[i].status = "cancelled" /\ offers'[i].match = None
    <3>1. Rest(i)' = 0
      BY <2>2 DEF Rest
    <3> QED
      BY <3>1, <1>0, <2>2
  <2>3. CASE offers'[i] = offers[i]
    BY <2>3, <1>1
  <2> QED
    BY <1>2, <2>1, <2>2, <2>3, OfferBookConstants DEF LetsGo, Made
<1>3. CASE offers[i].status = "open" /\ offers[i].match = None
  <2>1. CASE how = "reopen" /\ offers'[i].status = "open" /\ offers'[i].amount = offers[i].amount + consumed
    <3>1. Rest(i)' = offers[i].amount + consumed /\ Rest(i) = offers[i].amount
      BY <1>3, <2>1 DEF Rest
    <3> QED
      BY <3>1, <1>0, <2>1
  <2>2. CASE how = "cancel" /\ offers'[i].status = "cancelled" /\ offers'[i].match = None
    <3>1. Rest(i)' = 0
      BY <2>2 DEF Rest
    <3> QED
      BY <3>1, <1>0, <2>2
  <2> QED
    BY <1>3, <2>1, <2>2, OfferBookConstants DEF LetsGo, Made
<1> QED
  BY <1>1, <1>2, <1>3 DEF LetsGo

\* A match is cancelled: nobody made the participant wait, or both offers are
\* given up.
LEMMA CancelStep ==
    ASSUME IInv, NEW k \in Made, matches[k].status \in {"proposed", "accepted", "funded"},
           NEW first \in {"reopen", "cancel"}, NEW second \in {"reopen", "cancel"},
           NEW missed \in BOOLEAN, missed => first = "cancel" /\ second = "cancel",
           Cancel(k, first, second, missed), tags' = tags,
           th' \in [Threads -> Worker], tower' \in Tower, now' \in Times, TowerSound'
    PROVE  IInv'
<1> DEFINE mk == matches[k]
<1>1. PICK w \in 0..3 :
             /\ budget' \in [calls : 0..MaxCalls, faults : 0..MaxFaults]
             /\ budget'.faults = 0 => budget.faults = 0 /\ w = 3
             /\ matches' \in [MatchIds -> Match \cup {NoMatch}]
             /\ offers' \in [OfferIds -> Offer \cup {NoOffer}]
             /\ \A l \in MatchIds \ {k} : matches'[l] = matches[l]
             /\ w = 0 => matches'[k] = matches[k]
             /\ w # 0 => /\ MatchKept(matches[k], matches'[k])
                         /\ matches'[k].status = "cancelled" /\ matches'[k].missed = missed
             /\ \A i \in OfferIds \ {matches[k].init, matches[k].part} : offers'[i] = offers[i]
             /\ \/ offers'[matches[k].init] = offers[matches[k].init] /\ (w < 2 \/ matches[k].init \notin Stored)
                \/ /\ w >= 2 /\ matches[k].init \in Stored
                   /\ OfferKept(offers[matches[k].init], offers'[matches[k].init])
                   /\ LetsGo(offers[matches[k].init], offers'[matches[k].init], k,
                             matches[k].pre[1], matches[k].xbt, first)
             /\ \/ offers'[matches[k].part] = offers[matches[k].part] /\ (w < 3 \/ matches[k].part \notin Stored)
                \/ /\ w = 3 /\ matches[k].part \in Stored
                   /\ OfferKept(offers[matches[k].part], offers'[matches[k].part])
                   /\ LetsGo(offers[matches[k].part], offers'[matches[k].part], k,
                             matches[k].pre[2], matches[k].btc, second)
  BY CancelEffects
<1>2. TypeOK'
  BY <1>1 DEF IInv, TypeOK
<1>3. /\ k \in MatchIds /\ mk \in Match /\ mk.init # mk.part
      /\ mk.init \in OfferIds /\ mk.part \in OfferIds /\ mk.xbt \in Nat /\ mk.btc \in Nat
      /\ mk.pre[1] \in Nat /\ mk.pre[2] \in Nat
  BY DEF IInv, TypeOK, Made, NoMatch, MatchesFit, Match
<1>4. matches'[k] = matches[k] \/ MatchGoesOn(k)
  BY <1>1 DEF MatchGoesOn
<1>5. \A i \in OfferIds : offers'[i] = offers[i] \/ (i \in Stored /\ OfferKept(offers[i], offers'[i]))
  <2> TAKE i \in OfferIds
  <2>1. CASE i = mk.init
    BY <2>1, <1>1
  <2>2. CASE i = mk.part
    BY <2>2, <1>1
  <2>3. CASE i \notin {mk.init, mk.part}
    BY <2>3, <1>1
  <2> QED
    BY <2>1, <2>2, <2>3
<1>6. Stored' = Stored
  BY <1>5 DEF Stored, OfferKept
\* An offer that stays off the book is not there for this match.
<1>7. \A i \in OfferIds : OfferStays(i) \/ OfferGoesOn(i)
  <2> TAKE i \in OfferIds
  <2>1. CASE i \in Stored /\ offers'[i] = offers[i] /\ (budget'.faults = 0 => offers[i].match # k)
    <3> SUFFICES ASSUME offers[i].match # None, budget'.faults = 0
                 PROVE  Live(offers[i].match)'
      BY <2>1 DEF OfferStays
    <3>1. offers[i].match \in MatchIds /\ Live(offers[i].match) /\ offers[i].match # k
      BY <2>1, <1>1 DEF IInv, NamesItsMatch, NamesLiveMatch, Made
    <3>2. matches'[offers[i].match] = matches[offers[i].match]
      BY <3>1, <1>1
    <3> QED
      BY <3>1, <3>2, <2>1 DEF Live
  <2>2. CASE i \notin Stored
    BY <2>2, <1>5 DEF OfferStays
  <2>3. CASE i \in Stored /\ i = mk.init
    <3>1. CASE w < 2
      BY <3>1, <2>1, <2>3, <1>1
    <3>2. CASE ~(w < 2)
      <4>1. /\ OfferKept(offers[i], offers'[i])
            /\ LetsGo(offers[i], offers'[i], k, mk.pre[1], mk.xbt, first)
        BY <3>2, <2>3, <1>1
      <4>2. CASE offers'[i] = offers[i] /\ offers[i].match # k
        BY <4>2, <2>3, <2>1
      <4>3. CASE Free(i)'
        BY <4>1, <4>3, <2>3 DEF OfferGoesOn
      <4> QED
        BY <4>1, <4>2, <4>3 DEF LetsGo, Free
    <3> QED
      BY <3>1, <3>2
  <2>4. CASE i \in Stored /\ i = mk.part
    <3>1. CASE w < 3
      BY <3>1, <2>1, <2>4, <1>1
    <3>2. CASE w = 3
      <4>1. /\ OfferKept(offers[i], offers'[i])
            /\ LetsGo(offers[i], offers'[i], k, mk.pre[2], mk.btc, second)
        BY <3>2, <2>4, <1>1
      <4>2. CASE offers'[i] = offers[i] /\ offers[i].match # k
        BY <4>2, <2>4, <2>1
      <4>3. CASE Free(i)'
        BY <4>1, <4>3, <2>4 DEF OfferGoesOn
      <4> QED
        BY <4>1, <4>2, <4>3 DEF LetsGo, Free
    <3> QED
      BY <3>1, <3>2
  <2>5. CASE i \in Stored /\ i \notin {mk.init, mk.part}
    <3>1. offers'[i] = offers[i]
      BY <2>5, <1>1
    <3>2. offers[i].match # k
      BY <2>5, <1>3, OfferBookConstants DEF IInv, NamesItsMatch
    <3> QED
      BY <3>1, <3>2, <2>1, <2>5
  <2> QED
    BY <2>2, <2>3, <2>4, <2>5
<1>8. Step
  BY <1>1, <1>4, <1>6, <1>7 DEF Step
<1>9. TagsKept'
  <2> SUFFICES ASSUME NEW i \in Stored, offers'[i].tag # None PROVE tags[offers'[i].tag] = i
    BY <1>6 DEF TagsKept
  <2>1. offers'[i].tag = offers[i].tag
    BY <1>5 DEF OfferKept, Stored
  <2> QED
    BY <2>1 DEF IInv, TagsKept
<1>10. ASSUME budget'.faults = 0, Written', NEW i \in Stored'
       PROVE  Share(i, k)' + Rest(i)' <= Share(i, k) + RestBefore(i)
  <2>1. w = 3 /\ i \in Stored /\ i \in OfferIds
    BY <1>1, <1>6, <1>10 DEF Stored
  <2>2. \A l \in Made : MatchKept(matches[l], matches'[l])
    BY <1>2, <1>8, StepGrows
  <2>3. RestBefore(i) = Rest(i) /\ Rest(i) \in Nat /\ Rest(i)' \in Nat
    BY <2>1, <1>2, <1>8, <1>10, RestNat, RestNatNext DEF RestBefore
  <2>4. /\ MatchKept(matches[k], matches'[k])
        /\ matches'[k].status = "cancelled" /\ matches'[k].missed = missed
    BY <2>1, <1>1
  <2>5. Counts(k) /\ Counts(k)' = missed
    BY <2>4 DEF Counts, Made
  <2>6. CASE i = mk.init
    <3>1. LetsGo(offers[i], offers'[i], k, mk.pre[1], mk.xbt, first)
      BY <2>1, <2>6, <1>1
    <3>2. /\ first = "reopen" => Rest(i)' <= Rest(i) + mk.xbt
          /\ first = "cancel" => Rest(i)' <= Rest(i)
      BY <3>1, <2>1, <2>2, <2>6, <1>3, LetsGoRest
    <3>3. Share(i, k) = mk.xbt /\ Share(i, k)' = IF missed THEN mk.xbt ELSE 0
      BY <2>4, <2>5, <2>6, <1>3 DEF Share, MatchKept
    <3> QED
      BY <3>2, <3>3, <2>3, <1>3
  <2>7. CASE i = mk.part
    <3>1. LetsGo(offers[i], offers'[i], k, mk.pre[2], mk.btc, second)
      BY <2>1, <2>7, <1>1
    <3>2. /\ second = "reopen" => Rest(i)' <= Rest(i) + mk.btc
          /\ second = "cancel" => Rest(i)' <= Rest(i)
      BY <3>1, <2>1, <2>2, <2>7, <1>3, LetsGoRest
    <3>3. Share(i, k) = mk.btc /\ Share(i, k)' = IF missed THEN mk.btc ELSE 0
      BY <2>4, <2>5, <2>7, <1>3 DEF Share, MatchKept
    <3> QED
      BY <3>2, <3>3, <2>3, <1>3
  <2>8. CASE i \notin {mk.init, mk.part}
    <3>1. Share(i, k) = 0 /\ Share(i, k)' = 0
      BY <2>4, <2>8 DEF Share, MatchKept
    <3>2. offers'[i] = offers[i]
      BY <2>1, <2>8, <1>1
    <3>3. offers[i].match # None => offers[i].match \in Made
      BY <2>1 DEF IInv, NamesItsMatch
    <3>4. Rest(i)' = Rest(i)
      BY <3>2, <3>3, <2>2 DEF Rest, MatchKept
    <3> QED
      BY <3>1, <3>4, <2>3
  <2> QED
    BY <2>6, <2>7, <2>8
<1>11. BooksBalance'
  BY <1>1, <1>2, <1>3, <1>8, <1>10, BooksOfMatch
<1> QED
  BY <1>2, <1>8, <1>9, <1>11, StepKeeps

-----------------------------------------------------------------------------
(* Amounts                                                                 *)

\* Division rounds down.
LEMMA DivisionBounds ==
    ASSUME NEW n \in Nat, NEW d \in Nat \ {0}
    PROVE  n \div d \in Nat /\ (n \div d) * d <= n
OBVIOUS

\* Rounding down keeps order, and a multiple of the divisor bounds the quotient.
LEMMA DivisionOrder ==
    ASSUME NEW m \in Nat, NEW n \in Nat, NEW d \in Nat \ {0}
    PROVE  (m <= n => m \div d <= n \div d) /\ (m <= n * d => m \div d <= n)
OBVIOUS

\* A product of amounts is an amount, and grows with its factors.
LEMMA ProductOrder ==
    ASSUME NEW x \in Nat, NEW y \in Nat, NEW z \in Nat
    PROVE  x * z \in Nat /\ (x <= y => x * z <= y * z /\ z * x <= z * y)
OBVIOUS

\* What XBT an amount of BTC buys costs no more than that amount.
LEMMA RoundTrip ==
    ASSUME NEW b \in Nat, NEW price \in Nat \ {0}, NEW x \in Nat, x <= xbt_for_btc(b, price)
    PROVE  btc_for_xbt(x, price) \in Nat /\ btc_for_xbt(x, price) <= b
<1>0. Unit \in Nat \ {0}
  BY OfferBookConstants
<1>1. b * Unit \in Nat
  BY <1>0, ProductOrder
<1>2. (b * Unit) \div price \in Nat /\ ((b * Unit) \div price) * price <= b * Unit
  BY <1>1, DivisionBounds
<1>3. x * price <= ((b * Unit) \div price) * price /\ x * price \in Nat
  BY <1>2, ProductOrder DEF xbt_for_btc
<1>4. x * price <= b * Unit
  <2> DEFINE q == (b * Unit) \div price
  <2>1. q * price \in Nat
    BY <1>2, ProductOrder
  <2> QED
    BY <1>1, <1>2, <1>3, <2>1
<1>5. (x * price) \div Unit <= b
  BY <1>0, <1>3, <1>4, DivisionOrder
<1>6. (x * price) \div Unit \in Nat
  BY <1>0, <1>3, DivisionBounds
<1> QED
  BY <1>5, <1>6 DEF btc_for_xbt

\* A better price for the same XBT is no less BTC.
LEMMA PriceOrder ==
    ASSUME NEW x \in Nat, NEW low \in Nat, NEW high \in Nat, low <= high
    PROVE  btc_for_xbt(x, low) <= btc_for_xbt(x, high)
<1>1. x * low \in Nat /\ x * high \in Nat /\ x * low <= x * high
  BY ProductOrder
<1> QED
  BY <1>1, OfferBookConstants, DivisionOrder DEF btc_for_xbt

\* The least of three amounts.
LEMMA LeastOfThree ==
    ASSUME NEW a \in Nat, NEW b \in Nat, NEW c \in Nat
    PROVE  LET m == Min({a, b, c}) IN m \in Nat /\ m <= a /\ m <= b /\ m <= c
<1> DEFINE S == {a, b, c}
<1>1. \E x \in S : \A y \in S : x <= y
  <2>1. S \in SUBSET Nat /\ S # {}
    OBVIOUS
  <2> QED
    BY <2>1, LeastNatural
<1>2. Min(S) \in S /\ \A y \in S : Min(S) <= y
  BY <1>1 DEF Min
<1> QED
  BY <1>2

\* A fill takes no more than either side has, and no more than the limit.
LEMMA FillFits ==
    ASSUME NEW s \in Offer, NEW p \in Offer, NEW price \in Nat \ {0}
    PROVE  /\ Fill(s, p, price).xbt \in Nat /\ Fill(s, p, price).btc \in Nat
           /\ Fill(s, p, price).xbt <= s.amount
           /\ Fill(s, p, price).btc <= p.amount
           /\ Fill(s, p, price).btc <= Cap
           /\ Fill(s, p, price).btc = btc_for_xbt(Fill(s, p, price).xbt, price)
<1> DEFINE x == Min({s.amount, xbt_for_btc(p.amount, price), xbt_for_btc(Cap, price)})
<1>0. s.amount \in Nat /\ p.amount \in Nat /\ Cap \in Nat /\ Unit \in Nat \ {0}
  BY OfferBookConstants DEF Offer
<1>1. xbt_for_btc(p.amount, price) \in Nat /\ xbt_for_btc(Cap, price) \in Nat
  <2>1. p.amount * Unit \in Nat /\ Cap * Unit \in Nat
    BY <1>0, ProductOrder
  <2> QED
    BY <2>1, DivisionBounds DEF xbt_for_btc
<1>2. x \in Nat /\ x <= s.amount /\ x <= xbt_for_btc(p.amount, price) /\ x <= xbt_for_btc(Cap, price)
  BY <1>0, <1>1, LeastOfThree
<1> HIDE DEF x
<1>3. btc_for_xbt(x, price) \in Nat /\ btc_for_xbt(x, price) <= p.amount /\ btc_for_xbt(x, price) <= Cap
  BY <1>0, <1>2, RoundTrip
<1>4. Fill(s, p, price) = [xbt |-> x, btc |-> btc_for_xbt(x, price)]
  BY DEF Fill, x
<1> QED
  BY <1>2, <1>3, <1>4

-----------------------------------------------------------------------------
(* A match is made                                                         *)

\* settle: the rest of the offer, on the book or off it for match k.
LEMMA SettledIs ==
    ASSUME NEW o \in Offer, NEW consumed \in Nat, consumed <= o.amount, NEW limiting, NEW k \in MatchIds
    PROVE  LET n == Settled(o, consumed, limiting, k)
           IN  /\ n \in Offer /\ OfferKept(o, n) /\ n.amount = o.amount - consumed
               /\ \/ n.status = "open" /\ n.match = None
                  \/ n.status \in {"matched", "filled"} /\ n.match = k
<1> DEFINE n == Settled(o, consumed, limiting, k)
           rest == o.amount - consumed
<1>1. rest \in Nat
  BY DEF Offer
<1>2. \/ n = Changed(o, rest, "open", None)
      \/ n = Changed(o, rest, "matched", k)
      \/ n = Changed(o, rest, "filled", k)
  <2>1. \/ n = [o EXCEPT !.amount = rest, !.status = "open", !.match = None]
        \/ n = [o EXCEPT !.amount = rest, !.match = k, !.status = "matched"]
        \/ n = [o EXCEPT !.amount = rest, !.match = k, !.status = "filled"]
    BY DEF Settled
  <2> HIDE DEF n, rest
  <2> QED
    BY <2>1 DEF Changed, Offer
<1>3. /\ "open" \in OfferStatus /\ "matched" \in OfferStatus /\ "filled" \in OfferStatus
      /\ None \in MatchIds \cup {None} /\ k \in MatchIds \cup {None}
  BY DEF OfferStatus
<1> HIDE DEF n, rest
<1>4. CASE n = Changed(o, rest, "open", None)
  BY <1>1, <1>3, <1>4, OfferChanged DEF rest, n
<1>5. CASE n = Changed(o, rest, "matched", k)
  BY <1>1, <1>3, <1>5, OfferChanged DEF rest, n
<1>6. CASE n = Changed(o, rest, "filled", k)
  BY <1>1, <1>3, <1>6, OfferChanged DEF rest, n
<1> QED
  BY <1>2, <1>4, <1>5, <1>6

\* The match of a seller's offer s and a buyer's offer p.
MatchOf(si, s, bi, p, price, at) ==
    [status |-> "proposed", init |-> si, part |-> bi, price |-> price,
     xbt |-> Fill(s, p, price).xbt, btc |-> Fill(s, p, price).btc,
     pre |-> <<s.amount, p.amount>>, at |-> at, missed |-> FALSE]

SellerAfter(s, p, price, k) ==
    Settled(s, Fill(s, p, price).xbt, Fill(s, p, price).xbt = s.amount, k)

BuyerAfter(s, p, price, k) ==
    Settled(p, Fill(s, p, price).btc, Fill(s, p, price).xbt = xbt_for_btc(p.amount, price), k)

\* The first w writes of pair, with seller and buyer told apart; no write is
\* done after one whose tag another offer holds.
Paired(si, s, bi, p, price, at, k, w) ==
    /\ matches' = IF w = 0 THEN matches ELSE [matches EXCEPT ![k] = MatchOf(si, s, bi, p, price, at)]
    /\ offers' = CASE w < 2 -> offers
                   [] w = 2 -> [offers EXCEPT ![si] = SellerAfter(s, p, price, k)]
                   [] w = 3 -> [offers EXCEPT ![si] = SellerAfter(s, p, price, k),
                                              ![bi] = BuyerAfter(s, p, price, k)]
    /\ tags' = IF w < 2 THEN tags
               ELSE [g \in Tags |-> CASE g = s.tag -> si
                                      [] g = p.tag /\ w = 3 -> bi
                                      [] OTHER -> tags[g]]
    /\ w >= 2 => TagFree(s.tag, si)
    /\ w = 3 => TagFree(p.tag, bi)
    /\ budget' \in [calls : 0..MaxCalls, faults : 0..MaxFaults]
    /\ budget'.faults = 0 => /\ budget.faults = 0 /\ w # 0
                             /\ w = 1 => ~TagFree(s.tag, si)
                             /\ w = 2 => ~TagFree(p.tag, bi)

\* pair does that, whichever of its offers sells.
LEMMA PairIsPaired ==
    ASSUME IInv, NEW i \in OfferIds, NEW j \in OfferIds, i # j, NEW a, NEW b, NEW price, NEW at,
           NEW faults \in FaultCounts, NEW done, Faulting(faults),
           Pair(i, a, j, b, price, at, faults, done)
    PROVE  \E k \in MatchIds \ Made, w \in 0..3 :
             /\ a.direction = "xbt_to_btc" => Paired(i, a, j, b, price, at, k, w)
             /\ a.direction # "xbt_to_btc" => Paired(j, b, i, a, price, at, k, w)
<1> DEFINE si == IF a.direction = "xbt_to_btc" THEN i ELSE j
           bi == IF a.direction = "xbt_to_btc" THEN j ELSE i
           s == IF si = i THEN a ELSE b
           p == IF si = i THEN b ELSE a
           k == Min(MatchIds \ Made)
           reach == IF ~TagFree(s.tag, si) THEN 1 ELSE IF ~TagFree(p.tag, bi) THEN 2 ELSE 3
<1>1. k \in MatchIds \ Made
  <2>1. MatchIds \ Made # {} /\ MatchIds \ Made \in SUBSET Nat
    BY DEF Pair, Made, MatchIds
  <2>2. \E x \in MatchIds \ Made : \A y \in MatchIds \ Made : x <= y
    BY <2>1, LeastNatural
  <2> QED
    BY <2>2 DEF Min
<1>2. PICK w \in WritesDone(reach, faults) :
        /\ matches' = IF w = 0 THEN matches ELSE [matches EXCEPT ![k] = MatchOf(si, s, bi, p, price, at)]
        /\ offers' = CASE w < 2 -> offers
                       [] w = 2 -> [offers EXCEPT ![si] = SellerAfter(s, p, price, k)]
                       [] w = 3 -> [offers EXCEPT ![si] = SellerAfter(s, p, price, k),
                                                  ![bi] = BuyerAfter(s, p, price, k)]
        /\ tags' = IF w < 2 THEN tags
                   ELSE [g \in Tags |-> CASE g = s.tag -> si
                                          [] g = p.tag /\ w = 3 -> bi
                                          [] OTHER -> tags[g]]
  BY DEF Pair, MatchOf, SellerAfter, BuyerAfter
<1>3. reach \in Nat \ {0} /\ reach <= 3
  OBVIOUS
<1>4. /\ w \in 0..reach
      /\ budget' \in [calls : 0..MaxCalls, faults : 0..MaxFaults]
      /\ budget'.faults = 0 => budget.faults = 0 /\ w = reach
  <2> HIDE DEF reach
  <2> QED
    BY <1>2, <1>3, WritesOf
<1>5. /\ w \in 0..3
      /\ w >= 2 => TagFree(s.tag, si)
      /\ w = 3 => TagFree(p.tag, bi)
      /\ budget'.faults = 0 => /\ budget.faults = 0 /\ w # 0
                               /\ w = 1 => ~TagFree(s.tag, si)
                               /\ w = 2 => ~TagFree(p.tag, bi)
  <2>1. \/ reach = 1 /\ ~TagFree(s.tag, si)
        \/ reach = 2 /\ TagFree(s.tag, si) /\ ~TagFree(p.tag, bi)
        \/ reach = 3 /\ TagFree(s.tag, si) /\ TagFree(p.tag, bi)
    OBVIOUS
  <2> HIDE DEF reach, s, p, si, bi
  <2> QED
    BY <2>1, <1>3, <1>4
<1>6. Paired(si, s, bi, p, price, at, k, w)
  <2> HIDE DEF reach, s, p, si, bi, k
  <2> QED
    BY <1>2, <1>4, <1>5 DEF Paired
<1>7. CASE a.direction = "xbt_to_btc"
  <2>1. si = i /\ bi = j /\ s = a /\ p = b
    BY <1>7
  <2>2. Paired(i, a, j, b, price, at, k, w)
    <3> HIDE DEF s, p, si, bi, k
    <3> QED
      BY <1>6, <2>1
  <2> QED
    BY <2>2, <1>1, <1>5, <1>7
<1>8. CASE a.direction # "xbt_to_btc"
  <2>1. si = j /\ bi = i /\ s = b /\ p = a
    BY <1>8
  <2>2. Paired(j, b, i, a, price, at, k, w)
    <3> HIDE DEF s, p, si, bi, k
    <3> QED
      BY <1>6, <2>1
  <2> QED
    BY <2>2, <1>1, <1>5, <1>8
<1> QED
  BY <1>7, <1>8

\* A side of a match: an open stored offer, or the taker's new one.
Side(i, o) ==
    /\ o \in Offer /\ o.status = "open" /\ o.match = None
    /\ \/ i \in Stored /\ o = offers[i]
       \/ i \in Fresh /\ o.private /\ ~o.code /\ o.posted = o.amount

\* Two offers that may be paired at a price.
Pairable(si, s, bi, p, price) ==
    /\ si # bi /\ Side(si, s) /\ Side(bi, p) /\ (si \in Stored \/ bi \in Stored)
    /\ s.token # p.token
    /\ price \in Nat \ {0} /\ s.price <= price /\ price <= p.price
    /\ Fill(s, p, price).btc >= MinLeg

\* What the first w writes do to each match, offer and tag.
PairEffect(si, s, bi, p, price, at, k, w) ==
    /\ MatchOf(si, s, bi, p, price, at) \in Match
    /\ matches' \in [MatchIds -> Match \cup {NoMatch}]
    /\ offers' \in [OfferIds -> Offer \cup {NoOffer}]
    /\ tags' \in [Tags -> OfferIds \cup {None}]
    /\ \A l \in MatchIds \ {k} : matches'[l] = matches[l]
    /\ matches'[k] = IF w = 0 THEN matches[k] ELSE MatchOf(si, s, bi, p, price, at)
    /\ \A i \in OfferIds \ {si, bi} : offers'[i] = offers[i]
    /\ w < 2 => offers'[si] = offers[si]
    /\ w < 3 => offers'[bi] = offers[bi]
    /\ w >= 2 => /\ offers'[si] \in Offer /\ OfferKept(s, offers'[si])
                 /\ offers'[si].amount = s.amount - Fill(s, p, price).xbt
                 /\ \/ offers'[si].status = "open" /\ offers'[si].match = None
                    \/ offers'[si].status \in {"matched", "filled"} /\ offers'[si].match = k
    /\ w = 3 => /\ offers'[bi] \in Offer /\ OfferKept(p, offers'[bi])
                /\ offers'[bi].amount = p.amount - Fill(s, p, price).btc
                /\ \/ offers'[bi].status = "open" /\ offers'[bi].match = None
                   \/ offers'[bi].status \in {"matched", "filled"} /\ offers'[bi].match = k

\* The writes of pair do that.
LEMMA PairedEffects ==
    ASSUME IInv, NEW si \in OfferIds, NEW s, NEW bi \in OfferIds, NEW p, NEW price, NEW at \in Times,
           NEW k \in MatchIds \ Made, NEW w \in 0..3,
           Pairable(si, s, bi, p, price), Paired(si, s, bi, p, price, at, k, w)
    PROVE  PairEffect(si, s, bi, p, price, at, k, w)
<1> DEFINE s2 == SellerAfter(s, p, price, k)
           p2 == BuyerAfter(s, p, price, k)
           m == MatchOf(si, s, bi, p, price, at)
<1>1. /\ s \in Offer /\ p \in Offer /\ price \in Nat \ {0} /\ si # bi /\ k \in MatchIds
      /\ matches \in [MatchIds -> Match \cup {NoMatch}]
      /\ offers \in [OfferIds -> Offer \cup {NoOffer}] /\ tags \in [Tags -> OfferIds \cup {None}]
  BY DEF Pairable, Side, IInv, TypeOK
<1>2. /\ Fill(s, p, price).xbt \in Nat /\ Fill(s, p, price).btc \in Nat
      /\ Fill(s, p, price).xbt <= s.amount
      /\ Fill(s, p, price).btc <= p.amount
      /\ s.amount \in Nat /\ p.amount \in Nat
  BY <1>1, FillFits DEF Offer
<1>3. /\ s2 \in Offer /\ OfferKept(s, s2) /\ s2.amount = s.amount - Fill(s, p, price).xbt
      /\ \/ s2.status = "open" /\ s2.match = None
         \/ s2.status \in {"matched", "filled"} /\ s2.match = k
  BY <1>1, <1>2, SettledIs DEF SellerAfter
<1>4. /\ p2 \in Offer /\ OfferKept(p, p2) /\ p2.amount = p.amount - Fill(s, p, price).btc
      /\ \/ p2.status = "open" /\ p2.match = None
         \/ p2.status \in {"matched", "filled"} /\ p2.match = k
  BY <1>1, <1>2, SettledIs DEF BuyerAfter
<1>5. m \in Match
  BY <1>1, <1>2 DEF MatchOf, Match, MatchStatus
<1> HIDE DEF s2, p2, m
<1>6. /\ matches' = IF w = 0 THEN matches ELSE [matches EXCEPT ![k] = m]
      /\ w < 2 => offers' = offers
      /\ w = 2 => offers' = [offers EXCEPT ![si] = s2]
      /\ w = 3 => offers' = [offers EXCEPT ![si] = s2, ![bi] = p2]
      /\ w < 2 \/ w = 2 \/ w = 3
  BY DEF Paired, s2, p2, m
<1>7. /\ matches' \in [MatchIds -> Match \cup {NoMatch}]
      /\ \A l \in MatchIds \ {k} : matches'[l] = matches[l]
      /\ matches'[k] = IF w = 0 THEN matches[k] ELSE m
  BY <1>1, <1>5, <1>6
<1>8. /\ offers' \in [OfferIds -> Offer \cup {NoOffer}]
      /\ \A i \in OfferIds \ {si, bi} : offers'[i] = offers[i]
      /\ offers'[si] = IF w < 2 THEN offers[si] ELSE s2
      /\ offers'[bi] = IF w < 3 THEN offers[bi] ELSE p2
  <2>1. CASE w < 2
    BY <2>1, <1>1, <1>6
  <2>2. CASE w = 2
    BY <2>2, <1>1, <1>3, <1>6
  <2>3. CASE w = 3
    BY <2>3, <1>1, <1>3, <1>4, <1>6
  <2> QED
    BY <2>1, <2>2, <2>3, <1>6
<1>9. tags' \in [Tags -> OfferIds \cup {None}]
  BY <1>1 DEF Paired
<1>10. w >= 2 => offers'[si] = s2
  BY <1>8
<1>11. w = 3 => offers'[bi] = p2
  BY <1>8
<1> QED
  BY <1>3, <1>4, <1>5, <1>7, <1>8, <1>9, <1>10, <1>11 DEF m, PairEffect

\* Tags stay with the offers that claimed them.
LEMMA PairKeepsTags ==
    ASSUME IInv, NEW si \in OfferIds, NEW s, NEW bi \in OfferIds, NEW p, NEW price, NEW at \in Times,
           NEW k \in MatchIds \ Made, NEW w \in 0..3,
           Pairable(si, s, bi, p, price), Paired(si, s, bi, p, price, at, k, w)
    PROVE  TagsKept'
<1>1. PairEffect(si, s, bi, p, price, at, k, w)
  BY PairedEffects
<1>2. /\ tags \in [Tags -> OfferIds \cup {None}] /\ None \notin OfferIds /\ si # bi
      /\ offers' \in [OfferIds -> Offer \cup {NoOffer}]
  BY <1>1, OfferBookConstants DEF IInv, TypeOK, Pairable, PairEffect
<1>3. s.tag \in Tags \cup {None} /\ p.tag \in Tags \cup {None} /\ None \notin Tags
  BY DEF Pairable, Side, Offer, Tags
<1>4. \A l \in Stored : offers[l].tag # None => tags[offers[l].tag] = l /\ offers[l].tag \in Tags
  <2> TAKE l \in Stored
  <2>1. offers[l].tag \in Tags \cup {None}
    BY DEF IInv, TypeOK, Stored, NoOffer, Offer
  <2> QED
    BY <2>1 DEF IInv, TagsKept
<1>5. SUFFICES ASSUME NEW l \in Stored', offers'[l].tag # None
               PROVE  tags'[offers'[l].tag] = l
  BY DEF TagsKept
<1>6. l \in OfferIds
  BY DEF Stored
<1>7. CASE w < 2
  <2>1. offers'[l] = offers[l] /\ tags' = tags
    BY <1>1, <1>6, <1>7 DEF PairEffect, Paired
  <2> QED
    BY <2>1, <1>4, <1>5, <1>6 DEF Stored
<1>8. CASE ~(w < 2)
  <2>1. /\ TagFree(s.tag, si) /\ (w = 3 => TagFree(p.tag, bi))
        /\ tags' = [g \in Tags |-> CASE g = s.tag -> si
                                      [] g = p.tag /\ w = 3 -> bi
                                      [] OTHER -> tags[g]]
        /\ offers'[si].tag = s.tag
        /\ w = 3 => offers'[bi].tag = p.tag
        /\ w # 3 => w = 2 /\ offers'[bi] = offers[bi]
    BY <1>1, <1>8 DEF Paired, PairEffect, OfferKept
  <2>2. offers'[l].tag \in Tags
    BY <1>2, <1>5, <1>6 DEF Stored, NoOffer, Offer
  <2>3. (si \in Stored /\ s = offers[si]) \/ (bi \in Stored /\ p = offers[bi])
    BY DEF Pairable, Side, Fresh
  <2>8. ASSUME w = 3, s.tag \in Tags PROVE p.tag # s.tag
    <3> SUFFICES ASSUME p.tag = s.tag PROVE FALSE
      OBVIOUS
    <3>1. tags[s.tag] = None
      BY <2>1, <2>8, <1>2 DEF TagFree
    <3>2. tags[s.tag] \in {si, bi}
      BY <2>3, <2>8, <1>3, <1>4
    <3> QED
      BY <3>1, <3>2, <1>2
  <2>4. CASE l = si
    BY <2>1, <2>2, <2>4, <2>8
  <2>5. CASE l = bi /\ w = 3
    <3>1. offers'[l].tag = p.tag /\ p.tag \in Tags
      BY <2>1, <2>2, <2>5
    <3>2. p.tag # s.tag
      BY <3>1, <2>5, <2>8
    <3> QED
      BY <3>1, <3>2, <2>1, <2>5
  <2>6. CASE l = bi /\ w # 3
    <3>1. bi \in Stored /\ offers'[l] = offers[l]
      BY <2>1, <2>6 DEF Stored
    <3>2. tags[offers[l].tag] = bi
      BY <3>1, <1>4, <1>5, <2>6
    <3>3. offers[l].tag # s.tag
      BY <3>1, <3>2, <2>1, <2>2, <1>2 DEF TagFree
    <3> QED
      BY <3>1, <3>2, <3>3, <2>1, <2>2, <2>6
  <2>7. CASE l \notin {si, bi}
    <3>1. l \in Stored /\ offers'[l] = offers[l]
      BY <1>1, <1>6, <2>7 DEF PairEffect, Stored
    <3>2. tags[offers[l].tag] = l
      BY <3>1, <1>4, <1>5
    <3>3. offers[l].tag # s.tag
      BY <3>1, <3>2, <2>1, <2>2, <2>7, <1>2, <1>6 DEF TagFree
    <3>4. w = 3 => offers[l].tag # p.tag
      BY <3>1, <3>2, <2>1, <2>2, <2>7, <1>2, <1>6 DEF TagFree
    <3> QED
      BY <3>1, <3>2, <3>3, <3>4, <2>1, <2>2
  <2> QED
    BY <2>4, <2>5, <2>6, <2>7
<1> QED
  BY <1>7, <1>8

\* If nothing failed and no write was refused, all were done.
LEMMA PairDoneWhole ==
    ASSUME IInv, NEW si \in OfferIds, NEW s, NEW bi \in OfferIds, NEW p, NEW price, NEW at \in Times,
           NEW k \in MatchIds \ Made, NEW w \in 0..3,
           Pairable(si, s, bi, p, price), Paired(si, s, bi, p, price, at, k, w),
           budget'.faults = 0, Written'
    PROVE  w = 3
<1>1. PairEffect(si, s, bi, p, price, at, k, w)
  BY PairedEffects
<1>2. w # 0 /\ (w = 1 => ~TagFree(s.tag, si)) /\ (w = 2 => ~TagFree(p.tag, bi))
  BY DEF Paired
<1>3. \A l \in Stored : TagFree(offers[l].tag, l)
  <2> TAKE l \in Stored
  <2>1. offers[l].tag \in Tags => tags[offers[l].tag] = l
    BY DEF IInv, TagsKept, Tags
  <2> QED
    BY <2>1 DEF TagFree
<1>4. k \in Made' /\ matches'[k].init = si /\ matches'[k].part = bi
  BY <1>1, <1>2 DEF PairEffect, Made, MatchOf
<1>5. si \in Stored' /\ bi \in Stored'
  BY <1>4 DEF Written
<1>6. CASE w = 1
  <2>1. si \in Stored
    BY <1>1, <1>5, <1>6 DEF PairEffect, Stored
  <2>2. s = offers[si]
    BY <2>1 DEF Pairable, Side, Fresh
  <2> QED
    BY <2>1, <2>2, <1>2, <1>3, <1>6
<1>7. CASE w = 2
  <2>1. bi \in Stored
    BY <1>1, <1>5, <1>7 DEF PairEffect, Stored
  <2>2. p = offers[bi]
    BY <2>1 DEF Pairable, Side, Fresh
  <2> QED
    BY <2>1, <2>2, <1>2, <1>3, <1>7
<1> QED
  BY <1>2, <1>6, <1>7

\* A new match is within the limits of its offers.
LEMMA PairWithinLimits ==
    ASSUME IInv, NEW si \in OfferIds, NEW s, NEW bi \in OfferIds, NEW p, NEW price, NEW at \in Times,
           NEW k \in MatchIds \ Made, NEW w \in 1..3,
           Pairable(si, s, bi, p, price), Paired(si, s, bi, p, price, at, k, w)
    PROVE  MatchBegins(k)
<1>0. w \in 0..3 /\ w # 0
  OBVIOUS
<1>1. PairEffect(si, s, bi, p, price, at, k, w)
  BY <1>0, PairedEffects
<1>2. matches'[k] = MatchOf(si, s, bi, p, price, at)
  BY <1>0, <1>1 DEF PairEffect
<1>3. /\ matches'[k].status = "proposed" /\ matches'[k].missed = FALSE
      /\ matches'[k].init = si /\ matches'[k].part = bi /\ matches'[k].price = price
      /\ matches'[k].xbt = Fill(s, p, price).xbt /\ matches'[k].btc = Fill(s, p, price).btc
      /\ matches'[k].pre[1] = s.amount /\ matches'[k].pre[2] = p.amount
  BY <1>2 DEF MatchOf
<1>4. /\ s \in Offer /\ p \in Offer /\ price \in Nat \ {0} /\ si # bi
      /\ s.token # p.token /\ s.price <= price /\ price <= p.price
      /\ Fill(s, p, price).btc >= MinLeg
      /\ {si, bi} \subseteq Stored \cup Fresh
  BY DEF Pairable, Side
<1>5. /\ Fill(s, p, price).xbt \in Nat /\ Fill(s, p, price).btc \in Nat
      /\ Fill(s, p, price).xbt <= s.amount
      /\ Fill(s, p, price).btc <= p.amount
      /\ Fill(s, p, price).btc <= Cap
      /\ Fill(s, p, price).btc = btc_for_xbt(Fill(s, p, price).xbt, price)
  BY <1>4, FillFits
<1>6. ASSUME offers'[si].status # "none" PROVE offers'[si].token = s.token /\ offers'[si].price = s.price
  <2>1. CASE w < 2
    <3>1. offers'[si] = offers[si]
      BY <1>1, <2>1 DEF PairEffect
    <3>2. si \in Stored
      BY <3>1, <1>6 DEF Stored
    <3> QED
      BY <3>1, <3>2 DEF Pairable, Side, Fresh
  <2>2. CASE ~(w < 2)
    BY <1>1, <2>2 DEF PairEffect, OfferKept
  <2> QED
    BY <2>1, <2>2
<1>7. ASSUME offers'[bi].status # "none" PROVE offers'[bi].token = p.token /\ offers'[bi].price = p.price
  <2>1. CASE w < 3
    <3>1. offers'[bi] = offers[bi]
      BY <1>1, <2>1 DEF PairEffect
    <3>2. bi \in Stored
      BY <3>1, <1>7 DEF Stored
    <3> QED
      BY <3>1, <3>2 DEF Pairable, Side, Fresh
  <2>2. CASE w = 3
    BY <1>1, <2>2 DEF PairEffect, OfferKept
  <2> QED
    BY <2>1, <2>2
<1>8. /\ btc_for_xbt(Fill(s, p, price).xbt, s.price) <= Fill(s, p, price).btc
      /\ Fill(s, p, price).btc <= btc_for_xbt(Fill(s, p, price).xbt, p.price)
  <2>1. s.price \in Nat /\ p.price \in Nat /\ price \in Nat
    BY <1>4 DEF Offer
  <2> QED
    BY <2>1, <1>4, <1>5, PriceOrder
<1>9. Fill(s, p, price).btc \in MinLeg..Cap
  BY <1>4, <1>5, OfferBookConstants
<1>10. btc_for_xbt(Fill(s, p, price).xbt, s.price) \in Nat
  <2>1. s.price \in Nat /\ Unit \in Nat \ {0}
    BY <1>4, OfferBookConstants DEF Offer
  <2> QED
    BY <2>1, <1>5, ProductOrder, DivisionBounds DEF btc_for_xbt
<1>11. Limits(k)'
  <2> SUFFICES ASSUME offers'[si].status # "none", offers'[bi].status # "none"
               PROVE  /\ s.token # p.token /\ s.price <= price /\ price <= p.price
                      /\ Fill(s, p, price).btc >= btc_for_xbt(Fill(s, p, price).xbt, s.price)
                      /\ Fill(s, p, price).btc <= btc_for_xbt(Fill(s, p, price).xbt, p.price)
                      /\ Fill(s, p, price).btc \in MinLeg..Cap
    BY <1>3, <1>6, <1>7 DEF Limits, btc_for_xbt
  <2> QED
    BY <1>4, <1>5, <1>8, <1>9, <1>10
<1> QED
  BY <1>3, <1>4, <1>5, <1>11 DEF MatchBegins

\* A match is made of two offers, or only some of its writes are done.
LEMMA PairStep ==
    ASSUME IInv, NEW si \in OfferIds, NEW s, NEW bi \in OfferIds, NEW p, NEW price, NEW at \in Times,
           NEW k \in MatchIds \ Made, NEW w \in 0..3,
           Pairable(si, s, bi, p, price), Paired(si, s, bi, p, price, at, k, w),
           th' \in [Threads -> Worker], tower' \in Tower, now' \in Times, TowerSound'
    PROVE  IInv'
<1>1. PairEffect(si, s, bi, p, price, at, k, w)
  BY PairedEffects
<1>2. TypeOK'
  BY <1>1 DEF PairEffect, Paired, TypeOK
<1>3. TagsKept'
  BY PairKeepsTags
<1>4. /\ si # bi /\ Side(si, s) /\ Side(bi, p) /\ (si \in Stored \/ bi \in Stored)
      /\ s \in Offer /\ p \in Offer /\ price \in Nat \ {0}
  BY DEF Pairable, Side
<1>5. matches'[k] = matches[k] \/ MatchBegins(k)
  <2>1. CASE w = 0
    BY <1>1, <2>1 DEF PairEffect
  <2>2. CASE w # 0
    <3>1. w \in 1..3
      BY <2>2
    <3> QED
      BY <3>1, PairWithinLimits
  <2> QED
    BY <2>1, <2>2
<1>6. w # 0 => /\ k \in Made' /\ Live(k)' /\ matches'[k].init = si /\ matches'[k].part = bi
               /\ matches'[k].xbt = Fill(s, p, price).xbt /\ matches'[k].btc = Fill(s, p, price).btc
               /\ matches'[k].pre[1] = s.amount /\ matches'[k].pre[2] = p.amount
  BY <1>1 DEF PairEffect, MatchOf, Made, Live
\* No stored offer names the new match yet.
<1>7. ASSUME NEW i \in OfferIds, offers'[i] = offers[i] PROVE OfferStays(i)
  <2> SUFFICES ASSUME i \in Stored, offers[i].match # None, budget'.faults = 0
               PROVE  Live(offers[i].match)'
    BY <1>7 DEF OfferStays
  <2>1. offers[i].match \in Made /\ Live(offers[i].match)
    BY DEF IInv, NamesItsMatch, NamesLiveMatch, Paired
  <2>2. offers[i].match \in MatchIds \ {k}
    BY <2>1 DEF Made
  <2>3. matches'[offers[i].match] = matches[offers[i].match]
    BY <2>2, <1>1 DEF PairEffect
  <2> QED
    BY <2>1, <2>3, <1>7 DEF Live
<1>8. ASSUME NEW i \in OfferIds, NEW o, Side(i, o), i \in {si, bi}, w # 0,
             OfferKept(o, offers'[i]),
             \/ offers'[i].status = "open" /\ offers'[i].match = None
             \/ offers'[i].status \in {"matched", "filled"} /\ offers'[i].match = k
      PROVE  OfferGoesOn(i) \/ OfferBegins(i)
  <2>1. Free(i)' \/ Bound(i)'
    BY <1>6, <1>8 DEF Free, Bound, Live
  <2>2. CASE i \in Stored /\ o = offers[i]
    BY <2>1, <2>2, <1>8 DEF OfferGoesOn
  <2>3. CASE i \in Fresh /\ o.private /\ ~o.code
    BY <2>1, <2>3, <1>8 DEF OfferBegins, OfferKept
  <2> QED
    BY <2>2, <2>3, <1>8 DEF Side
<1>9. OfferStays(si) \/ OfferGoesOn(si) \/ OfferBegins(si)
  <2>1. CASE w < 2
    BY <2>1, <1>1, <1>7 DEF PairEffect
  <2>2. CASE ~(w < 2)
    BY <2>2, <1>1, <1>4, <1>8 DEF PairEffect
  <2> QED
    BY <2>1, <2>2
<1>10. OfferStays(bi) \/ OfferGoesOn(bi) \/ OfferBegins(bi)
  <2>1. CASE w < 3
    BY <2>1, <1>1, <1>7 DEF PairEffect
  <2>2. CASE w = 3
    BY <2>2, <1>1, <1>4, <1>8 DEF PairEffect
  <2> QED
    BY <2>1, <2>2
<1>11. \A i \in OfferIds \ {si, bi} : offers'[i] = offers[i] /\ OfferStays(i)
  BY <1>1, <1>7 DEF PairEffect
<1>12. \A i, j \in Stored' \ Stored : i = j
  <2>1. Stored' \ Stored \subseteq {si, bi}
    BY <1>11 DEF Stored
  <2> QED
    BY <2>1, <1>4
<1>13. Step
  <2>1. \A l \in MatchIds : matches'[l] = matches[l] \/ MatchGoesOn(l) \/ MatchBegins(l)
    BY <1>1, <1>5 DEF PairEffect
  <2>2. \A i \in OfferIds : OfferStays(i) \/ OfferGoesOn(i) \/ OfferBegins(i)
    BY <1>9, <1>10, <1>11
  <2>3. budget'.faults = 0 => budget.faults = 0
    BY DEF Paired
  <2> QED
    BY <2>1, <2>2, <2>3, <1>12 DEF Step
<1>14. ASSUME budget'.faults = 0, Written', NEW i \in Stored'
       PROVE  Share(i, k)' + Rest(i)' <= Share(i, k) + RestBefore(i)
  <2>1. w = 3 /\ i \in OfferIds
    BY <1>14, PairDoneWhole DEF Stored
  <2>2. Counts(k)' /\ ~Counts(k) /\ Share(i, k) = 0
    BY <2>1, <1>6 DEF Counts, Live, Share, Made, PairEffect, MatchOf
  <2>3. /\ Fill(s, p, price).xbt \in Nat /\ Fill(s, p, price).btc \in Nat
        /\ s.amount \in Nat /\ p.amount \in Nat
    BY <1>4, FillFits DEF Offer
  <2>4. CASE i = si
    <3>1. Share(i, k)' = Fill(s, p, price).xbt
      BY <2>1, <2>2, <2>4, <1>4, <1>6 DEF Share
    <3>2. Rest(i)' = s.amount - Fill(s, p, price).xbt
      BY <2>1, <2>4, <1>1, <1>6, OfferBookConstants DEF Rest, PairEffect
    <3>3. RestBefore(i) = s.amount
      BY <2>1, <2>4, <1>1, <1>4 DEF RestBefore, Rest, Side, Fresh, PairEffect, OfferKept
    <3> QED
      BY <3>1, <3>2, <3>3, <2>2, <2>3
  <2>5. CASE i = bi
    <3>1. Share(i, k)' = Fill(s, p, price).btc
      BY <2>1, <2>2, <2>5, <1>4, <1>6 DEF Share
    <3>2. Rest(i)' = p.amount - Fill(s, p, price).btc
      BY <2>1, <2>5, <1>1, <1>4, <1>6, OfferBookConstants DEF Rest, PairEffect
    <3>3. RestBefore(i) = p.amount
      BY <2>1, <2>5, <1>1, <1>4 DEF RestBefore, Rest, Side, Fresh, PairEffect, OfferKept
    <3> QED
      BY <3>1, <3>2, <3>3, <2>2, <2>3
  <2>6. CASE i \notin {si, bi}
    <3>1. Share(i, k)' = 0
      BY <2>1, <2>6, <1>6 DEF Share
    <3>2. offers'[i] = offers[i] /\ i \in Stored
      BY <2>1, <2>6, <1>11, <1>14 DEF Stored
    <3>3. offers[i].match # None => offers[i].match \in MatchIds \ {k}
      BY <3>2 DEF IInv, NamesItsMatch, Made
    <3>4. offers[i].match # None => matches'[offers[i].match] = matches[offers[i].match]
      BY <3>3, <1>1 DEF PairEffect
    <3>5. Rest(i)' = Rest(i) /\ RestBefore(i) = Rest(i) /\ Rest(i) \in Nat
      BY <3>2, <3>4, RestNat DEF Rest, RestBefore
    <3> QED
      BY <3>1, <3>5, <2>2
  <2> QED
    BY <2>4, <2>5, <2>6
<1>15. BooksBalance'
  <2>1. \A l \in MatchIds \ {k} : matches'[l] = matches[l]
    BY <1>1 DEF PairEffect
  <2> QED
    BY <2>1, <1>2, <1>13, <1>14, BooksOfMatch
<1> QED
  BY <1>2, <1>3, <1>13, <1>15, StepKeeps

-----------------------------------------------------------------------------
(* Each action                                                             *)

\* A request's offer is an offer.
LEMMA NewOfferIs ==
    ASSUME NEW r \in Requests, NEW direction \in Directions, NEW amount \in Nat, NEW price \in Nat \ {0},
           NEW private \in BOOLEAN, NEW code \in BOOLEAN, NEW at \in Times
    PROVE  NewOffer(r, direction, amount, price, private, code, at) \in Offer
<1> DEFINE o == NewOffer(r, direction, amount, price, private, code, at)
<1>1. r.token \in Tokens /\ r.client \in Clients /\ r.tag \in Tags \cup {None}
  BY DEF Tokens, Clients, Tags
<1>2. at + ExpiresSecs \in Nat
  BY OfferBookConstants DEF Times
<1>3. o \in Offer
  BY <1>1, <1>2 DEF NewOffer, Offer, OfferStatus
<1> QED
  BY <1>3

\* A thread's state is one of its kind's.
LEMMA WorkerIs ==
    ASSUME IInv, NEW t \in Threads
    PROVE  /\ th[t].pc = "insert" => th[t].req \in Requests /\ th[t].at \in Times
           /\ th[t].pc = "match" => th[t].i \in OfferIds /\ th[t].at \in Times
           /\ th[t].pc = "take" => /\ th[t].req \in Requests /\ th[t].at \in Times
                                   /\ th[t].maker \in OfferIds /\ th[t].amount \in Nat
           /\ th[t].pc = "clean" => th[t].i \in OfferIds
<1>1. th[t] \in Worker
  BY DEF IInv, TypeOK
<1> QED
  BY <1>1 DEF Worker, Idle

\* A thread goes on.
LEMMA GotoTyped ==
    ASSUME IInv, NEW t \in Threads, NEW rec \in Worker, Goto(t, rec)
    PROVE  th' \in [Threads -> Worker]
BY DEF IInv, TypeOK, Goto

\* An offer on the book is stored.
LEMMA OpenIsStored ==
    ASSUME IInv, NEW i \in OfferIds, offers[i].status = "open"
    PROVE  i \in Stored /\ offers[i] \in Offer /\ offers[i].match = None
<1>1. i \in Stored
  BY DEF Stored
<1> QED
  BY <1>1 DEF IInv, TypeOK, Stored, NoOffer, NamesItsMatch

\* create_offer's and rematch's pairing.
LEMMA MatchLockedStep ==
    ASSUME IInv, NEW i \in OfferIds, NEW barred, NEW at \in Times, NEW faults \in FaultCounts, NEW done,
           MatchLocked(i, barred, at, faults, done), Faulting(faults),
           th' \in [Threads -> Worker], tower' \in Tower, now' \in Times, TowerSound'
    PROVE  IInv'
<1>1. offers[i].status = "open"
  BY DEF MatchLocked, NoMatchFor, matchable
<1>2. PICK j \in Candidates(i, barred, at) : Pair(i, offers[i], j, offers[j], Price(i, j), at, faults, done)
  BY DEF MatchLocked
<1> DEFINE a == offers[i]
           b == offers[j]
           price == Price(i, j)
<1>3. /\ j \in Stored /\ j \in OfferIds /\ b.direction = opposite(a.direction) /\ b.status = "open"
      /\ b.token # a.token /\ offers_cross(a, b)
      /\ IF a.direction = "xbt_to_btc" THEN Fillable(a, b, price) ELSE Fillable(b, a, price)
  BY DEF Candidates, Stored, matchable
<1>4. i \in Stored /\ a \in Offer /\ a.match = None /\ b \in Offer /\ b.match = None
  BY <1>1, <1>3, OpenIsStored
<1>5. i # j
  <2>1. a.direction \in Directions
    BY <1>4 DEF Offer
  <2> QED
    BY <2>1, <1>3 DEF opposite, Directions
<1>6. Side(i, a) /\ Side(j, b)
  BY <1>1, <1>3, <1>4 DEF Side
<1>7. price \in {a.price, b.price} /\ a.price \in Nat \ {0} /\ b.price \in Nat \ {0}
  BY <1>4 DEF Price, Offer
<1> HIDE DEF price
<1>8. PICK k \in MatchIds \ Made, w \in 0..3 :
         /\ a.direction = "xbt_to_btc" => Paired(i, a, j, b, price, at, k, w)
         /\ a.direction # "xbt_to_btc" => Paired(j, b, i, a, price, at, k, w)
  BY <1>2, <1>3, <1>5, PairIsPaired DEF price
<1>9. CASE a.direction = "xbt_to_btc"
  <2>1. a.price <= price /\ price <= b.price
    BY <1>3, <1>7, <1>9 DEF offers_cross
  <2>2. Fill(a, b, price).btc >= MinLeg
    BY <1>3, <1>9 DEF Fillable
  <2>3. Pairable(i, a, j, b, price)
    BY <2>1, <2>2, <1>3, <1>4, <1>5, <1>6, <1>7 DEF Pairable
  <2> HIDE DEF a, b
  <2> QED
    BY <2>3, <1>3, <1>8, <1>9, PairStep
<1>10. CASE a.direction # "xbt_to_btc"
  <2>1. b.price <= price /\ price <= a.price
    BY <1>3, <1>7, <1>10 DEF offers_cross
  <2>2. Fill(b, a, price).btc >= MinLeg
    BY <1>3, <1>10 DEF Fillable
  <2>3. Pairable(j, b, i, a, price)
    BY <2>1, <2>2, <1>3, <1>4, <1>5, <1>6, <1>7 DEF Pairable
  <2> HIDE DEF a, b
  <2> QED
    BY <2>3, <1>3, <1>8, <1>10, PairStep
<1> QED
  BY <1>9, <1>10

\* take_public and take_private.
LEMMA TakePairStep ==
    ASSUME IInv, NEW t \in Threads, TakePair(t)
    PROVE  IInv'
<1> DEFINE j == th[t].maker
           mk == offers[j]
           taker == NewOffer(th[t].req, opposite(mk.direction), th[t].amount, mk.price, TRUE, FALSE, th[t].at)
           fits == IF taker.direction = "xbt_to_btc" THEN Fillable(taker, mk, mk.price)
                                                      ELSE Fillable(mk, taker, mk.price)
<1>0. /\ th[t].pc = "take" /\ tower' = tower /\ now' = now /\ tower = Resting
      /\ tower' \in Tower /\ now' \in Times /\ Idle \in Worker
  BY DEF TakePair, Unlocked, IInv, TypeOK, Worker
<1>1. th[t].req \in Requests /\ th[t].at \in Times /\ j \in OfferIds /\ th[t].amount \in Nat
  BY <1>0, WorkerIs
<1>2. TowerSound'
  BY <1>0 DEF TowerSound, Resting
<1>3. CASE ~matchable(mk, th[t].at) \/ mk.token = taker.token \/ ~fits
  <2>1. Goto(t, Idle) /\ offers' = offers /\ matches' = matches /\ tags' = tags /\ budget' = budget
    BY <1>3 DEF TakePair
  <2>2. TypeOK'
    BY <2>1, <1>0, GotoTyped DEF IInv, TypeOK
  <2> QED
    BY <2>1, <2>2, <1>2, QuietStep
<1>4. CASE matchable(mk, th[t].at) /\ mk.token # taker.token /\ fits
  <2>1. PICK i \in Fresh, faults \in FaultCounts, done \in BOOLEAN :
          /\ Pair(i, taker, j, mk, mk.price, th[t].at, faults, done)
          /\ Faulting(faults)
          /\ Goto(t, IF done THEN [pc |-> "clean", i |-> i] ELSE Idle)
    BY <1>4 DEF TakePair
  <2>2. i \in OfferIds /\ i \notin Stored
    BY <2>1 DEF Fresh
  <2>3. mk.status = "open"
    BY <1>4 DEF matchable
  <2>4. j \in Stored /\ mk \in Offer /\ mk.match = None
    BY <1>1, <2>3, OpenIsStored
  <2>5. mk.direction \in Directions /\ opposite(mk.direction) \in Directions /\ mk.price \in Nat \ {0}
        /\ opposite(mk.direction) # mk.direction
    BY <2>4 DEF Offer, Directions, opposite
  <2>6. /\ taker \in Offer /\ taker.status = "open" /\ taker.match = None /\ taker.posted = taker.amount
        /\ taker.price = mk.price /\ taker.direction = opposite(mk.direction)
        /\ taker.private = TRUE /\ taker.code = FALSE
    <3>1. taker \in Offer
      <4>1. TRUE \in BOOLEAN /\ FALSE \in BOOLEAN
        OBVIOUS
      <4> QED
        BY <4>1, <1>1, <2>5, NewOfferIs, Zenon
    <3> QED
      BY <3>1 DEF NewOffer
  <2>7. th' \in [Threads -> Worker]
    <3>1. (IF done THEN [pc |-> "clean", i |-> i] ELSE Idle) \in Worker
      BY <2>2 DEF Worker
    <3> QED
      BY <2>1, <3>1, GotoTyped
  <2> DEFINE price == mk.price
  <2>8. fits /\ mk.token # taker.token
    BY <1>4
  <2> HIDE DEF taker, j
  <2>9. Side(i, taker) /\ Side(j, mk)
    BY <2>1, <2>3, <2>4, <2>6 DEF Side
  <2>10. PICK k \in MatchIds \ Made, w \in 0..3 :
           /\ taker.direction = "xbt_to_btc" => Paired(i, taker, j, mk, price, th[t].at, k, w)
           /\ taker.direction # "xbt_to_btc" => Paired(j, mk, i, taker, price, th[t].at, k, w)
    BY <2>1, <2>2, <2>4, <1>1, PairIsPaired
  <2>11. CASE taker.direction = "xbt_to_btc"
    <3>1. Fill(taker, mk, price).btc >= MinLeg
      BY <2>8, <2>11 DEF Fillable
    <3>2. Pairable(i, taker, j, mk, price)
      BY <3>1, <2>2, <2>4, <2>5, <2>6, <2>8, <2>9 DEF Pairable
    <3> HIDE DEF mk, price
    <3> QED
      BY <3>2, <2>2, <2>7, <2>10, <2>11, <1>0, <1>1, <1>2, PairStep
  <2>12. CASE taker.direction # "xbt_to_btc"
    <3>1. Fill(mk, taker, price).btc >= MinLeg
      BY <2>8, <2>12 DEF Fillable
    <3>2. Pairable(j, mk, i, taker, price)
      BY <3>1, <2>2, <2>4, <2>5, <2>6, <2>8, <2>9 DEF Pairable
    <3> HIDE DEF mk, price
    <3> QED
      BY <3>2, <2>2, <2>7, <2>10, <2>12, <1>0, <1>1, <1>2, PairStep
  <2> QED
    BY <2>11, <2>12
<1> QED
  BY <1>3, <1>4

\* create_offer up to the lock.
LEMMA CreateCheckStep ==
    ASSUME IInv, NEW t \in Threads, NEW r \in Requests, CreateCheck(t, r)
    PROVE  IInv'
<1>1. /\ offers' = offers /\ matches' = matches /\ tags' = tags /\ tower' = tower /\ now' = now
      /\ Goto(t, [pc |-> "insert", req |-> r, at |-> now])
      /\ budget.calls < MaxCalls /\ budget' = [budget EXCEPT !.calls = @ + 1]
  BY DEF CreateCheck, Call
<1>2. [pc |-> "insert", req |-> r, at |-> now] \in Worker
  BY DEF Worker, IInv, TypeOK
<1>3. budget' \in [calls : 0..MaxCalls, faults : 0..MaxFaults] /\ budget'.faults = budget.faults
  BY <1>1, OfferBookConstants DEF IInv, TypeOK
<1>4. TypeOK'
  BY <1>1, <1>2, <1>3, GotoTyped DEF IInv, TypeOK
<1>5. TowerSound'
  BY <1>1 DEF IInv, TowerSound
<1> QED
  BY <1>1, <1>3, <1>4, <1>5, QuietStep

\* take_offer and take up to the lock.
LEMMA TakeCheckStep ==
    ASSUME IInv, NEW t \in Threads, NEW r \in Requests, NEW j \in Stored,
           TakeCheck(t, r, j) \/ CodeCheck(t, r, j)
    PROVE  IInv'
<1>1. /\ offers' = offers /\ matches' = matches /\ tags' = tags /\ tower' = tower /\ now' = now
      /\ budget.calls < MaxCalls /\ budget' = [budget EXCEPT !.calls = @ + 1]
  BY DEF TakeCheck, CodeCheck, Call
<1>2. budget' \in [calls : 0..MaxCalls, faults : 0..MaxFaults] /\ budget'.faults = budget.faults
  BY <1>1, OfferBookConstants DEF IInv, TypeOK
<1>3. j \in OfferIds /\ offers[j] \in Offer /\ now \in Times /\ r.amount \in Nat
  BY OfferBookConstants DEF IInv, TypeOK, Stored, NoOffer, Request
<1>4. xbt_for_btc(offers[j].amount, offers[j].price) \in Nat /\ btc_for_xbt(offers[j].amount, offers[j].price) \in Nat
  <2>1. offers[j].amount \in Nat /\ offers[j].price \in Nat \ {0} /\ Unit \in Nat \ {0}
    BY <1>3, OfferBookConstants DEF Offer
  <2>2. offers[j].amount * Unit \in Nat /\ offers[j].amount * offers[j].price \in Nat
    BY <2>1, ProductOrder
  <2> QED
    BY <2>1, <2>2, DivisionBounds DEF xbt_for_btc, btc_for_xbt
<1>5. \E n \in Nat : Goto(t, [pc |-> "take", req |-> r, amount |-> n, maker |-> j, at |-> now])
  <2>1. CASE TakeCheck(t, r, j)
    BY <2>1, <1>3 DEF TakeCheck
  <2>2. CASE CodeCheck(t, r, j)
    <3> DEFINE n == IF offers[j].direction = "btc_to_xbt" THEN xbt_for_btc(offers[j].amount, offers[j].price)
                                                        ELSE btc_for_xbt(offers[j].amount, offers[j].price)
    <3>1. n \in Nat
      BY <1>4
    <3>2. Goto(t, [pc |-> "take", req |-> r, maker |-> j, at |-> now, amount |-> n])
      BY <2>2 DEF CodeCheck
    <3> HIDE DEF n
    <3>3. [pc |-> "take", req |-> r, maker |-> j, at |-> now, amount |-> n]
            = [pc |-> "take", req |-> r, amount |-> n, maker |-> j, at |-> now]
      OBVIOUS
    <3> QED
      BY <3>1, <3>2, <3>3
  <2> QED
    BY <2>1, <2>2
<1>6. th' \in [Threads -> Worker]
  <2>1. PICK n \in Nat : Goto(t, [pc |-> "take", req |-> r, amount |-> n, maker |-> j, at |-> now])
    BY <1>5
  <2>2. [pc |-> "take", req |-> r, amount |-> n, maker |-> j, at |-> now] \in Worker
    BY <1>3 DEF Worker
  <2> QED
    BY <2>1, <2>2, GotoTyped
<1>7. TypeOK'
  BY <1>1, <1>2, <1>6 DEF IInv, TypeOK
<1>8. TowerSound'
  BY <1>1 DEF IInv, TowerSound
<1> QED
  BY <1>1, <1>2, <1>7, <1>8, QuietStep

\* create_offer's insert, under the lock.
LEMMA CreateInsertStep ==
    ASSUME IInv, NEW t \in Threads, CreateInsert(t)
    PROVE  IInv'
<1> DEFINE r == th[t].req
           o == NewOffer(r, r.direction, r.amount, r.price, r.private, r.private, th[t].at)
<1>1. /\ th[t].pc = "insert" /\ matches' = matches /\ tower' = tower /\ now' = now /\ budget' = budget
      /\ Idle \in Worker
  BY DEF CreateInsert, Worker
<1>2. r \in Requests /\ th[t].at \in Times
  BY <1>1, WorkerIs
<1>3. TowerSound'
  BY <1>1 DEF IInv, TowerSound
<1>4. CASE Replayed(r) \/ ~Unused(r.tag)
  <2>1. Goto(t, Idle) /\ offers' = offers /\ tags' = tags
    BY <1>4 DEF CreateInsert
  <2>2. TypeOK'
    BY <2>1, <1>1, GotoTyped DEF IInv, TypeOK
  <2> QED
    BY <2>1, <2>2, <1>1, <1>3, QuietStep
<1>5. CASE ~Replayed(r) /\ Unused(r.tag)
  <2>1. PICK i \in Fresh :
          /\ offers' = [offers EXCEPT ![i] = o]
          /\ Goto(t, IF r.private THEN Idle ELSE [pc |-> "match", i |-> i, at |-> th[t].at])
          /\ tags' = Claimed(r.tag, i)
    BY <1>5 DEF CreateInsert
  <2>2. r.direction \in Directions /\ r.amount \in Nat /\ r.price \in Nat \ {0} /\ r.private \in BOOLEAN
    BY <1>2, OfferBookConstants DEF Request
  <2>3. o \in Offer
    BY <1>2, <2>2, NewOfferIs, Zenon
  <2>4. /\ o.status = "open" /\ o.match = None /\ o.posted = o.amount
        /\ o.token = r.token /\ o.client = r.client /\ o.tag = r.tag
    BY DEF NewOffer
  <2> HIDE DEF o
  <2>5. i \in OfferIds
    BY <2>1 DEF Fresh
  <2>6. th' \in [Threads -> Worker]
    <3>1. (IF r.private THEN Idle ELSE [pc |-> "match", i |-> i, at |-> th[t].at]) \in Worker
      BY <1>2, <2>5 DEF Worker
    <3> QED
      BY <2>1, <3>1, GotoTyped
  <2>7. tags' \in [Tags -> OfferIds \cup {None}]
    BY <2>1, <2>5 DEF IInv, TypeOK, Claimed
  <2>8. offers' \in [OfferIds -> Offer \cup {NoOffer}]
    BY <2>1, <2>3, <2>5 DEF IInv, TypeOK
  <2>9. TypeOK'
    BY <2>6, <2>7, <2>8, <1>1 DEF IInv, TypeOK
  <2>10. o.client # None => \A j \in Stored : ~(offers[j].token = o.token /\ offers[j].client = o.client)
    BY <1>5, <2>4 DEF Replayed
  <2> QED
    BY <1>1, <1>3, <1>5, <2>1, <2>3, <2>4, <2>9, <2>10, PostStep
<1> QED
  BY <1>4, <1>5

\* create_offer's loop.
LEMMA CreateMatchStep ==
    ASSUME IInv, NEW t \in Threads, CreateMatch(t)
    PROVE  IInv'
<1> DEFINE i == th[t].i
<1>1. th[t].pc = "match" /\ tower' = tower /\ now' = now /\ tower = Resting /\ Idle \in Worker
      /\ tower' \in Tower /\ now' \in Times /\ th[t] \in Worker
  BY DEF CreateMatch, Unlocked, IInv, TypeOK, Worker
<1>2. i \in OfferIds /\ th[t].at \in Times
  BY <1>1, WorkerIs
<1>3. TowerSound'
  BY <1>1 DEF TowerSound, Resting
<1>4. CASE Goto(t, Idle) /\ offers' = offers /\ matches' = matches /\ tags' = tags /\ budget' = budget
  <2>1. TypeOK'
    BY <1>4, <1>1, GotoTyped DEF IInv, TypeOK
  <2> QED
    BY <2>1, <1>3, <1>4, QuietStep
<1>5. CASE \E faults \in FaultCounts, done \in BOOLEAN :
             /\ MatchLocked(i, {}, th[t].at, faults, done)
             /\ Faulting(faults)
             /\ Goto(t, IF done /\ offers'[i].status = "open" THEN th[t] ELSE Idle)
  <2>1. PICK faults \in FaultCounts, done \in BOOLEAN :
             /\ MatchLocked(i, {}, th[t].at, faults, done)
             /\ Faulting(faults)
             /\ Goto(t, IF done /\ offers'[i].status = "open" THEN th[t] ELSE Idle)
    BY <1>5
  <2>2. (IF done /\ offers'[i].status = "open" THEN th[t] ELSE Idle) \in Worker
    BY <1>1
  <2>3. th' \in [Threads -> Worker]
    BY <2>1, <2>2, GotoTyped
  <2> QED
    BY <2>1, <2>3, <1>1, <1>2, <1>3, MatchLockedStep
<1> QED
  BY <1>4, <1>5 DEF CreateMatch

\* What take_public and take_private do to the rest of the taker's offer.
LEMMA TakeCleanStep ==
    ASSUME IInv, NEW t \in Threads, TakeClean(t)
    PROVE  IInv'
<1> DEFINE i == th[t].i
<1>1. /\ th[t].pc = "clean" /\ matches' = matches /\ tags' = tags /\ tower' = tower /\ now' = now
      /\ budget' = budget /\ Goto(t, Idle) /\ Idle \in Worker
      /\ offers' = IF offers[i].status = "open" THEN [offers EXCEPT ![i].status = "cancelled"] ELSE offers
      /\ offers \in [OfferIds -> Offer \cup {NoOffer}]
  BY DEF TakeClean, Worker, IInv, TypeOK
<1>2. i \in OfferIds
  BY <1>1, WorkerIs
<1>3. th' \in [Threads -> Worker]
  BY <1>1, GotoTyped
<1>4. TowerSound'
  BY <1>1 DEF IInv, TowerSound
<1>5. CASE offers[i].status # "open"
  <2>1. TypeOK'
    BY <1>1, <1>3, <1>5 DEF IInv, TypeOK
  <2> QED
    BY <2>1, <1>1, <1>4, <1>5, QuietStep
<1>6. CASE offers[i].status = "open"
  <2> DEFINE o == [offers[i] EXCEPT !.status = "cancelled"]
  <2>1. i \in Stored /\ offers[i] \in Offer
    BY <1>2, <1>6, OpenIsStored
  <2>2. o \in Offer
    BY <2>1, OfferRestatused DEF OfferStatus
  <2>3. offers' = [offers EXCEPT ![i] = o]
    BY <1>1, <1>2, <1>6
  <2> HIDE DEF o
  <2>4. offers' \in [OfferIds -> Offer \cup {NoOffer}] /\ offers'[i] = o
        /\ \A l \in OfferIds \ {i} : offers'[l] = offers[l]
    BY <1>1, <1>2, <2>2, <2>3
  <2>5. TypeOK'
    BY <1>1, <1>3, <2>4 DEF IInv, TypeOK
  <2>6. {i} \in SUBSET Stored /\ "cancelled" \in {"cancelled", "expired"}
    BY <2>1
  <2>7. \A l \in {i} : offers[l].status = "open" /\ offers'[l] = [offers[l] EXCEPT !.status = "cancelled"]
    BY <1>6, <2>4 DEF o
  <2> QED
    BY <1>1, <1>4, <2>4, <2>5, <2>6, <2>7, LeavingStep
<1> QED
  BY <1>5, <1>6

\* cancel_offer.
LEMMA CancelOfferStep ==
    ASSUME IInv, NEW i \in Stored, cancel_offer(i)
    PROVE  IInv'
<1>1. /\ matches' = matches /\ tags' = tags /\ th' = th /\ tower' = tower /\ now' = now
      /\ budget' = budget /\ offers[i].status = "open"
      /\ offers' = [offers EXCEPT ![i].status = "cancelled"]
      /\ offers \in [OfferIds -> Offer \cup {NoOffer}] /\ i \in OfferIds
  BY DEF cancel_offer, IInv, TypeOK, Stored
<1>4. TowerSound'
  BY <1>1 DEF IInv, TowerSound
<1> DEFINE o == [offers[i] EXCEPT !.status = "cancelled"]
<1>5. offers[i] \in Offer
  BY <1>1, OpenIsStored
<1>6. o \in Offer
  BY <1>5, OfferRestatused DEF OfferStatus
<1>7. offers' = [offers EXCEPT ![i] = o]
  BY <1>1
<1> HIDE DEF o
<1>8. offers' \in [OfferIds -> Offer \cup {NoOffer}] /\ offers'[i] = o
      /\ \A l \in OfferIds \ {i} : offers'[l] = offers[l]
  BY <1>1, <1>6, <1>7
<1>9. TypeOK'
  BY <1>1, <1>8 DEF IInv, TypeOK
<1>10. {i} \in SUBSET Stored /\ "cancelled" \in {"cancelled", "expired"}
  OBVIOUS
<1>11. \A l \in {i} : offers[l].status = "open" /\ offers'[l] = [offers[l] EXCEPT !.status = "cancelled"]
  BY <1>1, <1>8 DEF o
<1> QED
  BY <1>1, <1>4, <1>8, <1>9, <1>10, <1>11, LeavingStep

\* accept, funded, and a participant's funding found late.
LEMMA ProgressStep ==
    ASSUME IInv, NEW k \in Made, Progress(k) \/ Reinstate(k)
    PROVE  IInv'
<1>1. /\ tower' = tower /\ tower = Resting /\ offers' = offers /\ tags' = tags /\ th' = th /\ now' = now
      /\ budget' = budget
  BY DEF Progress, Reinstate, Unlocked
<1>2. k \in MatchIds /\ matches[k] \in Match /\ matches \in [MatchIds -> Match \cup {NoMatch}]
  BY DEF IInv, TypeOK, Made, NoMatch
<1>3. matches[k].missed \in BOOLEAN /\ (matches[k].missed => matches[k].status = "cancelled")
  BY <1>2 DEF IInv, MatchesFit, Match
<1>4. PICK to \in MatchStatus \ {"none", "cancelled"} :
        /\ matches' = [matches EXCEPT ![k] = [matches[k] EXCEPT !.status = to, !.missed = FALSE]]
        /\ Counts(k)
  <2>1. CASE Progress(k)
    <3>1. matches[k].status \in {"proposed", "accepted", "funded"} /\ matches[k].missed = FALSE
      <4>1. matches[k].status \in {"proposed", "accepted", "funded"}
        BY <2>1 DEF Progress
      <4> QED
        BY <4>1, <1>3
    <3>2. PICK to \in {"accepted", "funded", "closed"} : matches' = [matches EXCEPT ![k].status = to]
      BY <2>1, <3>1 DEF Progress
    <3>3. [matches[k] EXCEPT !.status = to] = [matches[k] EXCEPT !.status = to, !.missed = FALSE]
      BY <3>1, <1>2 DEF Match
    <3>4. matches' = [matches EXCEPT ![k] = [matches[k] EXCEPT !.status = to, !.missed = FALSE]]
      BY <3>2, <3>3, <1>2
    <3>5. to \in MatchStatus \ {"none", "cancelled"} /\ Counts(k)
      BY <3>1 DEF MatchStatus, Counts
    <3> QED
      BY <3>4, <3>5
  <2>2. CASE Reinstate(k)
    <3>1. matches' = [matches EXCEPT ![k] = [matches[k] EXCEPT !.status = "closed", !.missed = FALSE]]
      BY <2>2, <1>2 DEF Reinstate
    <3>2. "closed" \in MatchStatus \ {"none", "cancelled"} /\ Counts(k)
      BY <2>2 DEF MatchStatus, Counts, Reinstate
    <3> QED
      BY <3>1, <3>2
  <2> QED
    BY <2>1, <2>2
<1> DEFINE n == [matches[k] EXCEPT !.status = to, !.missed = FALSE]
<1>5. n \in Match /\ MatchKept(matches[k], n) /\ n.status = to /\ n.missed = FALSE
  <2>1. n \in Match
    BY <1>2 DEF Match
  <2>2. n.status = to /\ n.missed = FALSE
    BY <1>2 DEF Match
  <2>3. MatchKept(matches[k], n)
    BY <1>2 DEF Match, MatchKept
  <2> QED
    BY <2>1, <2>2, <2>3
<1> HIDE DEF n
<1>6. /\ matches' \in [MatchIds -> Match \cup {NoMatch}]
      /\ matches'[k] = n /\ \A l \in MatchIds \ {k} : matches'[l] = matches[l]
  <2>1. matches' = [matches EXCEPT ![k] = n]
    BY <1>4 DEF n
  <2> QED
    BY <2>1, <1>2, <1>5
<1>7. TypeOK' /\ TowerSound'
  BY <1>1, <1>6 DEF IInv, TypeOK, TowerSound, Resting
<1>8. MatchKept(matches[k], matches'[k]) /\ Live(k)' /\ ~matches'[k].missed
  BY <1>5, <1>6 DEF Live
<1> QED
  BY <1>1, <1>4, <1>6, <1>7, <1>8, MatchStep

\* decline.
LEMMA DeclineStep ==
    ASSUME IInv, NEW k \in Made, on_decline(k)
    PROVE  IInv'
<1>1. /\ tower' = tower /\ tower = Resting /\ tags' = tags /\ th' = th /\ now' = now
      /\ matches[k].status \in {"proposed", "accepted", "funded"}
      /\ Cancel(k, "cancel", "reopen", FALSE) \/ Cancel(k, "reopen", "cancel", FALSE)
  BY DEF on_decline, Unlocked
<1>2. th' \in [Threads -> Worker] /\ tower' \in Tower /\ now' \in Times /\ TowerSound' /\ FALSE \in BOOLEAN
  BY <1>1 DEF IInv, TypeOK, TowerSound, Resting
<1>3. CASE Cancel(k, "cancel", "reopen", FALSE)
  BY <1>1, <1>2, <1>3, CancelStep
<1>4. CASE Cancel(k, "reopen", "cancel", FALSE)
  BY <1>1, <1>2, <1>4, CancelStep
<1> QED
  BY <1>1, <1>3, <1>4

\* tick collects the matches that are past a deadline.
LEMMA TickStartStep ==
    ASSUME IInv, TickStart
    PROVE  IInv'
<1>1. /\ offers' = offers /\ matches' = matches /\ tags' = tags /\ th' = th /\ now' = now /\ budget' = budget
  BY DEF TickStart
<1>2. PICK lapsed \in SUBSET {k \in Made : Lapsing(k)} :
        tower' = [pass |-> "deadlines", left |-> lapsed \cup {k \in Made : Overdue(k)}]
  BY DEF TickStart
<1>3. tower' \in Tower
  BY <1>2 DEF Tower, Made
<1>4. TypeOK'
  BY <1>1, <1>3 DEF IInv, TypeOK
<1>5. TowerSound'
  BY <1>1, <1>2 DEF TowerSound, Lapsing, Overdue
<1> QED
  BY <1>1, <1>4, <1>5, QuietStep

\* tick_match.
LEMMA TickMatchStep ==
    ASSUME IInv, tick_match
    PROVE  IInv'
<1>1. PICK k \in tower.left :
         /\ CASE matches[k].status = "proposed" -> Cancel(k, "reopen", "reopen", FALSE)
              [] matches[k].status = "accepted" -> Cancel(k, "cancel", "reopen", FALSE)
              [] matches[k].status = "funded" -> Cancel(k, "cancel", "cancel", TRUE)
         /\ tower' = [tower EXCEPT !.left = @ \ {k}]
  BY DEF tick_match
<1>2. /\ tower.pass = "deadlines" /\ tags' = tags /\ th' = th /\ now' = now
      /\ tower \in Tower /\ matches[k].status \in {"proposed", "accepted", "funded"}
  BY <1>1 DEF tick_match, IInv, TypeOK, TowerSound
<1>3. tower \in [pass : {"deadlines"}, left : SUBSET MatchIds]
  BY <1>2 DEF Tower
<1>4. k \in Made /\ k \in MatchIds
  BY <1>1, <1>2, <1>3 DEF Made
<1>5. tower' \in Tower /\ tower'.left = tower.left \ {k}
  BY <1>1, <1>3 DEF Tower
<1>6. th' \in [Threads -> Worker] /\ now' \in Times /\ TRUE \in BOOLEAN /\ FALSE \in BOOLEAN
  BY <1>2 DEF IInv, TypeOK
\* The cancellation touches no other match of the pass.
<1>7. ASSUME NEW first \in {"reopen", "cancel"}, NEW second \in {"reopen", "cancel"},
             NEW missed \in BOOLEAN, Cancel(k, first, second, missed)
      PROVE  TowerSound'
  <2>1. \A l \in MatchIds \ {k} : matches'[l] = matches[l]
    BY <1>4, <1>7, CancelEffects
  <2>2. \A l \in tower.left \ {k} : l \in MatchIds \ {k} /\ matches[l].status \in {"proposed", "accepted", "funded"}
    BY <1>2, <1>3 DEF IInv, TowerSound
  <2> QED
    BY <2>1, <2>2, <1>5 DEF TowerSound
<1>8. CASE matches[k].status = "proposed"
  <2>1. Cancel(k, "reopen", "reopen", FALSE)
    BY <1>1, <1>8
  <2>2. TowerSound'
    BY <2>1, <1>6, <1>7
  <2> QED
    BY <2>1, <2>2, <1>2, <1>4, <1>5, <1>6, CancelStep
<1>9. CASE matches[k].status = "accepted"
  <2>1. Cancel(k, "cancel", "reopen", FALSE)
    BY <1>1, <1>9
  <2>2. TowerSound'
    BY <2>1, <1>6, <1>7
  <2> QED
    BY <2>1, <2>2, <1>2, <1>4, <1>5, <1>6, CancelStep
<1>10. CASE matches[k].status = "funded"
  <2>1. Cancel(k, "cancel", "cancel", TRUE)
    BY <1>1, <1>10
  <2>2. TowerSound'
    BY <2>1, <1>6, <1>7
  <2> QED
    BY <2>1, <2>2, <1>2, <1>4, <1>5, <1>6, CancelStep
<1> QED
  BY <1>2, <1>8, <1>9, <1>10

\* Expiry at the end of a tick.
LEMMA TickExpireStep ==
    ASSUME IInv, TickExpire
    PROVE  IInv'
<1>1. /\ matches' = matches /\ tags' = tags /\ th' = th /\ now' = now /\ budget' = budget
      /\ tower' = Resting
      /\ offers' = [i \in OfferIds |-> IF i \in Expiring THEN [offers[i] EXCEPT !.status = "expired"]
                                                         ELSE offers[i]]
  BY DEF TickExpire
<1>2. Expiring \in SUBSET Stored /\ \A i \in Expiring : offers[i].status = "open" /\ i \in OfferIds
  BY DEF Expiring, Stored
<1>3. \A i \in Expiring : offers'[i] = [offers[i] EXCEPT !.status = "expired"] /\ offers'[i] \in Offer
  <2> TAKE i \in Expiring
  <2>1. offers[i] \in Offer /\ offers'[i] = [offers[i] EXCEPT !.status = "expired"]
    BY <1>1, <1>2, OpenIsStored
  <2> QED
    BY <2>1, OfferRestatused DEF OfferStatus
<1>4. \A i \in OfferIds \ Expiring : offers'[i] = offers[i] /\ offers[i] \in Offer \cup {NoOffer}
  BY <1>1 DEF IInv, TypeOK
<1>5. offers' \in [OfferIds -> Offer \cup {NoOffer}]
  <2>1. \A i \in OfferIds : offers'[i] \in Offer \cup {NoOffer}
    BY <1>3, <1>4
  <2>2. offers' = [i \in OfferIds |-> offers'[i]]
    BY <1>1
  <2> QED
    BY <2>1, <2>2
<1>6. TypeOK' /\ TowerSound'
  BY <1>1, <1>5 DEF IInv, TypeOK, Tower, TowerSound, Resting
<1>7. "expired" \in {"cancelled", "expired"}
  OBVIOUS
<1> QED
  BY <1>1, <1>2, <1>3, <1>4, <1>6, <1>7, LeavingStep

\* rematch collects the offers that cross.
LEMMA RematchStartStep ==
    ASSUME IInv, RematchStart
    PROVE  IInv'
<1>1. /\ offers' = offers /\ matches' = matches /\ tags' = tags /\ th' = th /\ now' = now /\ budget' = budget
      /\ tower' = [pass |-> "rematch", left |-> Crossing]
  BY DEF RematchStart
<1>2. tower' \in Tower
  BY <1>1 DEF Tower, Crossing, Stored
<1>3. TypeOK' /\ TowerSound'
  BY <1>1, <1>2 DEF IInv, TypeOK, TowerSound
<1> QED
  BY <1>1, <1>3, QuietStep

\* One offer of rematch's pass.
LEMMA RematchOneStep ==
    ASSUME IInv, RematchOne
    PROVE  IInv'
<1>1. PICK i \in tower.left :
         /\ \/ offers' = offers /\ matches' = matches /\ tags' = tags /\ budget' = budget
            \/ \E faults \in FaultCounts, done \in BOOLEAN :
                 MatchLocked(i, CancelledPairs, now, faults, done) /\ Faulting(faults)
         /\ tower' = IF tower.left = {i} THEN Resting ELSE [tower EXCEPT !.left = @ \ {i}]
  BY DEF RematchOne
<1>2. tower.pass = "rematch" /\ th' = th /\ now' = now /\ tower \in Tower
  BY DEF RematchOne, IInv, TypeOK
<1>3. tower \in [pass : {"rematch"}, left : SUBSET OfferIds]
  BY <1>2 DEF Tower
<1>4. tower' \in Tower /\ tower'.pass # "deadlines"
  BY <1>1, <1>3 DEF Tower, Resting
<1>5. TowerSound' /\ i \in OfferIds /\ th' \in [Threads -> Worker] /\ now' \in Times /\ now \in Times
  BY <1>1, <1>2, <1>3, <1>4 DEF TowerSound, IInv, TypeOK
<1>6. CASE offers' = offers /\ matches' = matches /\ tags' = tags /\ budget' = budget
  <2>1. TypeOK'
    BY <1>4, <1>5, <1>6 DEF IInv, TypeOK
  <2> QED
    BY <2>1, <1>5, <1>6, QuietStep
<1>7. CASE \E faults \in FaultCounts, done \in BOOLEAN :
             MatchLocked(i, CancelledPairs, now, faults, done) /\ Faulting(faults)
  <2>1. PICK faults \in FaultCounts, done \in BOOLEAN :
          MatchLocked(i, CancelledPairs, now, faults, done) /\ Faulting(faults)
    BY <1>7
  <2> QED
    BY <2>1, <1>4, <1>5, MatchLockedStep
<1> QED
  BY <1>1, <1>6, <1>7

\* Time passes.
LEMMA ClockStep ==
    ASSUME IInv, Tick
    PROVE  IInv'
<1>1. /\ offers' = offers /\ matches' = matches /\ tags' = tags /\ th' = th /\ tower' = tower
      /\ budget' = budget /\ now' = now + 1 /\ now < MaxTime
  BY DEF Tick
<1>2. now' \in Times
  BY <1>1, OfferBookConstants DEF IInv, TypeOK, Times
<1>3. TypeOK' /\ TowerSound'
  BY <1>1, <1>2 DEF IInv, TypeOK, TowerSound
<1> QED
  BY <1>1, <1>3, QuietStep

-----------------------------------------------------------------------------
(* The invariant and what follows from it                                  *)

\* An empty book.
LEMMA InitHolds ==
    ASSUME Init
    PROVE  IInv
<1>1. Stored = {} /\ Made = {}
  BY DEF Init, Stored, Made, NoOffer, NoMatch
<1>2. TypeOK
  BY OfferBookConstants DEF Init, TypeOK, Times, Worker, Tower, Resting
<1>3. TowerSound
  BY DEF Init, TowerSound, Resting
<1> QED
  BY <1>1, <1>2, <1>3
     DEF IInv, NamesItsMatch, NamesLiveMatch, MatchesFit, TagsKept, WithinLimits, PostedOnce, BooksBalance

\* Every step of the book keeps the invariant.
LEMMA NextKeeps ==
    ASSUME IInv, [Next]_vars
    PROVE  IInv'
<1>1. ASSUME NEW t \in Threads, Serve(t) PROVE IInv'
  <2>1. ASSUME NEW r \in Requests, CreateCheck(t, r) PROVE IInv'
    BY <2>1, CreateCheckStep
  <2>2. ASSUME NEW r \in Requests, NEW j \in Stored, TakeCheck(t, r, j) \/ CodeCheck(t, r, j) PROVE IInv'
    BY <2>2, TakeCheckStep
  <2>3. CASE CreateInsert(t)
    BY <2>3, CreateInsertStep
  <2>4. CASE CreateMatch(t)
    BY <2>4, CreateMatchStep
  <2>5. CASE TakePair(t)
    BY <2>5, TakePairStep
  <2>6. CASE TakeClean(t)
    BY <2>6, TakeCleanStep
  <2> QED
    BY <1>1, <2>1, <2>2, <2>3, <2>4, <2>5, <2>6 DEF Serve
<1>2. ASSUME NEW i \in Stored, cancel_offer(i) PROVE IInv'
  BY <1>2, CancelOfferStep
<1>3. ASSUME NEW k \in Made, Progress(k) \/ Reinstate(k) PROVE IInv'
  BY <1>3, ProgressStep
<1>4. ASSUME NEW k \in Made, on_decline(k) PROVE IInv'
  BY <1>4, DeclineStep
<1>5. CASE TickStart
  BY <1>5, TickStartStep
<1>6. CASE tick_match
  BY <1>6, TickMatchStep
<1>7. CASE TickExpire
  BY <1>7, TickExpireStep
<1>8. CASE RematchStart
  BY <1>8, RematchStartStep
<1>9. CASE RematchOne
  BY <1>9, RematchOneStep
<1>10. CASE Tick
  BY <1>10, ClockStep
<1>11. CASE UNCHANGED vars
  <2>1. /\ offers' = offers /\ matches' = matches /\ tags' = tags /\ th' = th /\ tower' = tower
        /\ now' = now /\ budget' = budget
    BY <1>11 DEF vars
  <2>2. TypeOK' /\ TowerSound'
    BY <2>1 DEF IInv, TypeOK, TowerSound
  <2> QED
    BY <2>1, <2>2, QuietStep
<1> QED
  BY <1>1, <1>2, <1>3, <1>4, <1>5, <1>6, <1>7, <1>8, <1>9, <1>10, <1>11 DEF Next

\* The inductive invariant holds of every run of the book, whatever requests
\* are sent, writes fail and matches come to.
THEOREM Invariance == Spec => []IInv
<1>1. Init => IInv
  BY InitHolds
<1>2. IInv /\ [Next]_vars => IInv'
  BY NextKeeps
<1> QED
  BY <1>1, <1>2, PTL DEF Spec

\* Live matches hold no more than what is owed.
LEMMA HeldIsOwed ==
    ASSUME IInv, NEW i \in Stored
    PROVE  Held(i) \in Int /\ Owed(i) \in Int /\ Held(i) <= Owed(i)
<1> DEFINE h == [k \in MatchIds |->
                   CASE Live(k) /\ matches[k].init = i -> matches[k].xbt
                     [] Live(k) /\ matches[k].part = i -> matches[k].btc
                     [] OTHER -> 0]
<1>1. Held(i) = SumFunctionOnSet(h, MatchIds)
  BY DEF Held, SumFunction
<1>2. \A k \in MatchIds : h[k] \in Int /\ Shares(i)[k] \in Int /\ h[k] <= Shares(i)[k]
  <2> TAKE k \in MatchIds
  <2>1. Share(i, k) \in Nat /\ Shares(i)[k] = Share(i, k)
    BY ShareNat DEF IInv, Shares
  <2>2. CASE ~Live(k)
    BY <2>1, <2>2
  <2>3. CASE Live(k)
    <3>1. Counts(k) /\ k \in Made
      BY <2>3 DEF Live, Counts, Made
    <3>2. matches[k].init # matches[k].part
      BY <3>1 DEF IInv, MatchesFit
    <3>3. h[k] = Share(i, k)
      BY <2>3, <3>1, <3>2 DEF Share
    <3> QED
      BY <3>3, <2>1
  <2> QED
    BY <2>2, <2>3
<1> HIDE DEF h
<1> QED
  BY <1>1, <1>2, MatchIdsFinite, SumInt, SumMonotone DEF Owed

\* Every amount, price, status, thread and pass has its type: no amount of an
\* offer goes below zero (settle).
THEOREM TypeCorrect == Spec => []TypeOK
<1>1. IInv => TypeOK
  BY DEF IInv
<1> QED
  BY <1>1, Invariance, PTL

\* Posting again with the same client_id makes no second offer (create_offer
\* looks again under the lock).
THEOREM PostedAtMostOnce == Spec => []PostedOnce
<1>1. IInv => PostedOnce
  BY DEF IInv
<1> QED
  BY <1>1, Invariance, PTL

\* A match is within both offers' limits and the size limits, at the price and
\* in whole sats, also when a write of it failed or was refused (pair).
THEOREM LimitsRespected == Spec => []WithinLimits
<1>1. IInv => WithinLimits
  BY DEF IInv
<1> QED
  BY <1>1, Invariance, PTL

\* As long as no write failed, an offer is off the book only for a match that
\* is not cancelled and that names it (settle, release).
THEOREM OffBookForLiveMatch == Spec => [](budget.faults = 0 => HeldByLiveMatch)
<1>1. ASSUME IInv, budget.faults = 0 PROVE HeldByLiveMatch
  BY <1>1 DEF IInv, NamesItsMatch, NamesLiveMatch, HeldByLiveMatch
<1>2. IInv => (budget.faults = 0 => HeldByLiveMatch)
  BY <1>1
<1> QED
  BY <1>2, Invariance, PTL

\* As long as no write failed and none was refused for its tag, what is on the
\* book of an offer and what its live matches hold is no more than was posted
\* (settle, release, reinstate).
THEOREM NothingOversold == Spec => [](budget.faults = 0 /\ Written => NeverOversold)
<1>1. ASSUME IInv, budget.faults = 0, Written PROVE NeverOversold
  <2> SUFFICES ASSUME NEW i \in Stored
               PROVE  Held(i) + (IF offers[i].status = "open" THEN offers[i].amount ELSE 0) <= offers[i].posted
    BY DEF NeverOversold
  <2>1. Held(i) \in Int /\ Owed(i) \in Int /\ Held(i) <= Owed(i)
    BY <1>1, HeldIsOwed
  <2>2. Owed(i) + Rest(i) <= offers[i].posted
    BY <1>1 DEF IInv, BooksBalance
  <2>3. Rest(i) \in Nat /\ (offers[i].status = "open" => Rest(i) = offers[i].amount)
    BY <1>1, RestNat DEF Rest
  <2>4. offers[i].posted \in Nat
    BY <1>1 DEF IInv, TypeOK, Stored, NoOffer, Offer
  <2>5. CASE offers[i].status = "open"
    BY <2>1, <2>2, <2>3, <2>4, <2>5
  <2>6. CASE offers[i].status # "open"
    BY <2>1, <2>2, <2>3, <2>4, <2>6
  <2> QED
    BY <2>5, <2>6
<1>2. IInv => (budget.faults = 0 /\ Written => NeverOversold)
  BY <1>1
<1> QED
  BY <1>2, Invariance, PTL

=============================================================================

------------------------------ MODULE Outspend ------------------------------
(***************************************************************************)
(* Who spent one output (crates/fortis-index/src/spends.rs).  The address  *)
(* index does not store swap contracts, so GET /tx/:txid/outspend/:vout is *)
(* answered from the node: its UTXO set, its mempool, what earlier look-ups*)
(* remembered, and else a scan of blocks forward from the funding, a few   *)
(* blocks per request.  Every call of the node sees the chain of its own   *)
(* moment and may fail, several requests for the one output run side by    *)
(* side, and searches for other outputs compete for the same few slots.    *)
(***************************************************************************)
EXTENDS NodeChain

CONSTANTS
    Requests,       \* request threads
    FundsIn(_),     \* block -> whether it holds the funding transaction
    SpenderIn(_),   \* block -> the transaction in it that spends the output, or None
    Spenders,       \* transactions that spend the output
    MaxScan,        \* MAX_SCAN_BLOCKS, 2016
    Budget,         \* SCAN_BUDGET, 50
    MaxSearches,    \* MAX_CONCURRENT_SCANS, 2
    MaxReorgs       \* bound: reorganisations

ASSUME OutspendConstants ==
    /\ {MaxScan, MaxHeight, MaxReorgs} \subseteq Nat
    /\ Budget \in Nat \ {0} /\ MaxSearches \in Nat \ {0}
    /\ FirstChain \in Seq({0, 1}) /\ FirstChain # <<>> /\ Len(FirstChain) <= MaxHeight + 1
    /\ \A n \in 0..MaxHeight + 1 : \A b \in [1..n -> {0, 1}] : SpenderIn(b) \in Spenders \cup {None}
    /\ None \notin Requests /\ None \notin Seq({0, 1})

VARIABLES
    pool,       \* the spender in the node's mempool, or None
    reorgs,
    cache,      \* Spends::cache for the output
    scanning,   \* Spends::scanning: who holds the output's slot, or None
    others,     \* ... and how many slots searches for other outputs hold
    rq          \* request -> [pc, funding, memo, from, at, stop, last, spend, block, answer, seen]

lookupVars == <<node, pool, reorgs, cache, scanning, others, rq>>

-----------------------------------------------------------------------------
(* The node: SpendNode over its JSON-RPC *)

tip == Height(node)

FundedIn(c) == {At(c, h) : h \in {g \in 0..Height(c) : FundsIn(At(c, g))}}
SpentIn(c) == {At(c, h) : h \in {g \in 0..Height(c) : SpenderIn(At(c, g)) # None}}

\* getrawtransaction's blockhash, for the funding and for a spender.
funding_block == IF FundedIn(node) = {} THEN None ELSE CHOOSE b \in FundedIn(node) : TRUE
spend_block(s) == LET held == {b \in SpentIn(node) : SpenderIn(b) = s}
                  IN  IF held = {} THEN None ELSE CHOOSE b \in held : TRUE

\* gettxout with the mempool; getblockheader's height of a main-chain block.
unspent == SpentIn(node) = {} /\ pool = None
node_height_of(b) == IF b # None /\ On(node, b) THEN Height(b) ELSE None

-----------------------------------------------------------------------------
(* What is remembered of the output *)

Spender(s) == [kind |-> "spender", spend |-> s]
Found(s, b) == [kind |-> "found", spend |-> s, block |-> b]
Scanned(h, b) == [kind |-> "scanned", through |-> h, block |-> b]
Exhausted == [kind |-> "exhausted"]

\* An answer: unspent, spent (in a block, or None while in the mempool), pending, out of
\* range, or the node's error.
Spent(s, b) == [is |-> "spent", spend |-> s, block |-> b]
Said(w) == [is |-> w]

Idle == [pc |-> "idle", funding |-> None, memo |-> None, from |-> None, at |-> 0, stop |-> 0,
         last |-> 0, spend |-> None, block |-> None, answer |-> None, seen |-> {}]

\* History: the blocks with a spend on the main chains of a request's time.
Watch(r) == [r EXCEPT !.seen = IF r.pc \in {"idle", "done"} THEN @ ELSE @ \cup SpentIn(node')]

Step(t, f) == rq' = [rq EXCEPT ![t] = f]
Answer(t, a) == Step(t, [Idle EXCEPT !.pc = "done", !.answer = a, !.seen = rq[t].seen])
Free(t) == scanning' = IF scanning = t THEN None ELSE scanning
NodeUnchanged == UNCHANGED <<node, pool, reorgs, others>>

-----------------------------------------------------------------------------
(* Spends::outspend: one action per call of the node, with what follows it until the next *)

\* getrawtransaction: the funding, which names its block.
Ask(t) ==
    /\ rq[t].pc = "idle"
    /\ Step(t, [Idle EXCEPT !.pc = "utxo", !.funding = funding_block, !.seen = SpentIn(node)])
    /\ NodeUnchanged /\ UNCHANGED <<cache, scanning>>

\* gettxout: an output in the UTXO set is unspent.
AskUtxo(t) ==
    /\ rq[t].pc = "utxo"
    /\ IF unspent THEN Answer(t, Said("unspent")) ELSE Step(t, [rq[t] EXCEPT !.pc = "spender"])
    /\ NodeUnchanged /\ UNCHANGED <<cache, scanning>>

ToSearch(t, h) == Step(t, [rq[t] EXCEPT !.pc = "range", !.from = h,
                                        !.memo = None, !.spend = None, !.block = None])

\* The cached clone says what to ask next.
CacheRead(t) ==
    LET to(next, s) == Step(t, [rq[t] EXCEPT !.pc = next, !.memo = cache, !.spend = s])
    IN  CASE cache = None -> ToSearch(t, None)
          [] cache # None /\ cache.kind = "spender" -> to("named", cache.spend)
          [] cache # None /\ cache.kind \in {"found", "scanned"} -> to("recheck", None)
          [] OTHER -> Answer(t, Said("outofrange"))

\* gettxspendingprevout: the mempool's spender; a mined one, if the node has an index of
\* spenders and has built it; none, if it does not know the call. Then the cache.
KnownSpenders == {None, pool} \cup {SpenderIn(b) : b \in SpentIn(node)}
known_spender(t) ==
    /\ rq[t].pc = "spender"
    /\ \E s \in KnownSpenders :
           IF s = None THEN CacheRead(t) ELSE Step(t, [rq[t] EXCEPT !.pc = "named", !.spend = s])
    /\ NodeUnchanged /\ UNCHANGED <<cache, scanning>>

\* spent_by: the spender by its id, which names its block. One the cache named and the node
\* no longer has was replaced: search.
Named(t) ==
    LET s == rq[t].spend
        b == spend_block(s)
    IN  /\ rq[t].pc = "named"
        /\ IF b # None \/ pool = s
           THEN Step(t, [rq[t] EXCEPT !.pc = "placed", !.block = b])
           ELSE IF rq[t].memo = None THEN Answer(t, Said("pending")) ELSE ToSearch(t, None)
        /\ NodeUnchanged /\ UNCHANGED <<cache, scanning>>

\* ... then whether that block is still on the main chain. A spender the node named is
\* remembered as such; one the cache named, as found, and only once mined.
Placed(t) ==
    LET b == IF node_height_of(rq[t].block) = None THEN None ELSE rq[t].block
        s == rq[t].spend
    IN  /\ rq[t].pc = "placed"
        /\ IF rq[t].memo = None THEN Answer(t, Spent(s, b)) /\ cache' = Spender(s)
           ELSE IF b # None THEN Answer(t, Spent(s, b)) /\ cache' = Found(s, b)
           ELSE ToSearch(t, None) /\ UNCHANGED cache
        /\ NodeUnchanged /\ UNCHANGED scanning

\* A found spend counts while its block is on the main chain.
FaultStillMined(c) == TRUE
StillMined(c) == On(node, c.block)

\* A search resumes past the blocks read, if the last of them is on the main chain.
FaultResumeAt(c) == IF node_height_of(c.block) = c.through THEN c.through + 2 ELSE None
ResumeAt(c) == IF node_height_of(c.block) = c.through THEN c.through + 1 ELSE None

\* What earlier look-ups learned counts if its block is still on the main chain.
Recheck(t) ==
    LET c == rq[t].memo
    IN  /\ rq[t].pc = "recheck"
        /\ IF c.kind = "scanned" THEN ToSearch(t, ResumeAt(c))
           ELSE IF StillMined(c) THEN Answer(t, Spent(c.spend, c.block))
           ELSE ToSearch(t, None)
        /\ NodeUnchanged /\ UNCHANGED <<cache, scanning>>

\* getblockheader of the funding's block: where a search begins.
FundedAt(t) ==
    /\ rq[t].pc = "range"
    /\ IF node_height_of(rq[t].funding) = None
       THEN Answer(t, Said("pending"))
       ELSE Step(t, [rq[t] EXCEPT !.pc = "tip"])
    /\ NodeUnchanged /\ UNCHANGED <<cache, scanning>>

\* One search per output at a time, and few of all outputs together.
Running == others + (IF scanning = None THEN 0 ELSE 1)
Busy == scanning # None \/ Running >= MaxSearches

\* getblockcount: the window to search, and what of it this request may read. Then claim
\* the output's slot, or be refused at once.
Claim(t) ==
    LET base == Height(rq[t].funding)
        from == IF rq[t].from = None THEN base ELSE rq[t].from
        last == IF tip < base + MaxScan THEN tip ELSE base + MaxScan
        stop == IF last < from + Budget - 1 THEN last ELSE from + Budget - 1
    IN  /\ rq[t].pc = "tip"
        /\ IF from = base /\ tip > base + MaxScan
           THEN Answer(t, Said("outofrange")) /\ UNCHANGED scanning
           ELSE IF Busy
           THEN Answer(t, Said("pending")) /\ UNCHANGED scanning
           ELSE /\ scanning' = t
                /\ Step(t, [rq[t] EXCEPT !.pc = "scan", !.from = None, !.at = from,
                                         !.stop = stop, !.last = last])
        /\ NodeUnchanged /\ UNCHANGED cache

\* block(height): the main-chain block of the moment. A reorganised node may have none.
ScanBlock(t) ==
    LET h == rq[t].at
        s == SpenderIn(At(node, h))
    IN  /\ rq[t].pc = "scan" /\ h <= rq[t].stop /\ h <= tip
        /\ IF s # None
           THEN /\ cache' = Found(s, At(node, h))
                /\ Answer(t, Spent(s, At(node, h))) /\ Free(t)
           ELSE /\ cache' = Scanned(h, At(node, h))
                /\ Step(t, [rq[t] EXCEPT !.at = h + 1]) /\ UNCHANGED scanning
        /\ NodeUnchanged

\* The budget is used up, the window ends, or the tip is reached.
ScanEnds(t) ==
    /\ rq[t].pc = "scan" /\ rq[t].at > rq[t].stop
    /\ IF rq[t].stop >= rq[t].last /\ rq[t].last = Height(rq[t].funding) + MaxScan
       THEN cache' = Exhausted /\ Answer(t, Said("outofrange"))
       ELSE Answer(t, Said("pending")) /\ UNCHANGED cache
    /\ Free(t)
    /\ NodeUnchanged

\* A call fails: the request ends with the error, but for a spender the cache named.
Calls == {"utxo", "spender", "named", "placed", "recheck", "range", "tip", "scan"}
CallFails(t) ==
    /\ rq[t].pc \in Calls
    /\ IF rq[t].pc \in {"named", "placed"} /\ rq[t].memo # None
       THEN ToSearch(t, None) /\ UNCHANGED scanning
       ELSE Answer(t, Said("failed")) /\ Free(t)
    /\ NodeUnchanged /\ UNCHANGED cache

Reply(t) ==
    /\ rq[t].pc = "done"
    /\ Step(t, Idle)
    /\ NodeUnchanged /\ UNCHANGED <<cache, scanning>>

\* remember for other outputs fills the cache: progress goes first, then all.
Evict ==
    /\ cache # None /\ cache' = None
    /\ UNCHANGED <<node, pool, reorgs, scanning, others, rq>>

\* A search for another output takes a slot, or ends.
OtherSearch ==
    /\ \/ Running < MaxSearches /\ others' = others + 1
       \/ others > 0 /\ others' = others - 1
    /\ UNCHANGED <<node, pool, reorgs, cache, scanning, rq>>

-----------------------------------------------------------------------------
(* The node's chain and mempool *)

\* The funding is mined once, and the output spent once, not before it.
Valid(c) ==
    /\ Cardinality(FundedIn(c)) <= 1 /\ Cardinality(SpentIn(c)) <= 1
    /\ \A b \in SpentIn(c) : \E f \in FundedIn(c) : IsPrefix(f, b)

NodeTo(c) ==
    /\ Height(c) <= MaxHeight /\ Valid(c)
    /\ node' = c
    /\ pool' \in {pool, None}
    /\ SpentIn(c) # {} => pool' = None
    /\ rq' = [t \in Requests |-> Watch(rq[t])]
    /\ UNCHANGED <<cache, scanning, others>>

Mine == \E f \in {0, 1} : NodeTo(Append(node, f)) /\ UNCHANGED reorgs

Reorganise ==
    /\ reorgs < MaxReorgs /\ reorgs' = reorgs + 1
    /\ \E k \in 1..tip, f \in {0, 1} :
           LET stem == At(node, tip - k)
           IN  /\ f # node[Len(stem) + 1]
               /\ NodeTo(Append(stem, f) \o [i \in 1..k |-> 0])

Broadcast ==
    /\ pool = None /\ SpentIn(node) = {}
    /\ pool' \in Spenders
    /\ UNCHANGED <<node, reorgs, cache, scanning, others, rq>>

-----------------------------------------------------------------------------
InitLookups ==
    /\ node = FirstChain /\ pool = None /\ reorgs = 0
    /\ cache = None /\ scanning = None /\ others = 0
    /\ rq = [t \in Requests |-> Idle]

Lookup(t) == Ask(t) \/ AskUtxo(t) \/ known_spender(t) \/ Named(t) \/ Placed(t) \/ Recheck(t)
             \/ FundedAt(t) \/ Claim(t) \/ ScanBlock(t) \/ ScanEnds(t) \/ CallFails(t) \/ Reply(t)
NextLookup == Mine \/ Reorganise \/ Broadcast \/ Evict \/ OtherSearch \/ \E t \in Requests : Lookup(t)

LookupSpec == InitLookups /\ [][NextLookup]_lookupVars

\* Phones and the watchtower keep asking, and a request under way goes on; nothing else
\* need happen.
FairLookups == LookupSpec /\ \A t \in Requests : WF_lookupVars(Lookup(t))

-----------------------------------------------------------------------------
(* Properties *)

Branches == Seq({0, 1})
Memory ==
    [kind : {"spender"}, spend : Spenders \cup {None}]
    \cup [kind : {"found"}, spend : Spenders \cup {None}, block : Branches]
    \cup [kind : {"scanned"}, through : Nat, block : Branches]
    \cup [kind : {"exhausted"}]
Answers ==
    [is : {"spent"}, spend : Spenders \cup {None}, block : Branches \cup {None}]
    \cup [is : {"unspent", "pending", "outofrange", "failed"}]
Lookups ==
    [pc : {"idle", "done"} \cup Calls,
     funding : Branches \cup {None}, memo : Memory \cup {None}, from : Nat \cup {None},
     at : Nat, stop : Int, last : Int, spend : Spenders \cup {None},
     block : Branches \cup {None}, answer : Answers \cup {None}, seen : SUBSET Branches]

\* Every variable has its type, the output's slot is held by the request scanning, and the
\* searches of all outputs are never more than MAX_CONCURRENT_SCANS.
LookupsTyped ==
    /\ node \in Branches /\ node # <<>> /\ Len(node) <= MaxHeight + 1
    /\ pool \in Spenders \cup {None}
    /\ reorgs \in 0..MaxReorgs
    /\ cache \in Memory \cup {None}
    /\ others \in Nat /\ Running <= MaxSearches
    /\ rq \in [Requests -> Lookups]
    /\ \A t \in Requests : rq[t].pc = "scan" <=> scanning = t

\* A spend answered as mined was mined, in that block, on a main chain of some moment of
\* the request: never one left by a reorganisation before it (spends.rs, outspend).
SpentWasMined ==
    \A t \in Requests :
        rq[t].pc = "done" /\ rq[t].answer.is = "spent" /\ rq[t].answer.block # None =>
            /\ SpenderIn(rq[t].answer.block) = rq[t].answer.spend
            /\ rq[t].answer.block \in rq[t].seen

\* "Blocks up to and including `through` (hash `hash`) hold no spend": while that block is
\* on the main chain, none of the chain's blocks up to it spends the output.
ScannedHoldNoSpend ==
    cache # None /\ cache.kind = "scanned" /\ On(node, cache.block) =>
        \A h \in 0..cache.through : SpenderIn(At(node, h)) = None

\* The funding's window has not closed yet and the spend is in it.
InWindow == \E f \in FundedIn(node) : SpentIn(node) # {} /\ tip <= Height(f) + MaxScan

\* A spend that stays mined, of a funding still within the window, is answered again and
\* again: resumed scans, a stale cache and the output's own busy slot do not hide it for
\* ever. Said of a chain that only grows, see ScannedHoldNoSpend; of calls that fail and
\* caches that are emptied only finitely often, as each emptied cache starts the search
\* over; and where searches for other outputs do not hold every slot whenever a request
\* claims one, as nobody is queued (spends.rs, outspend, claim, remember).
SpendIsFound ==
    /\ <>[](reorgs = 0 /\ InWindow)
    /\ <>[][~Evict /\ \A t \in Requests : ~CallFails(t)]_lookupVars
    /\ []<>(\E t \in Requests : rq[t].pc = "tip")
           => []<><<\E t \in Requests : Claim(t) /\ others < MaxSearches>>_lookupVars
    => []<>(\E t \in Requests : rq[t].pc = "done" /\ rq[t].answer.is = "spent")

=============================================================================

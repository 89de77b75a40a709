---------------------------- MODULE IndexProofs ----------------------------
(***************************************************************************)
(* The address index, for any chain, number of requests and batch size.    *)
(*                                                                         *)
(* Outspend: an answer that names the block of a spend names one that held *)
(* it on a main chain of some moment of the request.                       *)
(*                                                                         *)
(* IndexSync: what the process sees and what a stop leaves are always the  *)
(* exact index of one chain, a reader's view is of one chain and its       *)
(* answers are its own; only a reorganisation deeper than MAX_REORG_DEPTH, *)
(* or a node that is below the block the index begins at, meets a block    *)
(* without an undo record; and with a node at or above that block none is  *)
(* undone until the node leaves one.                                       *)
(*                                                                         *)
(* The two modules share the node's chain and nothing else: each part uses *)
(* only its own module's assumptions.                                      *)
(***************************************************************************)
EXTENDS IndexSync, Outspend, Sums, SequenceTheorems, TLAPS

-----------------------------------------------------------------------------
(* OUTSPEND: its inductive invariant                                       *)

\* A request under way has seen the spends of the chain of the moment.
SeesNode == \A t \in Requests : rq[t].pc \notin {"idle", "done"} => SpentIn(node) \subseteq rq[t].seen

\* A block that holds the spend s.
HoldsSpend(b, s) == b # <<>> /\ s # None /\ SpenderIn(b) = s

\* What is remembered as found holds the spend.
MemoryInv(m) == m # None /\ m.kind = "found" => HoldsSpend(m.block, m.spend)

\* One request: what it read of the cache, where a search begins, the block its spender was
\* named in, its answer.
RequestInv(r) ==
    /\ MemoryInv(r.memo)
    /\ r.pc = "recheck" => r.memo # None /\ r.memo.kind \in {"found", "scanned"}
    /\ r.funding # <<>> /\ (r.pc = "tip" => r.funding # None)
    /\ r.pc = "placed" /\ r.block # None => HoldsSpend(r.block, r.spend) /\ r.block \in r.seen
    /\ r.pc = "done" /\ r.answer.is = "spent" /\ r.answer.block # None =>
           SpenderIn(r.answer.block) = r.answer.spend /\ r.answer.block \in r.seen

LookupInv == LookupsTyped /\ SeesNode /\ MemoryInv(cache) /\ \A t \in Requests : RequestInv(rq[t])

-----------------------------------------------------------------------------
(* Blocks of the node's chain                                              *)

\* None is no chain.
LEMMA NoneIsNoBlock == None # <<>> /\ None \notin Branches
<1>1. <<>> \in Branches
  BY DEF Branches
<1>2. None \notin Branches
  BY OutspendConstants DEF Branches
<1> QED
  BY <1>1, <1>2

\* The first blocks of a chain are a chain, and a prefix of it.
LEMMA FirstBlocks ==
    ASSUME NEW c \in Branches, NEW h \in Nat, h < Len(c)
    PROVE  /\ SubSeq(c, 1, h + 1) \in Branches /\ Len(SubSeq(c, 1, h + 1)) = h + 1
           /\ IsPrefix(SubSeq(c, 1, h + 1), c)
<1>1. SubSeq(c, 1, h + 1) \in Branches /\ Len(SubSeq(c, 1, h + 1)) = h + 1
  BY DEF Branches
<1>2. SubSeq(SubSeq(c, 1, h + 1), 1, h + 1) = SubSeq(c, 1, h + 1)
  BY <1>1 DEF Branches
<1> QED
  BY <1>1, <1>2 DEF IsPrefix, Branches

\* The blocks of a chain, at their heights, are blocks.
LEMMA BlocksOf ==
    ASSUME NEW c \in Branches, NEW h \in 0..Height(c)
    PROVE  At(c, h) \in Branches /\ At(c, h) # <<>> /\ Len(At(c, h)) = h + 1
<1>1. h \in Nat /\ h < Len(c)
  BY DEF Height, Branches
<1>2. SubSeq(c, 1, h + 1) \in Branches /\ Len(SubSeq(c, 1, h + 1)) = h + 1
  BY <1>1, FirstBlocks
<1> QED
  BY <1>1, <1>2 DEF At, Branches

\* The blocks with the funding and with a spend are blocks.
LEMMA SpentBlocks ==
    ASSUME NEW c \in Branches
    PROVE  /\ FundedIn(c) \subseteq Branches
           /\ SpentIn(c) \subseteq Branches
           /\ \A b \in FundedIn(c) : b # <<>>
           /\ \A b \in SpentIn(c) : b # <<>> /\ SpenderIn(b) # None
<1>1. \A h \in 0..Height(c) : At(c, h) \in Branches /\ At(c, h) # <<>>
  BY BlocksOf
<1> QED
  BY <1>1 DEF FundedIn, SpentIn

\* The block at a height of the node's chain.
LEMMA BlockAt ==
    ASSUME LookupsTyped, NEW h \in Nat, h <= tip
    PROVE  /\ At(node, h) \in Branches /\ At(node, h) # <<>>
           /\ SpenderIn(At(node, h)) \in Spenders \cup {None}
           /\ SpenderIn(At(node, h)) # None => At(node, h) \in SpentIn(node)
<1>1. h < Len(node) /\ node \in Branches /\ Len(node) \in Nat /\ Len(node) <= MaxHeight + 1 /\ h \in 0..Height(node)
  BY DEF LookupsTyped, tip, Height, Branches
<1>2. At(node, h) \in Branches /\ Len(At(node, h)) = h + 1 /\ At(node, h) # <<>>
  BY <1>1, BlocksOf
<1>3. At(node, h) \in [1..h + 1 -> {0, 1}] /\ h + 1 \in 0..MaxHeight + 1
  BY <1>1, <1>2, OutspendConstants DEF Branches
<1>4. SpenderIn(At(node, h)) \in Spenders \cup {None}
  BY <1>3, OutspendConstants
<1>5. SpenderIn(At(node, h)) # None => At(node, h) \in SpentIn(node)
  BY <1>1 DEF SpentIn
<1> QED
  BY <1>2, <1>4, <1>5

\* A block that holds a spend and is on the node's chain is one of its spends.
LEMMA OnChain ==
    ASSUME LookupsTyped, NEW b \in Branches, NEW s, HoldsSpend(b, s), On(node, b)
    PROVE  b \in SpentIn(node)
<1>1. node \in Branches /\ Len(b) \in Nat /\ Len(b) > 0 /\ Len(b) <= Len(node) /\ Len(node) \in Nat
  BY DEF LookupsTyped, On, IsPrefix, HoldsSpend, Branches
<1>2. SubSeq(b, 1, Len(b)) = b
  BY DEF Branches
<1>3. SubSeq(node, 1, Len(b)) = b
  BY <1>2 DEF On, IsPrefix
<1>4. Len(b) - 1 \in 0..Height(node) /\ Len(b) - 1 + 1 = Len(b)
  BY <1>1 DEF Height
<1>5. At(node, Len(b) - 1) = b
  BY <1>3, <1>4 DEF At
<1> QED
  BY <1>4, <1>5 DEF SpentIn, HoldsSpend

-----------------------------------------------------------------------------
(* The steps of a request                                                  *)

\* A request's record and the cache.
LEMMA Types ==
    ASSUME LookupInv, NEW t \in Requests
    PROVE  /\ LookupsTyped /\ rq[t] \in Lookups /\ cache \in Memory \cup {None} /\ pool \in Spenders \cup {None}
           /\ node \in Branches /\ MemoryInv(cache) /\ RequestInv(rq[t])
           /\ rq[t].pc \notin {"idle", "done"} => SpentIn(node) \subseteq rq[t].seen
           /\ rq[t].pc = "scan" <=> scanning = t
BY DEF LookupInv, LookupsTyped, SeesNode

\* A step of a request keeps the invariant if what it knows, answers and remembers is true and
\* the slot is its own while it scans.
LEMMA Looked ==
    ASSUME LookupInv, NEW t \in Requests, NEW f \in Lookups, Step(t, f), NodeUnchanged,
           cache' \in Memory \cup {None}, MemoryInv(cache'), RequestInv(f),
           f.pc \notin {"idle", "done"} => SpentIn(node) \subseteq f.seen,
           f.pc = "scan" <=> scanning' = t,
           \A u \in Requests : u # t => (scanning' = u <=> scanning = u),
           Running' <= MaxSearches
    PROVE  LookupInv'
<1>1. rq' \in [Requests -> Lookups] /\ rq'[t] = f /\ \A u \in Requests : u # t => rq'[u] = rq[u]
  BY DEF LookupInv, LookupsTyped, Step
<1>2. UNCHANGED <<node, pool, reorgs, others>>
  BY DEF NodeUnchanged
<1>3. \A u \in Requests : rq'[u].pc = "scan" <=> scanning' = u
  BY <1>1 DEF LookupInv, LookupsTyped
<1>4. LookupsTyped'
  BY <1>1, <1>2, <1>3 DEF LookupInv, LookupsTyped
<1>5. SpentIn(node') = SpentIn(node)
  BY <1>2
<1>6. \A u \in Requests : rq'[u].pc \notin {"idle", "done"} => SpentIn(node) \subseteq rq'[u].seen
  BY <1>1 DEF LookupInv, SeesNode
<1>7. SeesNode'
  BY <1>5, <1>6 DEF SeesNode
<1>8. \A u \in Requests : RequestInv(rq'[u])
  BY <1>1 DEF LookupInv
<1> QED
  BY <1>4, <1>7, <1>8 DEF LookupInv

\* A slot that is freed or kept leaves the searches as few as they were.
LEMMA Slots ==
    ASSUME LookupInv, NEW t \in Requests, UNCHANGED others,
           Free(t) \/ UNCHANGED scanning
    PROVE  Running' <= MaxSearches
<1>1. others \in Nat /\ MaxSearches \in Nat /\ others' = others
      /\ others + (IF scanning = None THEN 0 ELSE 1) <= MaxSearches
  BY OutspendConstants DEF LookupInv, LookupsTyped, Running
<1>2. scanning' = scanning \/ scanning' = None
  BY DEF Free
<1> QED
  BY <1>1, <1>2 DEF Running

\* A step that only takes the request on to its next call.
LEMMA GoesOn ==
    ASSUME LookupInv, NEW t \in Requests, NEW f \in Lookups, Step(t, f), NodeUnchanged,
           UNCHANGED <<cache, scanning>>, rq[t].pc \notin {"idle", "done", "scan"},
           f.pc \notin {"idle", "done", "scan"}, f.seen = rq[t].seen, RequestInv(f)
    PROVE  LookupInv'
<1>1. cache' = cache /\ scanning' = scanning /\ UNCHANGED others
  BY DEF NodeUnchanged
<1>2. Running' <= MaxSearches
  BY <1>1, Slots
<1>3. cache' \in Memory \cup {None} /\ MemoryInv(cache')
  BY <1>1, Types
<1>4. /\ f.pc \notin {"idle", "done"} => SpentIn(node) \subseteq f.seen
      /\ f.pc = "scan" <=> scanning' = t
      /\ \A u \in Requests : u # t => (scanning' = u <=> scanning = u)
  BY <1>1, Types
<1> QED
  BY <1>2, <1>3, <1>4, Looked

\* An answer is given: of a block seen in the request's time, by a request that frees its slot.
LEMMA Answered ==
    ASSUME LookupInv, NEW t \in Requests, NEW a \in Answers, Answer(t, a), NodeUnchanged,
           rq[t].pc \notin {"idle", "done"},
           a.is = "spent" /\ a.block # None => SpenderIn(a.block) = a.spend /\ a.block \in rq[t].seen,
           cache' \in Memory \cup {None}, MemoryInv(cache'),
           Free(t) \/ (UNCHANGED scanning /\ rq[t].pc # "scan")
    PROVE  LookupInv'
<1> DEFINE f == [Idle EXCEPT !.pc = "done", !.answer = a, !.seen = rq[t].seen]
<1>1. rq[t] \in Lookups /\ (rq[t].pc = "scan" <=> scanning = t)
  BY Types
<1>2. Idle \in Lookups
  BY DEF Idle, Lookups
<1>3. f \in Lookups /\ f.pc = "done" /\ f.answer = a /\ f.seen = rq[t].seen /\ f.memo = None /\ f.funding = None
  BY <1>1, <1>2 DEF Lookups, Idle
<1>4. Step(t, f)
  BY DEF Answer
<1> HIDE DEF f
<1>5. RequestInv(f)
  BY <1>3, NoneIsNoBlock DEF RequestInv, MemoryInv
<1>6. scanning' # t /\ \A u \in Requests : u # t => (scanning' = u <=> scanning = u)
  BY <1>1, OutspendConstants DEF Free
<1>7. Running' <= MaxSearches
  BY Slots DEF NodeUnchanged
<1> QED
  BY <1>3, <1>4, <1>5, <1>6, <1>7, Looked

\* An answer that is no spend has its type.
LEMMA Says ==
    ASSUME NEW w \in {"unspent", "pending", "outofrange", "failed"}
    PROVE  Said(w) \in Answers /\ Said(w).is # "spent"
BY DEF Said, Answers

\* Such an answer, with nothing remembered.
LEMMA SaidOnly ==
    ASSUME LookupInv, NEW t \in Requests, NEW w \in {"unspent", "pending", "outofrange", "failed"},
           Answer(t, Said(w)), NodeUnchanged, UNCHANGED cache,
           rq[t].pc \notin {"idle", "done"},
           Free(t) \/ (UNCHANGED scanning /\ rq[t].pc # "scan")
    PROVE  LookupInv'
<1>1. cache' \in Memory \cup {None} /\ MemoryInv(cache')
  BY Types
<1>2. PICK a \in Answers : a.is # "spent" /\ Answer(t, a)
  BY Says
<1> QED
  BY <1>1, <1>2, Answered

\* Going on to the search, wherever it is to begin, keeps the invariant.
LEMMA Searches ==
    ASSUME LookupInv, NEW t \in Requests, rq[t].pc \notin {"idle", "done", "scan"}, NEW h \in Nat \cup {None},
           ToSearch(t, h), NodeUnchanged, UNCHANGED <<cache, scanning>>
    PROVE  LookupInv'
<1> DEFINE f == [rq[t] EXCEPT !.pc = "range", !.from = h, !.memo = None, !.spend = None, !.block = None]
<1>1. /\ f \in Lookups /\ f.pc = "range" /\ f.seen = rq[t].seen /\ f.memo = None
      /\ f.funding = rq[t].funding
  BY Types DEF Lookups, Calls
<1>2. Step(t, f)
  BY DEF ToSearch
<1> HIDE DEF f
<1>3. RequestInv(f)
  BY <1>1, Types DEF RequestInv, MemoryInv
<1> QED
  BY <1>1, <1>2, <1>3, GoesOn

\* Ask keeps the invariant.
LEMMA ByAsk ==
    ASSUME LookupInv, NEW t \in Requests, Ask(t)
    PROVE  LookupInv'
<1> DEFINE f == [Idle EXCEPT !.pc = "utxo", !.funding = funding_block, !.seen = SpentIn(node)]
<1>1. rq[t].pc = "idle" /\ Step(t, f) /\ NodeUnchanged /\ cache' = cache /\ scanning' = scanning
  BY DEF Ask
<1>2. Idle \in Lookups /\ SpentIn(node) \in SUBSET Branches
  BY Types, SpentBlocks DEF Idle, Lookups
<1>7. funding_block \in Branches \cup {None} /\ funding_block # <<>>
  BY Types, SpentBlocks, NoneIsNoBlock DEF funding_block
<1>3. f \in Lookups /\ f.pc = "utxo" /\ f.seen = SpentIn(node) /\ f.memo = None /\ f.funding = funding_block
  BY <1>2, <1>7 DEF Lookups, Idle, Calls
<1> HIDE DEF f
<1>4. RequestInv(f)
  BY <1>3, <1>7 DEF RequestInv, MemoryInv
<1>5. Running' <= MaxSearches
  BY <1>1, Slots DEF NodeUnchanged
<1>6. cache' \in Memory \cup {None} /\ MemoryInv(cache') /\ scanning' # t
  BY <1>1, Types
<1> QED
  BY <1>1, <1>3, <1>4, <1>5, <1>6, Looked

\* AskUtxo keeps the invariant.
LEMMA ByAskUtxo ==
    ASSUME LookupInv, NEW t \in Requests, AskUtxo(t)
    PROVE  LookupInv'
<1> DEFINE f == [rq[t] EXCEPT !.pc = "spender"]
<1>1. /\ rq[t].pc = "utxo" /\ NodeUnchanged /\ UNCHANGED <<cache, scanning>>
      /\ Answer(t, Said("unspent")) \/ Step(t, f)
  BY DEF AskUtxo
<1>2. CASE Answer(t, Said("unspent"))
  BY <1>1, <1>2, SaidOnly
<1>3. CASE Step(t, f)
  <2>1. f \in Lookups /\ f.pc = "spender" /\ f.seen = rq[t].seen /\ f.memo = rq[t].memo /\ f.funding = rq[t].funding
    BY Types DEF Lookups, Calls
  <2> HIDE DEF f
  <2>2. RequestInv(f)
    BY <1>3, <2>1, Types DEF RequestInv, node_height_of
  <2> QED
    BY <1>1, <1>3, <2>1, <2>2, GoesOn
<1> QED
  BY <1>1, <1>2, <1>3

\* Reading the cache keeps the invariant: a found spend it remembers is one.
LEMMA ByCacheRead ==
    ASSUME LookupInv, NEW t \in Requests, rq[t].pc = "spender", CacheRead(t), NodeUnchanged,
           UNCHANGED <<cache, scanning>>
    PROVE  LookupInv'
<1>1. ASSUME NEW f \in Lookups, Step(t, f), f.pc \in {"named", "recheck"}, f.memo = cache,
             f.seen = rq[t].seen, f.funding = rq[t].funding,
             f.pc = "recheck" => cache # None /\ cache.kind \in {"found", "scanned"}
      PROVE  LookupInv'
  <2>1. RequestInv(f)
    BY <1>1, Types DEF RequestInv
  <2> QED
    BY <1>1, <2>1, GoesOn
<1>2. CASE cache = None
  <2>1. ToSearch(t, None)
    BY <1>2 DEF CacheRead
  <2> QED
    BY <2>1, Searches
<1>3. CASE cache # None /\ cache.kind = "spender"
  <2>1. cache.spend \in Spenders \cup {None}
    BY <1>3, Types DEF Memory
  <2>2. PICK f : f = [rq[t] EXCEPT !.pc = "named", !.memo = cache, !.spend = cache.spend]
    OBVIOUS
  <2>3. Step(t, f)
    BY <1>3, <2>2 DEF CacheRead
  <2>4. f \in Lookups /\ f.pc = "named" /\ f.memo = cache /\ f.seen = rq[t].seen /\ f.funding = rq[t].funding
    BY <2>1, <2>2, Types DEF Lookups, Calls
  <2> QED
    BY <1>1, <2>3, <2>4
<1>4. CASE cache # None /\ cache.kind \in {"found", "scanned"}
  <2>1. PICK f : f = [rq[t] EXCEPT !.pc = "recheck", !.memo = cache, !.spend = None]
    OBVIOUS
  <2>2. Step(t, f)
    BY <1>4, <2>1 DEF CacheRead
  <2>3. f \in Lookups /\ f.pc = "recheck" /\ f.memo = cache /\ f.seen = rq[t].seen /\ f.funding = rq[t].funding
    BY <2>1, Types DEF Lookups, Calls
  <2> QED
    BY <1>1, <1>4, <2>2, <2>3
<1>5. CASE cache # None /\ cache.kind \notin {"spender", "found", "scanned"}
  <2>1. Answer(t, Said("outofrange"))
    BY <1>5 DEF CacheRead
  <2> QED
    BY <2>1, SaidOnly
<1> QED
  BY <1>2, <1>3, <1>4, <1>5

\* known_spender keeps the invariant.
LEMMA ByKnownSpender ==
    ASSUME LookupInv, NEW t \in Requests, known_spender(t)
    PROVE  LookupInv'
<1>1. PICK s \in KnownSpenders :
          IF s = None THEN CacheRead(t) ELSE Step(t, [rq[t] EXCEPT !.pc = "named", !.spend = s])
  BY Zenon DEF known_spender
<1>2. rq[t].pc = "spender" /\ NodeUnchanged /\ UNCHANGED <<cache, scanning>>
  BY DEF known_spender
<1>3. CASE s = None
  BY <1>1, <1>2, <1>3, ByCacheRead
<1>4. CASE s # None
  <2>1. s \in Spenders \cup {None}
    <3>1. \A b \in SpentIn(node) : SpenderIn(b) \in Spenders \cup {None}
      <4>1. \A h \in 0..Height(node) : h \in Nat /\ h <= tip
        BY DEF tip
      <4>2. \A h \in 0..Height(node) : SpenderIn(At(node, h)) \in Spenders \cup {None}
        BY <4>1, Types, BlockAt
      <4> QED
        BY <4>2 DEF SpentIn
    <3> QED
      BY <1>1, <3>1, Types DEF KnownSpenders
  <2> DEFINE f == [rq[t] EXCEPT !.pc = "named", !.spend = s]
  <2>2. f \in Lookups /\ f.pc = "named" /\ f.seen = rq[t].seen /\ f.memo = rq[t].memo /\ f.funding = rq[t].funding
    BY <2>1, Types DEF Lookups, Calls
  <2>3. Step(t, f)
    BY <1>1, <1>4
  <2> HIDE DEF f
  <2>4. RequestInv(f)
    BY <2>2, Types DEF RequestInv
  <2> QED
    BY <1>2, <2>2, <2>3, <2>4, GoesOn
<1> QED
  BY <1>3, <1>4

\* Named keeps the invariant: the block the node names holds the spender, and is seen.
LEMMA ByNamed ==
    ASSUME LookupInv, NEW t \in Requests, Named(t)
    PROVE  LookupInv'
<1>1. PICK b : b = spend_block(rq[t].spend)
  OBVIOUS
<1> DEFINE f == [rq[t] EXCEPT !.pc = "placed", !.block = b]
<1>2. /\ rq[t].pc = "named" /\ NodeUnchanged /\ UNCHANGED <<cache, scanning>>
      /\ \/ Step(t, f) \/ Answer(t, Said("pending")) \/ ToSearch(t, None)
  BY <1>1 DEF Named
<1>3. SpentIn(node) \subseteq rq[t].seen /\ rq[t] \in Lookups /\ RequestInv(rq[t])
  BY <1>2, Types
<1>4. b # None => b \in SpentIn(node) /\ SpenderIn(b) = rq[t].spend
  <2> DEFINE held == {d \in SpentIn(node) : SpenderIn(d) = rq[t].spend}
  <2>1. b = IF held = {} THEN None ELSE CHOOSE d \in held : TRUE
    BY <1>1 DEF spend_block
  <2>2. held # {} => (CHOOSE d \in held : TRUE) \in held
    OBVIOUS
  <2>3. b # None => b \in held
    BY <2>1, <2>2
  <2> QED
    BY <2>3
<1>5. b # None => b \in Branches /\ HoldsSpend(b, rq[t].spend) /\ b \in rq[t].seen
  BY <1>3, <1>4, Types, SpentBlocks DEF HoldsSpend
<1>6. CASE Step(t, f)
  <2>1. /\ f \in Lookups /\ f.pc = "placed" /\ f.seen = rq[t].seen /\ f.memo = rq[t].memo /\ f.funding = rq[t].funding
        /\ f.block = b /\ f.spend = rq[t].spend
    BY <1>3, <1>5 DEF Lookups, Calls
  <2> HIDE DEF f
  <2>2. RequestInv(f)
    BY <1>3, <1>5, <2>1 DEF RequestInv
  <2> QED
    BY <1>2, <1>6, <2>1, <2>2, GoesOn
<1>7. CASE Answer(t, Said("pending"))
  BY <1>2, <1>7, SaidOnly
<1>8. CASE ToSearch(t, None)
  BY <1>2, <1>8, Searches
<1> QED
  BY <1>2, <1>6, <1>7, <1>8

\* Placed keeps the invariant: the block answered and remembered is the one the node named.
LEMMA ByPlaced ==
    ASSUME LookupInv, NEW t \in Requests, Placed(t)
    PROVE  LookupInv'
<1>1. PICK b : b = IF node_height_of(rq[t].block) = None THEN None ELSE rq[t].block
  OBVIOUS
<1>2. PICK s : s = rq[t].spend
  OBVIOUS
<1>3. /\ rq[t].pc = "placed" /\ NodeUnchanged /\ UNCHANGED scanning
      /\ \/ Answer(t, Spent(s, b)) /\ cache' = Spender(s)
         \/ b # None /\ Answer(t, Spent(s, b)) /\ cache' = Found(s, b)
         \/ ToSearch(t, None) /\ UNCHANGED cache
  BY <1>1, <1>2 DEF Placed
<1>4. /\ s \in Spenders \cup {None} /\ b \in Branches \cup {None}
      /\ b # None => HoldsSpend(b, s) /\ b \in rq[t].seen
  <2>1. b \in {None, rq[t].block}
    BY <1>1
  <2> QED
    BY <1>2, <1>3, <2>1, Types DEF RequestInv, Lookups
<1>5. PICK a : a = Spent(s, b)
  OBVIOUS
<1>6. a \in Answers /\ a.spend = s /\ a.block = b
  BY <1>4, <1>5 DEF Spent, Answers
<1>7. a.is = "spent" /\ a.block # None => SpenderIn(a.block) = a.spend /\ a.block \in rq[t].seen
  BY <1>4, <1>6 DEF HoldsSpend
<1>8. CASE Answer(t, Spent(s, b)) /\ cache' = Spender(s)
  <2>1. cache' \in Memory /\ cache'.kind = "spender"
    BY <1>4, <1>8 DEF Spender, Memory
  <2>2. MemoryInv(cache')
    BY <2>1 DEF MemoryInv
  <2> QED
    BY <1>3, <1>5, <1>6, <1>7, <1>8, <2>1, <2>2, Answered
<1>9. CASE b # None /\ Answer(t, Spent(s, b)) /\ cache' = Found(s, b)
  <2>1. cache' \in Memory /\ cache'.block = b /\ cache'.spend = s
    BY <1>4, <1>9 DEF Found, Memory
  <2>2. MemoryInv(cache')
    BY <1>4, <1>9, <2>1 DEF MemoryInv
  <2> QED
    BY <1>3, <1>5, <1>6, <1>7, <1>9, <2>1, <2>2, Answered
<1>10. CASE ToSearch(t, None) /\ UNCHANGED cache
  BY <1>3, <1>10, Searches
<1> QED
  BY <1>3, <1>8, <1>9, <1>10

\* Recheck keeps the invariant: a spend remembered is answered while its block is on the chain.
LEMMA ByRecheck ==
    ASSUME LookupInv, NEW t \in Requests, Recheck(t)
    PROVE  LookupInv'
<1>1. PICK c : c = rq[t].memo
  OBVIOUS
<1>2. /\ rq[t].pc = "recheck" /\ NodeUnchanged /\ UNCHANGED <<cache, scanning>>
      /\ IF c.kind = "scanned" THEN ToSearch(t, ResumeAt(c))
         ELSE IF StillMined(c) THEN Answer(t, Spent(c.spend, c.block))
         ELSE ToSearch(t, None)
  BY <1>1 DEF Recheck
<1>3. c # None /\ c \in Memory /\ c.kind \in {"found", "scanned"} /\ MemoryInv(c) /\ node \in Branches
  BY <1>1, <1>2, Types DEF RequestInv, Lookups
<1>4. CASE c.kind = "scanned"
  <2>1. c.through \in Nat
    BY <1>3, <1>4 DEF Memory
  <2>2. ResumeAt(c) \in Nat \cup {None}
    BY <2>1 DEF ResumeAt
  <2> QED
    BY <1>2, <1>4, <2>2, Searches
<1>5. CASE c.kind = "found" /\ StillMined(c)
  <2>1. c.spend \in Spenders \cup {None} /\ c.block \in Branches /\ HoldsSpend(c.block, c.spend)
    BY <1>3, <1>5 DEF Memory, MemoryInv
  <2>2. c.block \in SpentIn(node)
    BY <1>5, <2>1, OnChain, Types DEF StillMined
  <2>3. c.block \in rq[t].seen
    BY <1>2, <2>2, Types
  <2>4. PICK a : a = Spent(c.spend, c.block)
    OBVIOUS
  <2>5. a \in Answers /\ a.spend = c.spend /\ a.block = c.block /\ Answer(t, a)
    BY <1>2, <1>5, <2>1, <2>4 DEF Spent, Answers
  <2>6. SpenderIn(a.block) = a.spend /\ a.block \in rq[t].seen
    BY <2>1, <2>3, <2>5 DEF HoldsSpend
  <2>7. cache' \in Memory \cup {None} /\ MemoryInv(cache')
    BY <1>2, Types
  <2> QED
    BY <1>2, <2>5, <2>6, <2>7, Answered
<1>6. CASE c.kind = "found" /\ ~StillMined(c)
  BY <1>2, <1>6, Searches
<1> QED
  BY <1>3, <1>4, <1>5, <1>6

\* FundedAt keeps the invariant.
LEMMA ByFundedAt ==
    ASSUME LookupInv, NEW t \in Requests, FundedAt(t)
    PROVE  LookupInv'
<1> DEFINE f == [rq[t] EXCEPT !.pc = "tip"]
<1>1. /\ rq[t].pc = "range" /\ NodeUnchanged /\ UNCHANGED <<cache, scanning>>
      /\ Answer(t, Said("pending")) \/ (node_height_of(rq[t].funding) # None /\ Step(t, f))
  BY DEF FundedAt
<1>2. CASE Answer(t, Said("pending"))
  BY <1>1, <1>2, SaidOnly
<1>3. CASE node_height_of(rq[t].funding) # None /\ Step(t, f)
  <2>1. f \in Lookups /\ f.pc = "tip" /\ f.seen = rq[t].seen /\ f.memo = rq[t].memo /\ f.funding = rq[t].funding
    BY Types DEF Lookups, Calls
  <2> HIDE DEF f
  <2>2. RequestInv(f)
    BY <1>3, <2>1, Types DEF RequestInv, node_height_of
  <2> QED
    BY <1>1, <1>3, <2>1, <2>2, GoesOn
<1> QED
  BY <1>1, <1>2, <1>3

\* Claim keeps the invariant: the slot is taken only when free, and while searches are few.
LEMMA ByClaim ==
    ASSUME LookupInv, NEW t \in Requests, Claim(t)
    PROVE  LookupInv'
<1>1. PICK base : base = Height(rq[t].funding)
  OBVIOUS
<1>2. PICK start : start = IF rq[t].from = None THEN base ELSE rq[t].from
  OBVIOUS
<1>3. PICK last : last = IF tip < base + MaxScan THEN tip ELSE base + MaxScan
  OBVIOUS
<1>4. PICK stop : stop = IF last < start + Budget - 1 THEN last ELSE start + Budget - 1
  OBVIOUS
<1> DEFINE f == [rq[t] EXCEPT !.pc = "scan", !.from = None, !.at = start, !.stop = stop, !.last = last]
<1>5. /\ rq[t].pc = "tip" /\ NodeUnchanged /\ UNCHANGED cache
      /\ \/ Answer(t, Said("outofrange")) /\ UNCHANGED scanning
         \/ Answer(t, Said("pending")) /\ UNCHANGED scanning
         \/ ~Busy /\ scanning' = t /\ Step(t, f)
  BY <1>1, <1>2, <1>3, <1>4 DEF Claim
<1>6. CASE Answer(t, Said("outofrange")) /\ UNCHANGED scanning
  BY <1>5, <1>6, SaidOnly
<1>7. CASE Answer(t, Said("pending")) /\ UNCHANGED scanning
  BY <1>5, <1>7, SaidOnly
<1>8. CASE ~Busy /\ scanning' = t /\ Step(t, f)
  <2>1. rq[t].funding \in Branches /\ rq[t].funding # <<>>
    BY <1>5, Types DEF RequestInv, Lookups
  <2>2. base \in Nat /\ tip \in Int /\ rq[t].from \in Nat \cup {None}
    BY <1>1, <2>1, Types DEF Height, tip, Branches, Lookups
  <2>3. start \in Nat /\ last \in Int
    BY <1>2, <1>3, <2>2, OutspendConstants
  <2>4. stop \in Int
    BY <1>4, <2>3, OutspendConstants
  <2>5. f \in Lookups /\ f.pc = "scan" /\ f.seen = rq[t].seen /\ f.memo = rq[t].memo /\ f.funding = rq[t].funding
    BY <2>3, <2>4, Types DEF Lookups, Calls
  <2> HIDE DEF f
  <2>6. RequestInv(f)
    BY <2>5, Types DEF RequestInv
  <2>7. \A u \in Requests : u # t => (scanning' = u <=> scanning = u)
    BY <1>8, OutspendConstants DEF Busy
  <2>8. Running' <= MaxSearches
    <3>1. others' = others /\ others \in Nat /\ MaxSearches \in Nat
      BY <1>5, OutspendConstants DEF NodeUnchanged, LookupInv, LookupsTyped
    <3>2. scanning = None /\ ~(others >= MaxSearches)
      BY <1>8, <3>1 DEF Busy, Running
    <3>3. Running' \in {others, others + 1}
      BY <3>1 DEF Running
    <3> QED
      BY <3>1, <3>2, <3>3
  <2>9. cache' \in Memory \cup {None} /\ MemoryInv(cache')
    BY <1>5, Types
  <2>10. SpentIn(node) \subseteq f.seen
    BY <1>5, <2>5, Types
  <2> QED
    BY <1>5, <1>8, <2>5, <2>6, <2>7, <2>8, <2>9, <2>10, Looked
<1> QED
  BY <1>5, <1>6, <1>7, <1>8

\* ScanBlock keeps the invariant: the block read is on the chain of the moment.
LEMMA ByScanBlock ==
    ASSUME LookupInv, NEW t \in Requests, ScanBlock(t)
    PROVE  LookupInv'
<1>1. PICK h : h = rq[t].at
  OBVIOUS
<1>2. PICK b : b = At(node, h)
  OBVIOUS
<1>3. PICK s : s = SpenderIn(b)
  OBVIOUS
<1> DEFINE f == [rq[t] EXCEPT !.at = h + 1]
<1>4. /\ rq[t].pc = "scan" /\ NodeUnchanged /\ h <= tip
      /\ \/ s # None /\ cache' = Found(s, b) /\ Answer(t, Spent(s, b)) /\ Free(t)
         \/ cache' = Scanned(h, b) /\ Step(t, f) /\ UNCHANGED scanning
  BY <1>1, <1>2, <1>3 DEF ScanBlock
<1>5. h \in Nat
  BY <1>1, Types DEF Lookups
<1>6. b \in Branches /\ b # <<>> /\ s \in Spenders \cup {None} /\ (s # None => b \in SpentIn(node))
  BY <1>2, <1>3, <1>4, <1>5, Types, BlockAt
<1>7. SpentIn(node) \subseteq rq[t].seen
  BY <1>4, Types
<1>8. CASE s # None /\ cache' = Found(s, b) /\ Answer(t, Spent(s, b)) /\ Free(t)
  <2>1. PICK a : a = Spent(s, b)
    OBVIOUS
  <2>2. a \in Answers /\ a.spend = s /\ a.block = b /\ Answer(t, a)
    BY <1>6, <1>8, <2>1 DEF Spent, Answers
  <2>3. cache' \in Memory /\ cache'.spend = s /\ cache'.block = b
    BY <1>6, <1>8 DEF Found, Memory
  <2>4. MemoryInv(cache')
    BY <1>3, <1>6, <1>8, <2>3 DEF MemoryInv, HoldsSpend
  <2>5. SpenderIn(a.block) = a.spend /\ a.block \in rq[t].seen
    BY <1>3, <1>6, <1>7, <1>8, <2>2
  <2> QED
    BY <1>4, <1>8, <2>2, <2>3, <2>4, <2>5, Answered
<1>9. CASE cache' = Scanned(h, b) /\ Step(t, f) /\ UNCHANGED scanning
  <2>1. cache' \in Memory /\ cache'.kind = "scanned"
    BY <1>5, <1>6, <1>9 DEF Scanned, Memory
  <2>2. MemoryInv(cache')
    BY <2>1 DEF MemoryInv
  <2>3. f \in Lookups /\ f.pc = "scan" /\ f.seen = rq[t].seen /\ f.memo = rq[t].memo /\ f.funding = rq[t].funding
    BY <1>4, <1>5, Types DEF Lookups
  <2> HIDE DEF f
  <2>4. RequestInv(f)
    BY <2>3, Types DEF RequestInv
  <2>5. Running' <= MaxSearches
    BY <1>4, <1>9, Slots DEF NodeUnchanged
  <2>6. scanning' = t /\ scanning' = scanning
    BY <1>4, <1>9, Types
  <2> QED
    BY <1>4, <1>7, <1>9, <2>1, <2>2, <2>3, <2>4, <2>5, <2>6, Looked
<1> QED
  BY <1>4, <1>8, <1>9

\* ScanEnds keeps the invariant.
LEMMA ByScanEnds ==
    ASSUME LookupInv, NEW t \in Requests, ScanEnds(t)
    PROVE  LookupInv'
<1>1. /\ rq[t].pc = "scan" /\ NodeUnchanged /\ Free(t)
      /\ \/ cache' = Exhausted /\ Answer(t, Said("outofrange"))
         \/ Answer(t, Said("pending")) /\ UNCHANGED cache
  BY DEF ScanEnds
<1>2. MemoryInv(cache') /\ cache' \in Memory \cup {None}
  <2>1. Exhausted \in Memory /\ Exhausted.kind = "exhausted"
    BY DEF Exhausted, Memory
  <2>2. MemoryInv(Exhausted)
    BY <2>1 DEF MemoryInv
  <2> QED
    BY <1>1, <2>1, <2>2, Types
<1>3. PICK a \in Answers : a.is # "spent" /\ Answer(t, a)
  BY <1>1, Says
<1> QED
  BY <1>1, <1>2, <1>3, Answered

\* A failed call keeps the invariant.
LEMMA ByCallFails ==
    ASSUME LookupInv, NEW t \in Requests, CallFails(t)
    PROVE  LookupInv'
<1>1. /\ rq[t].pc \notin {"idle", "done"} /\ NodeUnchanged /\ UNCHANGED cache
      /\ \/ rq[t].pc # "scan" /\ ToSearch(t, None) /\ UNCHANGED scanning
         \/ Answer(t, Said("failed")) /\ Free(t)
  BY DEF CallFails, Calls
<1>2. CASE rq[t].pc # "scan" /\ ToSearch(t, None) /\ UNCHANGED scanning
  BY <1>1, <1>2, Searches
<1>3. CASE Answer(t, Said("failed")) /\ Free(t)
  BY <1>1, <1>3, SaidOnly
<1> QED
  BY <1>1, <1>2, <1>3

\* A request that was answered begins anew.
LEMMA ByReply ==
    ASSUME LookupInv, NEW t \in Requests, Reply(t)
    PROVE  LookupInv'
<1>1. rq[t].pc = "done" /\ Step(t, Idle) /\ NodeUnchanged /\ cache' = cache /\ scanning' = scanning
  BY DEF Reply
<1>2. Idle \in Lookups /\ Idle.pc = "idle" /\ Idle.memo = None /\ Idle.funding = None
  BY DEF Idle, Lookups
<1>3. RequestInv(Idle)
  BY <1>2, NoneIsNoBlock DEF RequestInv, MemoryInv
<1>4. Running' <= MaxSearches
  BY <1>1, Slots DEF NodeUnchanged
<1>5. cache' \in Memory \cup {None} /\ MemoryInv(cache') /\ scanning' # t
  BY <1>1, Types
<1> QED
  BY <1>1, <1>2, <1>3, <1>4, <1>5, Looked

-----------------------------------------------------------------------------
(* The node                                                                *)

\* A chain the node moves to is seen by every request under way.
LEMMA Moved ==
    ASSUME LookupInv, NEW c \in Branches, NodeTo(c), c # <<>>, reorgs' \in 0..MaxReorgs
    PROVE  LookupInv'
<1>1. /\ node' = c /\ pool' \in {pool, None} /\ rq' = [t \in Requests |-> Watch(rq[t])]
      /\ Len(c) - 1 <= MaxHeight /\ UNCHANGED <<cache, scanning, others>>
  BY DEF NodeTo, Height
<1>2. SpentIn(node') = SpentIn(c) /\ SpentIn(c) \in SUBSET Branches
  BY <1>1, SpentBlocks
<1>3. ASSUME NEW t \in Requests
      PROVE  /\ rq'[t] \in Lookups /\ rq'[t].pc = rq[t].pc /\ RequestInv(rq'[t])
             /\ rq[t].pc \notin {"idle", "done"} => SpentIn(node') \subseteq rq'[t].seen
  <2>1. PICK more : more = IF rq[t].pc \in {"idle", "done"} THEN rq[t].seen ELSE rq[t].seen \cup SpentIn(c)
    OBVIOUS
  <2>2. rq'[t] = [rq[t] EXCEPT !.seen = more]
    BY <1>1, <1>2, <2>1 DEF Watch
  <2>3. rq[t] \in Lookups /\ RequestInv(rq[t])
    BY Types
  <2>4. more \in SUBSET Branches /\ rq[t].seen \subseteq more
    BY <1>2, <2>1, <2>3 DEF Lookups
  <2>5. /\ rq'[t] \in Lookups /\ rq'[t].seen = more /\ rq'[t].pc = rq[t].pc /\ rq'[t].answer = rq[t].answer
        /\ rq'[t].memo = rq[t].memo /\ rq'[t].funding = rq[t].funding
        /\ rq'[t].block = rq[t].block /\ rq'[t].spend = rq[t].spend
    BY <2>2, <2>3, <2>4 DEF Lookups
  <2>6. RequestInv(rq'[t])
    BY <2>3, <2>4, <2>5 DEF RequestInv
  <2> QED
    BY <1>2, <2>1, <2>5, <2>6
<1>4. rq' \in [Requests -> Lookups]
  BY <1>1, <1>3
<1>5. Len(c) \in Nat
  BY DEF Branches
<1>6. LookupsTyped'
  <2>1. node' \in Branches /\ node' # <<>> /\ Len(node') <= MaxHeight + 1
    BY <1>1, <1>5, OutspendConstants
  <2>2. pool' \in Spenders \cup {None}
    BY <1>1 DEF LookupInv, LookupsTyped
  <2>3. cache' \in Memory \cup {None} /\ others' \in Nat /\ Running' <= MaxSearches
    BY <1>1 DEF LookupInv, LookupsTyped, Running
  <2>4. \A t \in Requests : rq'[t].pc = "scan" <=> scanning' = t
    BY <1>1, <1>3 DEF LookupInv, LookupsTyped
  <2> QED
    BY <1>4, <2>1, <2>2, <2>3, <2>4 DEF LookupsTyped
<1>7. SeesNode'
  BY <1>3 DEF SeesNode
<1>8. MemoryInv(cache')
  BY <1>1 DEF LookupInv
<1> QED
  BY <1>3, <1>6, <1>7, <1>8 DEF LookupInv

\* Mine and Reorganise keep the invariant.
LEMMA ByNodeMove ==
    ASSUME LookupInv, Mine \/ Reorganise
    PROVE  LookupInv'
<1>1. node \in Branches /\ Len(node) \in Nat /\ reorgs \in 0..MaxReorgs /\ MaxReorgs \in Nat
  BY OutspendConstants DEF LookupInv, LookupsTyped, Branches
<1>2. CASE Mine
  <2>1. PICK f \in {0, 1} : NodeTo(Append(node, f)) /\ UNCHANGED reorgs
    BY <1>2 DEF Mine
  <2>2. PICK c : c = Append(node, f)
    OBVIOUS
  <2>3. c \in Branches /\ Len(c) = Len(node) + 1
    BY <1>1, <2>2 DEF Branches
  <2>4. c # <<>> /\ NodeTo(c) /\ reorgs' \in 0..MaxReorgs
    BY <1>1, <2>1, <2>2, <2>3
  <2> QED
    BY <2>3, <2>4, Moved
<1>3. CASE Reorganise
  <2>1. PICK k \in 1..tip, f \in {0, 1} :
            NodeTo(Append(At(node, tip - k), f) \o [i \in 1..k |-> 0])
    BY <1>3 DEF Reorganise
  <2>2. k \in Nat /\ k >= 1 /\ tip - k \in Nat /\ tip - k < Len(node)
    BY <1>1, <2>1 DEF tip, Height
  <2>3. At(node, tip - k) \in Branches /\ Len(At(node, tip - k)) = tip - k + 1
    BY <1>1, <2>2, FirstBlocks DEF At
  <2>4. Append(At(node, tip - k), f) \in Branches /\ Len(Append(At(node, tip - k), f)) = tip - k + 2
    BY <2>1, <2>2, <2>3 DEF Branches
  <2>5. [i \in 1..k |-> 0] \in Branches /\ Len([i \in 1..k |-> 0]) = k
    BY <2>2 DEF Branches
  <2>6. PICK c : c = Append(At(node, tip - k), f) \o [i \in 1..k |-> 0]
    OBVIOUS
  <2>7. c \in Branches /\ Len(c) = tip - k + 2 + k
    BY <2>2, <2>4, <2>5, <2>6 DEF Branches
  <2>8. c # <<>> /\ NodeTo(c)
    <3>1. Len(c) # 0
      BY <2>2, <2>7
    <3> QED
      BY <2>1, <2>6, <3>1
  <2>9. reorgs' \in 0..MaxReorgs
    BY <1>1, <1>3 DEF Reorganise
  <2> QED
    BY <2>7, <2>8, <2>9, Moved
<1> QED
  BY <1>2, <1>3

\* A broadcast, an eviction, another output's search and a step that changes nothing keep the
\* invariant.
LEMMA ByOtherEvent ==
    ASSUME LookupInv, Broadcast \/ Evict \/ OtherSearch \/ UNCHANGED lookupVars
    PROVE  LookupInv'
<1>1. UNCHANGED <<node, reorgs, scanning, rq>> /\ pool' \in Spenders \cup {None} /\ cache' \in {cache, None}
  BY DEF Broadcast, Evict, OtherSearch, lookupVars, LookupInv, LookupsTyped
<1>2. others' \in Nat /\ Running' <= MaxSearches
  <2>1. others \in Nat /\ MaxSearches \in Nat /\ others + (IF scanning = None THEN 0 ELSE 1) <= MaxSearches
    BY OutspendConstants DEF LookupInv, LookupsTyped, Running
  <2>2. \/ others' = others
        \/ others + (IF scanning = None THEN 0 ELSE 1) < MaxSearches /\ others' = others + 1
        \/ others > 0 /\ others' = others - 1
    BY DEF Broadcast, Evict, OtherSearch, lookupVars, Running
  <2>3. Running' = others' + (IF scanning = None THEN 0 ELSE 1)
    BY <1>1 DEF Running
  <2> QED
    BY <2>1, <2>2, <2>3
<1>3. LookupsTyped'
  BY <1>1, <1>2 DEF LookupInv, LookupsTyped
<1>4. SpentIn(node') = SpentIn(node)
  BY <1>1
<1>5. SeesNode'
  BY <1>1, <1>4 DEF LookupInv, SeesNode
<1>6. MemoryInv(cache') /\ \A t \in Requests : RequestInv(rq'[t])
  BY <1>1 DEF LookupInv, MemoryInv
<1> QED
  BY <1>3, <1>5, <1>6 DEF LookupInv

-----------------------------------------------------------------------------
(* The theorems                                                            *)

\* It holds at the start.
LEMMA InitLookupInv ==
    ASSUME InitLookups
    PROVE  LookupInv
<1>1. Idle \in Lookups /\ Idle.pc = "idle" /\ Idle.memo = None /\ Idle.funding = None
  BY DEF Idle, Lookups
<1>2. \A t \in Requests : rq[t] = Idle
  BY DEF InitLookups
<1>3. LookupsTyped
  <2>1. Running <= MaxSearches
    BY OutspendConstants DEF InitLookups, Running
  <2> QED
    BY <1>1, <2>1, OutspendConstants DEF InitLookups, LookupsTyped, Branches
<1>4. RequestInv(Idle) /\ MemoryInv(cache)
  BY <1>1, NoneIsNoBlock DEF RequestInv, MemoryInv, InitLookups
<1> QED
  BY <1>1, <1>2, <1>3, <1>4 DEF LookupInv, SeesNode

\* Every step keeps it.
LEMMA NextLookupInv ==
    ASSUME LookupInv, [NextLookup]_lookupVars
    PROVE  LookupInv'
<1>1. CASE \E t \in Requests : Lookup(t)
  BY <1>1, ByAsk, ByAskUtxo, ByKnownSpender, ByNamed, ByPlaced, ByRecheck, ByFundedAt, ByClaim,
     ByScanBlock, ByScanEnds, ByCallFails, ByReply DEF Lookup
<1>2. CASE Mine \/ Reorganise
  BY <1>2, ByNodeMove
<1>3. CASE Broadcast \/ Evict \/ OtherSearch \/ UNCHANGED lookupVars
  BY <1>3, ByOtherEvent
<1> QED
  BY <1>1, <1>2, <1>3 DEF NextLookup

\* The inductive invariant holds in every state of every run.
THEOREM LookupInvariance == LookupSpec => []LookupInv
BY InitLookupInv, NextLookupInv, PTL DEF LookupSpec

\* Every variable keeps its type, the output's slot is held by the one request that scans, and
\* the searches of all outputs are never more than allowed (spends.rs, outspend, claim).
THEOREM OneScanAtATime == LookupSpec => []LookupsTyped
<1>1. LookupInv => LookupsTyped
  BY DEF LookupInv
<1> QED
  BY <1>1, LookupInvariance, PTL

\* A spend answered as mined was mined, in that block, on a main chain of some moment of the
\* request, through reorganisations, a remembered block and any order of the node's calls.
THEOREM AnswersAreMined == LookupSpec => []SpentWasMined
<1>1. LookupInv => SpentWasMined
  BY DEF LookupInv, RequestInv, SpentWasMined
<1> QED
  BY <1>1, LookupInvariance, PTL

-----------------------------------------------------------------------------
(* INDEXSYNC                                                               *)

-----------------------------------------------------------------------------
(* Chains: a block is the sequence of labels up to it                      *)

\* The chains of any length, the empty one included.
Blocks == Seq(Forks)

\* A chain has at most MaxHeight + 1 blocks.
LEMMA ChainIs ==
    ASSUME NEW c
    PROVE  c \in Chains <=> c \in Blocks /\ 1 <= Len(c) /\ Len(c) <= MaxHeight + 1
<1>1. MaxHeight \in Nat
  BY IndexConstants
<1>2. ASSUME c \in Chains PROVE c \in Blocks /\ 1 <= Len(c) /\ Len(c) <= MaxHeight + 1
  <2>1. PICK n \in 1..MaxHeight + 1 : c \in [1..n -> Forks]
    BY <1>2 DEF Chains
  <2>2. n \in Nat /\ c \in Blocks /\ Len(c) = n
    BY <1>1, <2>1 DEF Blocks
  <2> QED
    BY <1>1, <2>1, <2>2
<1>3. ASSUME c \in Blocks, 1 <= Len(c), Len(c) <= MaxHeight + 1 PROVE c \in Chains
  <2>1. Len(c) \in 1..MaxHeight + 1 /\ c \in [1..Len(c) -> Forks]
    BY <1>1, <1>3 DEF Blocks
  <2> QED
    BY <2>1 DEF Chains
<1> QED
  BY <1>2, <1>3

\* The block at a height of a chain; height -1 stands for no block.
LEMMA AtIs ==
    ASSUME NEW c \in Blocks, NEW h \in Int, -1 <= h, h <= Height(c)
    PROVE  /\ At(c, h) \in Blocks /\ Len(At(c, h)) = h + 1 /\ Height(At(c, h)) = h
           /\ \A i \in 1..h + 1 : At(c, h)[i] = c[i]
BY DEF At, Height, Blocks

\* Two chains are equal if they have the same labels.
LEMMA SameChain ==
    ASSUME NEW c \in Blocks, NEW b \in Blocks, Len(c) = Len(b), \A i \in 1..Len(c) : c[i] = b[i]
    PROVE  c = b
BY DEF Blocks

\* The ancestors of an ancestor are the chain's.
LEMMA AtAt ==
    ASSUME NEW c \in Blocks, NEW g \in Int, NEW h \in Int, -1 <= h, h <= g, g <= Height(c)
    PROVE  At(At(c, g), h) = At(c, h)
<1>1. /\ At(c, g) \in Blocks /\ Height(At(c, g)) = g
      /\ \A i \in 1..g + 1 : At(c, g)[i] = c[i]
  BY AtIs
<1>2. /\ At(c, h) \in Blocks /\ Len(At(c, h)) = h + 1
      /\ \A i \in 1..h + 1 : At(c, h)[i] = c[i]
  BY <1>1, AtIs DEF Height, Blocks
<1>3. /\ At(At(c, g), h) \in Blocks /\ Len(At(At(c, g), h)) = h + 1
      /\ \A i \in 1..h + 1 : At(At(c, g), h)[i] = At(c, g)[i]
  BY <1>1, AtIs
<1>4. \A i \in 1..h + 1 : At(c, g)[i] = c[i]
  BY <1>1
<1> QED
  BY <1>2, <1>3, <1>4, SameChain

\* The last block of a chain is the chain.
LEMMA AtTip ==
    ASSUME NEW c \in Blocks
    PROVE  At(c, Height(c)) = c
<1>1. Height(c) \in Int /\ -1 <= Height(c) /\ Len(c) = Height(c) + 1
  BY DEF Height, Blocks
<1> QED
  BY <1>1, AtIs, SameChain

\* The parent of a block.
LEMMA FrontIs ==
    ASSUME NEW b \in Blocks, b # <<>>
    PROVE  /\ Front(b) = At(b, Height(b) - 1) /\ Front(b) \in Blocks
           /\ Height(b) \in Nat /\ Height(Front(b)) = Height(b) - 1
           /\ \A h \in Int : -1 <= h /\ h < Height(b) => At(b, h) = At(Front(b), h)
<1>1. Len(b) \in Nat /\ Len(b) # 0
  BY DEF Blocks
<1>2. Height(b) \in Nat /\ Front(b) = At(b, Height(b) - 1)
  BY <1>1 DEF Front, At, Height
<1>3. Front(b) \in Blocks /\ Height(Front(b)) = Height(b) - 1
  BY <1>2, AtIs
<1>4. ASSUME NEW h \in Int, -1 <= h, h < Height(b) PROVE At(b, h) = At(Front(b), h)
  <2>1. Height(b) - 1 \in Int /\ h <= Height(b) - 1 /\ Height(b) - 1 <= Height(b)
    BY <1>2, <1>4
  <2> QED
    BY <1>2, <1>4, <2>1, AtAt
<1> QED
  BY <1>2, <1>3, <1>4

\* A block is on a chain if it is the chain's block at its height.
LEMMA OnIs ==
    ASSUME NEW c \in Blocks, NEW b \in Blocks
    PROVE  On(c, b) <=> Height(b) <= Height(c) /\ b = At(c, Height(b))
<1>1. Len(b) \in Nat /\ Len(c) \in Nat /\ Height(b) + 1 = Len(b) /\ Height(c) + 1 = Len(c)
  BY DEF Height, Blocks
<1>2. SubSeq(b, 1, Len(b)) = b
  BY DEF Blocks
<1>3. On(c, b) <=> Len(b) <= Len(c) /\ b = SubSeq(c, 1, Len(b))
  BY <1>2 DEF On, IsPrefix
<1>4. At(c, Height(b)) = SubSeq(c, 1, Len(b))
  BY <1>1 DEF At
<1>5. Len(b) <= Len(c) => Height(b) <= Height(c)
  BY <1>1 DEF Height
<1>6. Height(b) <= Height(c) => Len(b) <= Len(c)
  BY <1>1 DEF Height
<1> QED
  BY <1>3, <1>4, <1>5, <1>6, Zenon

\* A block of a chain of the bounded heights is one too.
LEMMA AtChain ==
    ASSUME NEW c \in Chains, NEW h \in Nat, h <= Height(c)
    PROVE  At(c, h) \in Chains
<1>1. c \in Blocks /\ Len(c) <= MaxHeight + 1 /\ Len(c) \in Nat /\ Height(c) = Len(c) - 1 /\ MaxHeight \in Nat
  BY ChainIs, IndexConstants DEF Height, Blocks
<1>2. At(c, h) \in Blocks /\ Len(At(c, h)) = h + 1
  BY <1>1, AtIs
<1> QED
  BY <1>1, <1>2, ChainIs

-----------------------------------------------------------------------------
(* What a chain's index numbers                                            *)

\* The transactions of all blocks.
Txs == UNION {Range(TxsOf(c)) : c \in Chains}

\* The recursion of FlattenSeq, up to n.
Flattens(seqs, n, f) == f = [i \in 1..n |-> IF i = 1 THEN seqs[i] ELSE f[i - 1] \o seqs[i]]

\* The library's definition, its LET written out.
LEMMA FlattenUnfolds ==
    ASSUME NEW seqs, Len(seqs) # 0
    PROVE  FlattenSeq(seqs) = (CHOOSE f : Flattens(seqs, Len(seqs), f))[Len(seqs)]
BY DEF FlattenSeq, Flattens

\* The recursion has a solution.
LEMMA FlattenExists ==
    ASSUME NEW seqs, NEW n \in Nat
    PROVE  \E f : Flattens(seqs, n, f)
<1> DEFINE Bad == {k \in Nat : ~\E f : Flattens(seqs, k, f)}
<1> SUFFICES ASSUME Bad # {} PROVE FALSE
  OBVIOUS
<1>1. PICK b \in Bad : \A k \in Bad : b <= k
  BY LeastNatural
<1>2. b \in Nat /\ ~\E f : Flattens(seqs, b, f)
  BY <1>1
<1>3. b # 0
  <2>1. Flattens(seqs, 0, [i \in 1..0 |-> seqs[i]])
    BY DEF Flattens
  <2> QED
    BY <1>2, <2>1
<1>4. b - 1 \in Nat /\ b - 1 \notin Bad
  BY <1>1, <1>2, <1>3
<1>5. PICK f : Flattens(seqs, b - 1, f)
  BY <1>4
<1> DEFINE g == [i \in 1..b |-> IF i = 1 THEN seqs[i] ELSE f[i - 1] \o seqs[i]]
<1>6. ASSUME NEW i \in 1..b, i # 1 PROVE g[i - 1] = f[i - 1]
  <2>1. PICK j : j = i - 1
    OBVIOUS
  <2>2. j \in 1..b - 1 /\ j \in 1..b
    BY <1>2, <1>6, <2>1
  <2>3. f[j] = IF j = 1 THEN seqs[j] ELSE f[j - 1] \o seqs[j]
    BY <1>5, <2>2 DEF Flattens
  <2>4. g[j] = IF j = 1 THEN seqs[j] ELSE f[j - 1] \o seqs[j]
    BY <2>2
  <2> QED
    BY <2>1, <2>3, <2>4
<1>7. g = [i \in 1..b |-> IF i = 1 THEN seqs[i] ELSE g[i - 1] \o seqs[i]]
  BY <1>6
<1> HIDE DEF g
<1>8. Flattens(seqs, b, g)
  BY <1>7 DEF Flattens
<1> QED
  BY <1>2, <1>8

\* ... and solutions agree as far as the sequences do.
LEMMA FlattensAgree ==
    ASSUME NEW s, NEW t, NEW n \in Nat, NEW m \in Nat, n <= m, NEW f, NEW g,
           Flattens(s, n, f), Flattens(t, m, g), \A i \in 1..n : s[i] = t[i]
    PROVE  \A i \in 1..n : f[i] = g[i]
<1> DEFINE Odd == {i \in 1..n : f[i] # g[i]}
<1> SUFFICES ASSUME Odd # {} PROVE FALSE
  OBVIOUS
<1>0. Odd \in SUBSET Nat
  OBVIOUS
<1>1. PICK i \in Odd : \A j \in Odd : i <= j
  BY <1>0, LeastNatural
<1>2. i \in 1..n /\ i \in 1..m /\ i \in Nat /\ f[i] # g[i]
  BY <1>1
<1>3. CASE i = 1
  BY <1>2, <1>3 DEF Flattens
<1>4. CASE i # 1
  <2>1. i - 1 \in 1..n /\ ~(i <= i - 1)
    BY <1>2, <1>4
  <2>2. f[i - 1] = g[i - 1]
    BY <1>1, <2>1
  <2>3. f[i] = f[i - 1] \o s[i] /\ g[i] = g[i - 1] \o t[i]
    BY <1>2, <1>4 DEF Flattens
  <2>4. s[i] = t[i]
    BY <1>2
  <2> QED
    BY ONLY <1>2, <2>2, <2>3, <2>4, Zenon
<1> QED
  BY <1>3, <1>4

\* Flattening one more sequence.
LEMMA FlattenMore ==
    ASSUME NEW s, NEW t, NEW n \in Nat, Len(s) = n + 1, Len(t) = n, \A i \in 1..n : s[i] = t[i]
    PROVE  /\ n = 0 => FlattenSeq(s) = s[1]
           /\ n # 0 => FlattenSeq(s) = FlattenSeq(t) \o s[n + 1]
<1>1. Flattens(s, n + 1, CHOOSE f : Flattens(s, n + 1, f))
  <2>1. n + 1 \in Nat
    OBVIOUS
  <2>2. \E f : Flattens(s, n + 1, f)
    BY <2>1, FlattenExists
  <2> QED
    BY ONLY <2>2, Zenon
<1>2. PICK f : Flattens(s, n + 1, f) /\ FlattenSeq(s) = f[n + 1]
  BY <1>1, FlattenUnfolds
<1>3. ASSUME n = 0 PROVE FlattenSeq(s) = s[1]
  BY <1>2, <1>3 DEF Flattens
<1>4. ASSUME n # 0 PROVE FlattenSeq(s) = FlattenSeq(t) \o s[n + 1]
  <2>1. Flattens(t, n, CHOOSE g : Flattens(t, n, g))
    <3>1. \E g : Flattens(t, n, g)
      BY FlattenExists
    <3> QED
      BY ONLY <3>1, Zenon
  <2>2. PICK g : Flattens(t, n, g) /\ FlattenSeq(t) = g[n]
    BY <1>4, <2>1, FlattenUnfolds
  <2>3. \A i \in 1..n : t[i] = s[i]
    OBVIOUS
  <2>4. \A i \in 1..n : g[i] = f[i]
    BY <1>2, <2>2, <2>3, FlattensAgree
  <2>5. g[n] = f[n]
    BY <1>4, <2>4
  <2>6. f[n + 1] = f[n] \o s[n + 1]
    <3>1. PICK k : k = n + 1
      OBVIOUS
    <3>2. k \in 1..n + 1 /\ k # 1 /\ k - 1 = n
      BY <1>4, <3>1
    <3>3. f[k] = f[k - 1] \o s[k]
      BY <1>2, <3>2 DEF Flattens
    <3> QED
      BY <3>1, <3>2, <3>3
  <2> QED
    BY <1>2, <2>2, <2>5, <2>6
<1> QED
  BY <1>3, <1>4

\* The chains that end at the start height or above it, or just below it.
Ground == {c \in Blocks : StartHeight - 1 <= Height(c) /\ Height(c) <= MaxHeight}

\* Such a chain with a block the index has.
LEMMA GroundIs ==
    ASSUME NEW c \in Ground
    PROVE  /\ c \in Blocks /\ Height(c) \in Int /\ StartHeight - 1 <= Height(c) /\ Height(c) <= MaxHeight
           /\ StartHeight \in Nat /\ MaxHeight \in Nat /\ Len(c) = Height(c) + 1
           /\ Height(c) >= StartHeight =>
                 c \in Chains /\ c # <<>> /\ Front(c) \in Ground /\ Height(Front(c)) = Height(c) - 1
<1>1. /\ c \in Blocks /\ Height(c) \in Int /\ StartHeight - 1 <= Height(c) /\ Height(c) <= MaxHeight
      /\ StartHeight \in Nat /\ MaxHeight \in Nat /\ Len(c) = Height(c) + 1
  BY IndexConstants DEF Ground, Blocks, Height
<1>2. ASSUME Height(c) >= StartHeight PROVE c \in Chains /\ c # <<>>
  <2>1. 1 <= Len(c) /\ Len(c) <= MaxHeight + 1 /\ c # <<>>
    BY <1>1, <1>2
  <2> QED
    BY <1>1, <2>1, ChainIs
<1>3. ASSUME Height(c) >= StartHeight PROVE Front(c) \in Ground /\ Height(Front(c)) = Height(c) - 1
  <2>1. Front(c) \in Blocks /\ Height(Front(c)) = Height(c) - 1
    BY <1>1, <1>2, <1>3, FrontIs
  <2> QED
    BY <1>1, <1>3, <2>1 DEF Ground
<1> QED
  BY <1>1, <1>2, <1>3

\* The transactions of a block are a sequence.
LEMMA TxsType ==
    ASSUME NEW c \in Chains
    PROVE  TxsOf(c) \in Seq(Txs) /\ Len(TxsOf(c)) \in Nat
<1>1. TxsOf(c) \in Seq(Range(TxsOf(c))) /\ Range(TxsOf(c)) \subseteq Txs
  BY ValidChains DEF Txs
<1> QED
  BY <1>1, SeqMonotonic, LenProperties

\* Nothing is numbered below the start height.
LEMMA IndexedNone ==
    ASSUME NEW c \in Ground, Height(c) = StartHeight - 1
    PROVE  Indexed(c) = <<>>
<1> DEFINE s == [i \in 1..Height(c) - StartHeight + 1 |-> TxsOf(At(c, StartHeight + i - 1))]
<1>1. Height(c) - StartHeight + 1 = 0
  BY GroundIs
<1>2. s = [i \in 1..0 |-> TxsOf(At(c, StartHeight + i - 1))]
  BY <1>1
<1>3. s = <<>>
  BY <1>2
<1> QED
  BY <1>3 DEF Indexed, FlattenSeq

\* A block's transactions come after its parent's.
LEMMA IndexedNext ==
    ASSUME NEW b \in Ground, Height(b) >= StartHeight, Indexed(Front(b)) \in Seq(Txs)
    PROVE  Indexed(b) = Indexed(Front(b)) \o TxsOf(b)
<1> DEFINE S(c) == [i \in 1..Height(c) - StartHeight + 1 |-> TxsOf(At(c, StartHeight + i - 1))]
           n == Height(b) - StartHeight
<1>1. /\ b \in Blocks /\ b # <<>> /\ b \in Chains /\ n \in Nat /\ StartHeight \in Nat /\ Height(b) \in Int
      /\ Front(b) \in Ground /\ Height(Front(b)) = Height(b) - 1
  BY GroundIs
<1>2. DOMAIN S(b) = 1..n + 1 /\ DOMAIN S(Front(b)) = 1..n
  BY <1>1
<1>3. Len(S(b)) = n + 1 /\ Len(S(Front(b))) = n
  <2>1. S(b) \in [1..n + 1 -> {TxsOf(At(b, StartHeight + i - 1)) : i \in 1..Height(b) - StartHeight + 1}]
    BY <1>2
  <2>2. S(Front(b)) \in [1..n -> {TxsOf(At(Front(b), StartHeight + i - 1)) : i \in 1..Height(Front(b)) - StartHeight + 1}]
    BY <1>2
  <2> HIDE DEF S, n
  <2> QED
    BY <1>1, <2>1, <2>2
<1>4. ASSUME NEW i \in 1..n PROVE S(b)[i] = S(Front(b))[i]
  <2>1. StartHeight + i - 1 \in Int /\ -1 <= StartHeight + i - 1 /\ StartHeight + i - 1 < Height(b)
    BY <1>1
  <2>2. At(b, StartHeight + i - 1) = At(Front(b), StartHeight + i - 1)
    BY <1>1, <2>1, FrontIs
  <2>3. i \in 1..Height(b) - StartHeight + 1 /\ i \in 1..Height(Front(b)) - StartHeight + 1
    BY <1>1
  <2> QED
    BY <2>2, <2>3
<1>5. S(b)[n + 1] = TxsOf(b)
  <2>1. n + 1 \in 1..Height(b) - StartHeight + 1 /\ StartHeight + (n + 1) - 1 = Height(b)
    BY <1>1
  <2>2. S(b)[n + 1] = TxsOf(At(b, Height(b)))
    BY <2>1
  <2> QED
    BY <1>1, <2>2, AtTip
<1>6. Indexed(b) = FlattenSeq(S(b)) /\ Indexed(Front(b)) = FlattenSeq(S(Front(b)))
  BY DEF Indexed
<1> HIDE DEF S, n
<1>7. /\ n = 0 => FlattenSeq(S(b)) = S(b)[1]
      /\ n # 0 => FlattenSeq(S(b)) = FlattenSeq(S(Front(b))) \o S(b)[n + 1]
  BY <1>1, <1>3, <1>4, FlattenMore
<1>8. CASE n = 0
  <2>1. Indexed(b) = TxsOf(b)
    BY <1>5, <1>6, <1>7, <1>8
  <2>2. Indexed(Front(b)) = <<>>
    BY <1>1, <1>8, IndexedNone DEF n
  <2>3. TxsOf(b) \in Seq(Txs)
    BY <1>1, TxsType
  <2>4. <<>> \o TxsOf(b) = TxsOf(b)
    BY <2>3, ConcatEmptySeq
  <2> QED
    BY <2>1, <2>2, <2>4
<1>9. CASE n # 0
  BY <1>5, <1>6, <1>7, <1>9
<1> QED
  BY <1>8, <1>9

\* What is numbered is a sequence of transactions.
LEMMA IndexedType ==
    ASSUME NEW c \in Ground
    PROVE  Indexed(c) \in Seq(Txs)
<1> DEFINE Bad == {n \in Nat : \E x \in Ground : Len(x) = n /\ Indexed(x) \notin Seq(Txs)}
<1>1. Bad \in SUBSET Nat /\ Len(c) \in Nat
  BY DEF Ground, Blocks
<1> SUFFICES ASSUME Bad # {} PROVE FALSE
  BY <1>1
<1>2. PICK n \in Bad : \A k \in Bad : n <= k
  BY <1>1, LeastNatural
<1>3. PICK x \in Ground : Len(x) = n /\ Indexed(x) \notin Seq(Txs)
  BY <1>2
<1>4. /\ Height(x) \in Int /\ StartHeight \in Nat /\ StartHeight - 1 <= Height(x) /\ Len(x) = Height(x) + 1
      /\ Height(x) >= StartHeight =>
             x \in Chains /\ Front(x) \in Ground /\ Height(Front(x)) = Height(x) - 1
  BY <1>3, GroundIs
<1>5. CASE Height(x) = StartHeight - 1
  <2>1. Indexed(x) = <<>>
    BY <1>3, <1>5, IndexedNone
  <2> QED
    BY <1>3, <2>1
<1>6. CASE Height(x) >= StartHeight
  <2>1. Front(x) \in Ground /\ Len(Front(x)) = n - 1 /\ n - 1 \in Nat
    <3> HIDE DEF Bad
    <3>1. Front(x) \in Ground /\ Height(Front(x)) = Height(x) - 1
      BY <1>4, <1>6
    <3>2. Len(Front(x)) = Height(Front(x)) + 1 /\ Len(Front(x)) \in Nat
      BY <3>1, GroundIs DEF Ground, Blocks
    <3> QED
      BY <1>3, <1>4, <3>1, <3>2
  <2>2. n - 1 \notin Bad
    <3> HIDE DEF Bad
    <3> QED
      BY <1>1, <1>2
  <2>3. Indexed(Front(x)) \in Seq(Txs)
    BY <2>1, <2>2
  <2>4. Indexed(x) = Indexed(Front(x)) \o TxsOf(x) /\ TxsOf(x) \in Seq(Txs)
    BY <1>3, <1>4, <1>6, <2>3, IndexedNext, TxsType
  <2> QED
    BY <1>3, <2>3, <2>4, ConcatProperties
<1> QED
  BY <1>4, <1>5, <1>6

\* How many transactions the index of a chain numbers.
NumbersOf(c) == Len(Indexed(c))

\* A block's numbers follow its parent's.
LEMMA IndexedStep ==
    ASSUME NEW b \in Ground, Height(b) >= StartHeight
    PROVE  LET txs == TxsOf(b)
               n == NumbersOf(Front(b))
           IN  /\ n \in Nat /\ Len(txs) \in Nat /\ NumbersOf(b) = n + Len(txs)
               /\ DOMAIN txs = 1..Len(txs) /\ DOMAIN Indexed(b) = 1..n + Len(txs)
               /\ DOMAIN Indexed(Front(b)) = 1..n
               /\ \A i \in 1..n : Indexed(b)[i] = Indexed(Front(b))[i]
               /\ \A i \in 1..Len(txs) : Indexed(b)[n + i] = txs[i]
<1>1. b \in Chains /\ Front(b) \in Ground
  BY GroundIs
<1>2. PICK s, t : s = Indexed(Front(b)) /\ t = TxsOf(b)
  OBVIOUS
<1>3. s \in Seq(Txs) /\ t \in Seq(Txs) /\ Indexed(b) = s \o t
  BY <1>1, <1>2, IndexedType, IndexedNext, TxsType
<1>4. /\ Len(s) \in Nat /\ Len(t) \in Nat /\ Len(s \o t) = Len(s) + Len(t)
      /\ DOMAIN s = 1..Len(s) /\ DOMAIN t = 1..Len(t) /\ DOMAIN (s \o t) = 1..Len(s) + Len(t)
      /\ \A i \in 1..Len(s) : (s \o t)[i] = s[i]
      /\ \A i \in 1..Len(t) : (s \o t)[Len(s) + i] = t[i]
  BY <1>3
<1> QED
  BY <1>2, <1>3, <1>4 DEF NumbersOf

\* The numbers below a chain's count are a natural range.
LEMMA NumbersType ==
    ASSUME NEW c \in Ground
    PROVE  NumbersOf(c) \in Nat /\ DOMAIN Indexed(c) = 1..NumbersOf(c)
BY IndexedType DEF NumbersOf

-----------------------------------------------------------------------------
(* The store of a chain                                                    *)

\* Of a chain: the outputs made and spent; of a block: the same, and its rows.
Made(c) == UNION {FundedKeys(Indexed(c)[i]) : i \in DOMAIN Indexed(c)}
Gone(c) == UNION {Indexed(c)[i].spent : i \in DOMAIN Indexed(c)}
BlockMade(b) == UNION {FundedKeys(TxsOf(b)[i]) : i \in DOMAIN TxsOf(b)}
BlockGone(b) == UNION {TxsOf(b)[i].spent : i \in DOMAIN TxsOf(b)}
Makes(b, k) == \E i \in DOMAIN TxsOf(b) : k \in FundedKeys(TxsOf(b)[i])
RowsAt(tx, n) == {<<p, n>> : p \in Touched(tx)}
BlockRows(b) == UNION {RowsAt(TxsOf(b)[i], NumbersOf(Front(b)) + i - 1) : i \in DOMAIN TxsOf(b)}

\* The rows of a chain's index, of a block's record and of its undo record.
TxidsOf(c) == [n \in 0..NumbersOf(c) - 1 |-> Indexed(c)[n + 1].id]
HistoryOf(c) == UNION {RowsAt(Indexed(c)[i], i - 1) : i \in DOMAIN Indexed(c)}
UtxoOf(c) == [k \in Made(c) \ Gone(c) |-> CHOOSE h \in StartHeight..Height(c) : Makes(At(c, h), k)]
RecordOf(b) == [hash |-> b, first |-> NumbersOf(Front(b)), n |-> Len(TxsOf(b))]
TableOf(c) == [h \in StartHeight..Height(c) |-> RecordOf(At(c, h))]
UndoOf(b) == [first |-> NumbersOf(Front(b)), n |-> Len(TxsOf(b)), history |-> BlockRows(b),
              added |-> BlockMade(b) \ BlockGone(b),
              deleted |-> [k \in BlockGone(b) \cap DOMAIN UtxoOf(Front(b)) |-> UtxoOf(Front(b))[k]]]
TipOf(c) == IF Height(c) >= StartHeight THEN c ELSE None

\* The store whose tip is chain c, with its undo records and its rendered bodies.
StoreOf(c, undo, render) ==
    [blocks |-> TableOf(c), txids |-> TxidsOf(c), history |-> HistoryOf(c), utxo |-> UtxoOf(c),
     undo |-> undo, render |-> render, tip |-> TipOf(c)]

\* What a block adds to the outputs made and spent, and to the history.
LEMMA BlockAdds ==
    ASSUME NEW b \in Ground, Height(b) >= StartHeight
    PROVE  /\ Made(b) = Made(Front(b)) \cup BlockMade(b)
           /\ Gone(b) = Gone(Front(b)) \cup BlockGone(b)
           /\ HistoryOf(b) = HistoryOf(Front(b)) \cup BlockRows(b)
<1>1. PICK txs, n, s, t : txs = TxsOf(b) /\ n = NumbersOf(Front(b)) /\ s = Indexed(b) /\ t = Indexed(Front(b))
  OBVIOUS
<1>2. /\ n \in Nat /\ Len(txs) \in Nat
      /\ DOMAIN txs = 1..Len(txs) /\ DOMAIN s = 1..n + Len(txs) /\ DOMAIN t = 1..n
      /\ \A i \in 1..n : s[i] = t[i]
      /\ \A i \in 1..Len(txs) : s[n + i] = txs[i]
  BY <1>1, IndexedStep
<1>3. \A i \in 1..n : i \in 1..n + Len(txs)
  BY <1>2
<1>4. \A i \in 1..Len(txs) : n + i \in 1..n + Len(txs) /\ n + i - 1 = (n + i) - 1
  BY <1>2
<1>5. \A i \in 1..n + Len(txs) : i \in 1..n \/ \E j \in 1..Len(txs) : i = n + j
  <2> SUFFICES ASSUME NEW i \in 1..n + Len(txs), i \notin 1..n PROVE \E j \in 1..Len(txs) : i = n + j
    OBVIOUS
  <2>1. i - n \in 1..Len(txs) /\ i = n + (i - n)
    BY <1>2
  <2> QED
    BY <2>1
<1>6. Made(b) = Made(Front(b)) \cup BlockMade(b)
  <2>1. ASSUME NEW x \in Made(b) PROVE x \in Made(Front(b)) \cup BlockMade(b)
    <3>1. PICK i \in 1..n + Len(txs) : x \in FundedKeys(s[i])
      BY <1>1, <1>2, <2>1 DEF Made
    <3>2. CASE i \in 1..n
      BY <1>1, <1>2, <3>1, <3>2 DEF Made
    <3>3. ASSUME NEW j \in 1..Len(txs), i = n + j PROVE x \in BlockMade(b)
      BY <1>1, <1>2, <3>1, <3>3 DEF BlockMade
    <3> QED
      BY <1>5, <3>2, <3>3
  <2>2. ASSUME NEW x \in Made(Front(b)) PROVE x \in Made(b)
    <3>1. PICK i \in 1..n : x \in FundedKeys(t[i])
      BY <1>1, <1>2, <2>2 DEF Made
    <3> QED
      BY <1>1, <1>2, <1>3, <3>1 DEF Made
  <2>3. ASSUME NEW x \in BlockMade(b) PROVE x \in Made(b)
    <3>1. PICK j \in 1..Len(txs) : x \in FundedKeys(txs[j])
      BY <1>1, <1>2, <2>3 DEF BlockMade
    <3>2. n + j \in DOMAIN s /\ s[n + j] = txs[j]
      BY <1>2, <1>4
    <3> QED
      BY <1>1, <3>1, <3>2 DEF Made
  <2> QED
    BY <2>1, <2>2, <2>3
<1>7. Gone(b) = Gone(Front(b)) \cup BlockGone(b)
  <2>1. ASSUME NEW x \in Gone(b) PROVE x \in Gone(Front(b)) \cup BlockGone(b)
    <3>1. PICK i \in 1..n + Len(txs) : x \in s[i].spent
      BY <1>1, <1>2, <2>1 DEF Gone
    <3>2. CASE i \in 1..n
      BY <1>1, <1>2, <3>1, <3>2 DEF Gone
    <3>3. ASSUME NEW j \in 1..Len(txs), i = n + j PROVE x \in BlockGone(b)
      BY <1>1, <1>2, <3>1, <3>3 DEF BlockGone
    <3> QED
      BY <1>5, <3>2, <3>3
  <2>2. ASSUME NEW x \in Gone(Front(b)) PROVE x \in Gone(b)
    <3>1. PICK i \in 1..n : x \in t[i].spent
      BY <1>1, <1>2, <2>2 DEF Gone
    <3> QED
      BY <1>1, <1>2, <1>3, <3>1 DEF Gone
  <2>3. ASSUME NEW x \in BlockGone(b) PROVE x \in Gone(b)
    <3>1. PICK j \in 1..Len(txs) : x \in txs[j].spent
      BY <1>1, <1>2, <2>3 DEF BlockGone
    <3>2. n + j \in DOMAIN s /\ s[n + j] = txs[j]
      BY <1>2, <1>4
    <3> QED
      BY <1>1, <3>1, <3>2 DEF Gone
  <2> QED
    BY <2>1, <2>2, <2>3
<1>8. HistoryOf(b) = HistoryOf(Front(b)) \cup BlockRows(b)
  <2>1. ASSUME NEW x \in HistoryOf(b) PROVE x \in HistoryOf(Front(b)) \cup BlockRows(b)
    <3>1. PICK i \in 1..n + Len(txs) : x \in RowsAt(s[i], i - 1)
      BY <1>1, <1>2, <2>1 DEF HistoryOf
    <3>2. CASE i \in 1..n
      BY <1>1, <1>2, <3>1, <3>2 DEF HistoryOf
    <3>3. ASSUME NEW j \in 1..Len(txs), i = n + j PROVE x \in BlockRows(b)
      <4>1. x \in RowsAt(txs[j], n + j - 1)
        BY <1>2, <3>1, <3>3
      <4> QED
        BY <1>1, <1>2, <4>1 DEF BlockRows
    <3> QED
      BY <1>5, <3>2, <3>3
  <2>2. ASSUME NEW x \in HistoryOf(Front(b)) PROVE x \in HistoryOf(b)
    <3>1. PICK i \in 1..n : x \in RowsAt(t[i], i - 1)
      BY <1>1, <1>2, <2>2 DEF HistoryOf
    <3> QED
      BY <1>1, <1>2, <1>3, <3>1 DEF HistoryOf
  <2>3. ASSUME NEW x \in BlockRows(b) PROVE x \in HistoryOf(b)
    <3>1. PICK j \in 1..Len(txs) : x \in RowsAt(txs[j], n + j - 1)
      BY <1>1, <1>2, <2>3 DEF BlockRows
    <3>2. PICK i : i = n + j
      OBVIOUS
    <3>3. i \in DOMAIN s /\ s[i] = txs[j] /\ i - 1 = n + j - 1
      BY <1>2, <1>4, <3>2
    <3> QED
      BY <1>1, <3>1, <3>3 DEF HistoryOf
  <2> QED
    BY <2>1, <2>2, <2>3
<1> QED
  BY <1>6, <1>7, <1>8

\* The outputs of a block are new, unspent before it, and spent in it only after they are made.
LEMMA BlockIsNew ==
    ASSUME NEW b \in Ground, Height(b) >= StartHeight
    PROVE  /\ BlockMade(b) \cap Made(Front(b)) = {}
           /\ BlockMade(b) \cap Gone(Front(b)) = {}
           /\ \A i, j \in DOMAIN TxsOf(b) : FundedKeys(TxsOf(b)[i]) \cap TxsOf(b)[j].spent # {} => i < j
<1>1. PICK txs, n, s, t : txs = TxsOf(b) /\ n = NumbersOf(Front(b)) /\ s = Indexed(b) /\ t = Indexed(Front(b))
  OBVIOUS
<1>2. /\ n \in Nat /\ Len(txs) \in Nat
      /\ DOMAIN txs = 1..Len(txs) /\ DOMAIN s = 1..n + Len(txs) /\ DOMAIN t = 1..n
      /\ \A i \in 1..n : s[i] = t[i]
      /\ \A i \in 1..Len(txs) : s[n + i] = txs[i]
  BY <1>1, IndexedStep
<1>3. b \in Chains
  BY GroundIs
<1>4. /\ \A i, j \in DOMAIN s : FundedKeys(s[i]) \cap FundedKeys(s[j]) # {} => i = j
      /\ \A i, j \in DOMAIN s : FundedKeys(s[i]) \cap s[j].spent # {} => i < j
  BY <1>1, <1>3, ValidChains
<1>5. ASSUME NEW i \in 1..Len(txs), NEW j \in 1..n
      PROVE  n + i \in DOMAIN s /\ j \in DOMAIN s /\ ~(n + i = j) /\ ~(n + i < j)
  BY <1>2
<1>6. ASSUME NEW k \in BlockMade(b), k \in Made(Front(b)) PROVE FALSE
  <2>1. PICK i \in 1..Len(txs) : k \in FundedKeys(txs[i])
    BY <1>1, <1>2, <1>6 DEF BlockMade
  <2>2. PICK j \in 1..n : k \in FundedKeys(t[j])
    BY <1>1, <1>2, <1>6 DEF Made
  <2>3. k \in FundedKeys(s[n + i]) \cap FundedKeys(s[j])
    BY <1>2, <2>1, <2>2
  <2> QED
    BY <1>4, <1>5, <2>3
<1>7. ASSUME NEW k \in BlockMade(b), k \in Gone(Front(b)) PROVE FALSE
  <2>1. PICK i \in 1..Len(txs) : k \in FundedKeys(txs[i])
    BY <1>1, <1>2, <1>7 DEF BlockMade
  <2>2. PICK j \in 1..n : k \in t[j].spent
    BY <1>1, <1>2, <1>7 DEF Gone
  <2>3. k \in FundedKeys(s[n + i]) \cap s[j].spent
    BY <1>2, <2>1, <2>2
  <2> QED
    BY <1>4, <1>5, <2>3
<1>8. ASSUME NEW i \in DOMAIN txs, NEW j \in DOMAIN txs, FundedKeys(txs[i]) \cap txs[j].spent # {} PROVE i < j
  <2>1. n + i \in DOMAIN s /\ n + j \in DOMAIN s /\ s[n + i] = txs[i] /\ s[n + j] = txs[j]
    BY <1>2
  <2>2. n + i < n + j
    BY <1>4, <1>8, <2>1
  <2> QED
    BY <1>2, <2>2
<1> QED
  BY <1>1, <1>6, <1>7, <1>8

\* An output that is made on a chain is made in one of its blocks.
LEMMA MadeSomewhere ==
    ASSUME NEW c \in Ground, NEW k \in Made(c)
    PROVE  \E h \in StartHeight..Height(c) : Makes(At(c, h), k)
<1> DEFINE Bad == {n \in Nat : \E x \in Ground : /\ Len(x) = n /\ k \in Made(x)
                                                 /\ ~\E h \in StartHeight..Height(x) : Makes(At(x, h), k)}
<1>1. Bad \in SUBSET Nat /\ Len(c) \in Nat
  BY DEF Ground, Blocks
<1> SUFFICES ASSUME Bad # {} PROVE FALSE
  BY <1>1
<1>2. PICK n \in Bad : \A m \in Bad : n <= m
  BY <1>1, LeastNatural
<1>3. PICK x \in Ground : /\ Len(x) = n /\ k \in Made(x)
                          /\ ~\E h \in StartHeight..Height(x) : Makes(At(x, h), k)
  BY <1>2
<1>4. /\ x \in Blocks /\ Height(x) \in Int /\ StartHeight \in Nat /\ StartHeight - 1 <= Height(x)
      /\ Len(x) = Height(x) + 1
      /\ Height(x) >= StartHeight =>
             x \in Chains /\ x # <<>> /\ Front(x) \in Ground /\ Height(Front(x)) = Height(x) - 1
  BY <1>3, GroundIs
<1>5. CASE Height(x) = StartHeight - 1
  <2>1. Indexed(x) = <<>>
    BY <1>3, <1>5, IndexedNone
  <2> QED
    BY <1>3, <2>1 DEF Made
<1>6. CASE Height(x) >= StartHeight
  <2>1. Front(x) \in Ground /\ Len(Front(x)) = n - 1 /\ n - 1 \in Nat
    <3> HIDE DEF Bad
    <3>1. Front(x) \in Ground /\ Height(Front(x)) = Height(x) - 1
      BY <1>4, <1>6
    <3>2. Len(Front(x)) = Height(Front(x)) + 1 /\ Len(Front(x)) \in Nat
      BY <3>1, GroundIs DEF Ground, Blocks
    <3> QED
      BY <1>3, <1>4, <3>1, <3>2
  <2>2. n - 1 \notin Bad
    <3> HIDE DEF Bad
    <3> QED
      BY <1>1, <1>2
  <2>3. k \in Made(Front(x)) \/ k \in BlockMade(x)
    BY <1>3, <1>6, BlockAdds
  <2>4. CASE k \in BlockMade(x)
    <3>1. Makes(At(x, Height(x)), k) /\ Height(x) \in StartHeight..Height(x)
      BY <1>4, <1>6, <2>4, AtTip DEF Makes, BlockMade
    <3> QED
      BY <1>3, <3>1
  <2>5. CASE k \in Made(Front(x))
    <3>1. PICK h \in StartHeight..Height(Front(x)) : Makes(At(Front(x), h), k)
      BY <2>1, <2>2, <2>5
    <3>2. h \in Int /\ -1 <= h /\ h < Height(x) /\ h \in StartHeight..Height(x)
      BY <1>4, <1>6, <3>1
    <3>3. At(x, h) = At(Front(x), h)
      BY <1>4, <1>6, <3>2, FrontIs
    <3> QED
      BY <1>3, <3>1, <3>2, <3>3
  <2> QED
    BY <2>3, <2>4, <2>5
<1> QED
  BY <1>4, <1>5, <1>6

\* What a block of a chain makes, the chain makes.
LEMMA MadeByBlock ==
    ASSUME NEW c \in Ground, NEW h \in StartHeight..Height(c), NEW k, Makes(At(c, h), k)
    PROVE  k \in Made(c)
<1> DEFINE Bad == {n \in Nat : \E x \in Ground : /\ Len(x) = n /\ k \notin Made(x)
                                                 /\ \E g \in StartHeight..Height(x) : Makes(At(x, g), k)}
<1>1. Bad \in SUBSET Nat /\ Len(c) \in Nat
  BY DEF Ground, Blocks
<1> SUFFICES ASSUME Bad # {} PROVE FALSE
  BY <1>1
<1>2. PICK n \in Bad : \A m \in Bad : n <= m
  BY <1>1, LeastNatural
<1>3. PICK x \in Ground : /\ Len(x) = n /\ k \notin Made(x)
                          /\ \E g \in StartHeight..Height(x) : Makes(At(x, g), k)
  BY <1>2
<1>4. PICK g \in StartHeight..Height(x) : Makes(At(x, g), k)
  BY <1>3
<1>5. /\ x \in Blocks /\ Height(x) \in Int /\ StartHeight \in Nat /\ g \in Int /\ g <= Height(x) /\ StartHeight <= g
      /\ Len(x) = Height(x) + 1 /\ Height(x) >= StartHeight
  <2>1. x \in Blocks /\ Height(x) \in Int /\ StartHeight \in Nat /\ Len(x) = Height(x) + 1
    BY <1>3, GroundIs
  <2> QED
    BY <1>4, <2>1
<1>6. x \in Chains /\ x # <<>> /\ Front(x) \in Ground /\ Height(Front(x)) = Height(x) - 1
      /\ Len(Front(x)) = n - 1 /\ n - 1 \in Nat
  <2>1. x \in Chains /\ x # <<>> /\ Front(x) \in Ground /\ Height(Front(x)) = Height(x) - 1
    BY <1>3, <1>5, GroundIs
  <2>2. Len(Front(x)) = Height(Front(x)) + 1
    BY <2>1, GroundIs
  <2> QED
    BY <1>3, <1>5, <2>1, <2>2
<1>7. Made(x) = Made(Front(x)) \cup BlockMade(x)
  BY <1>3, <1>5, BlockAdds
<1>8. CASE g = Height(x)
  <2>1. Makes(x, k)
    BY <1>4, <1>5, <1>8, AtTip
  <2> QED
    BY <1>3, <1>7, <2>1 DEF Makes, BlockMade
<1>9. CASE g < Height(x)
  <2>1. At(x, g) = At(Front(x), g) /\ g \in StartHeight..Height(Front(x))
    BY <1>5, <1>6, <1>9, FrontIs
  <2>2. n - 1 \in Bad
    BY <1>3, <1>4, <1>6, <1>7, <2>1
  <2> QED
    BY <1>2, <1>6, <2>2
<1> QED
  BY <1>5, <1>8, <1>9

\* ... in one block only.
LEMMA MadeOnce ==
    ASSUME NEW c \in Ground, NEW h \in StartHeight..Height(c), NEW g \in StartHeight..Height(c),
           NEW k, Makes(At(c, h), k), Makes(At(c, g), k)
    PROVE  h = g
<1>1. ASSUME NEW i \in StartHeight..Height(c), NEW j \in StartHeight..Height(c), i < j,
             Makes(At(c, i), k), Makes(At(c, j), k)
      PROVE  FALSE
  <2>1. c \in Blocks /\ Height(c) \in Int /\ StartHeight \in Nat /\ i \in Int /\ j \in Int
        /\ i <= Height(c) /\ j <= Height(c) /\ StartHeight <= i /\ -1 <= i /\ i <= j /\ Height(c) <= MaxHeight /\ MaxHeight \in Nat
    BY <1>1, GroundIs
  <2>2. PICK b : b = At(c, j)
    OBVIOUS
  <2>3. b \in Blocks /\ Height(b) = j /\ b \in Ground /\ Height(b) >= StartHeight
    BY <1>1, <2>1, <2>2, AtIs DEF Ground
  <2>4. Front(b) \in Ground /\ Height(Front(b)) = j - 1 /\ b # <<>>
    BY <2>3, GroundIs
  <2>5. At(c, i) = At(b, i)
    BY <2>1, <2>2, AtAt
  <2>6. At(b, i) = At(Front(b), i)
    BY <1>1, <2>1, <2>3, <2>4, FrontIs
  <2>7. i \in StartHeight..Height(Front(b))
    BY <1>1, <2>1, <2>4
  <2>8. k \in Made(Front(b))
    BY <1>1, <2>4, <2>5, <2>6, <2>7, MadeByBlock
  <2>9. k \in BlockMade(b)
    BY <1>1, <2>2 DEF Makes, BlockMade
  <2> QED
    BY <2>3, <2>8, <2>9, BlockIsNew
<1>2. h \in Int /\ g \in Int
  OBVIOUS
<1> QED
  BY <1>1, <1>2

\* The unspent outputs after a block.
LEMMA UtxoNext ==
    ASSUME NEW b \in Ground, Height(b) >= StartHeight
    PROVE  /\ DOMAIN UtxoOf(b) = (DOMAIN UtxoOf(Front(b)) \cup BlockMade(b)) \ BlockGone(b)
           /\ \A k \in DOMAIN UtxoOf(b) :
                 UtxoOf(b)[k] = IF k \in BlockMade(b) THEN Height(b) ELSE UtxoOf(Front(b))[k]
<1>1. /\ b \in Blocks /\ b # <<>> /\ Height(b) \in Int /\ StartHeight \in Nat
      /\ Front(b) \in Ground /\ Height(Front(b)) = Height(b) - 1
  BY GroundIs
<1>2. /\ Made(b) = Made(Front(b)) \cup BlockMade(b) /\ Gone(b) = Gone(Front(b)) \cup BlockGone(b)
      /\ BlockMade(b) \cap Made(Front(b)) = {} /\ BlockMade(b) \cap Gone(Front(b)) = {}
  BY BlockAdds, BlockIsNew
<1>3. DOMAIN UtxoOf(b) = Made(b) \ Gone(b) /\ DOMAIN UtxoOf(Front(b)) = Made(Front(b)) \ Gone(Front(b))
  BY DEF UtxoOf
<1>4. DOMAIN UtxoOf(b) = (DOMAIN UtxoOf(Front(b)) \cup BlockMade(b)) \ BlockGone(b)
  BY <1>2, <1>3
<1>5. ASSUME NEW c \in Ground, NEW k \in DOMAIN UtxoOf(c)
      PROVE  UtxoOf(c)[k] \in StartHeight..Height(c) /\ Makes(At(c, UtxoOf(c)[k]), k)
  <2>1. k \in Made(c) \ Gone(c)
    BY <1>5 DEF UtxoOf
  <2>2. \E h \in StartHeight..Height(c) : Makes(At(c, h), k)
    BY <2>1, MadeSomewhere
  <2> QED
    BY <2>1, <2>2 DEF UtxoOf
<1>6. ASSUME NEW k \in DOMAIN UtxoOf(b), k \in BlockMade(b) PROVE UtxoOf(b)[k] = Height(b)
  <2>1. Makes(At(b, Height(b)), k) /\ Height(b) \in StartHeight..Height(b)
    BY <1>1, <1>6, AtTip DEF Makes, BlockMade
  <2> QED
    BY <1>5, <1>6, <2>1, MadeOnce
<1>7. ASSUME NEW k \in DOMAIN UtxoOf(b), k \notin BlockMade(b) PROVE UtxoOf(b)[k] = UtxoOf(Front(b))[k]
  <2>1. k \in DOMAIN UtxoOf(Front(b))
    BY <1>4, <1>7
  <2>2. PICK h \in StartHeight..Height(Front(b)) : h = UtxoOf(Front(b))[k] /\ Makes(At(Front(b), h), k)
    BY <1>1, <1>5, <2>1
  <2>3. h \in StartHeight..Height(b) /\ At(b, h) = At(Front(b), h)
    BY <1>1, <2>2, FrontIs
  <2> QED
    BY <1>5, <1>7, <2>2, <2>3, MadeOnce
<1> QED
  BY <1>4, <1>6, <1>7

-----------------------------------------------------------------------------
(* Db::apply and Db::rollback: from the store of a chain to the store of the next *)

\* Rows added to, or dropped from, a column family.
LEMMA PutIs ==
    ASSUME NEW f, NEW g
    PROVE  /\ DOMAIN Put(f, g) = DOMAIN f \cup DOMAIN g
           /\ \A x \in DOMAIN f \cup DOMAIN g : Put(f, g)[x] = IF x \in DOMAIN g THEN g[x] ELSE f[x]
BY DEF Put

\* Rows dropped.
LEMMA DropIs ==
    ASSUME NEW f, NEW S
    PROVE  /\ DOMAIN Drop(f, S) = DOMAIN f \ S /\ \A x \in DOMAIN f \ S : Drop(f, S)[x] = f[x]
           /\ Drop(f, S) = [x \in DOMAIN f \ S |-> f[x]]
BY DEF Drop

\* One row.
LEMMA RowIs ==
    ASSUME NEW k, NEW v
    PROVE  DOMAIN Row(k, v) = {k} /\ Row(k, v)[k] = v
BY DEF Row

\* What the first i transactions of a block make, spend and touch.
MadeBy(txs, i) == UNION {FundedKeys(txs[j]) : j \in 1..i}
GoneBy(txs, i) == UNION {txs[j].spent : j \in 1..i}
RowsBy(txs, first, i) == UNION {RowsAt(txs[j], first + j - 1) : j \in 1..i}

\* What the first i + 1 transactions make, take and list.
LEMMA ByStep ==
    ASSUME NEW txs, NEW p \in Nat, NEW i, i = p + 1, NEW first \in Nat
    PROVE  /\ MadeBy(txs, i) = MadeBy(txs, p) \cup FundedKeys(txs[i])
           /\ GoneBy(txs, i) = GoneBy(txs, p) \cup txs[i].spent
           /\ RowsBy(txs, first, i) = RowsBy(txs, first, p) \cup RowsAt(txs[i], first + p)
<1>1. 1..i = (1..p) \cup {i} /\ first + i - 1 = first + p
  OBVIOUS
<1>2. MadeBy(txs, i) = MadeBy(txs, p) \cup FundedKeys(txs[i])
  BY <1>1, Zenon DEF MadeBy
<1>3. GoneBy(txs, i) = GoneBy(txs, p) \cup txs[i].spent
  BY <1>1, Zenon DEF GoneBy
<1>4. RowsBy(txs, first, i) = RowsBy(txs, first, p) \cup RowsAt(txs[i], first + p)
  BY <1>1, Zenon DEF RowsBy
<1> QED
  BY <1>2, <1>3, <1>4

\* The batch after i transactions of a block at height h, the first numbered first.
UtxoAfter(d, txs, h, i) ==
    [k \in (DOMAIN d.utxo \cup MadeBy(txs, i)) \ GoneBy(txs, i) |->
        IF k \in MadeBy(txs, i) THEN h ELSE d.utxo[k]]
TxidsAfter(d, txs, first, i) ==
    [n \in DOMAIN d.txids \cup (first..first + i - 1) |->
        IF n \in first..first + i - 1 THEN txs[n - first + 1].id ELSE d.txids[n]]
UndoAfter(d, txs, first, i) ==
    [first |-> first, n |-> Len(txs), history |-> RowsBy(txs, first, i),
     added |-> MadeBy(txs, i) \ GoneBy(txs, i), deleted |-> spent_values(d, txs)]
After(d, txs, first, h, i) ==
    [n |-> first + i, undo |-> UndoAfter(d, txs, first, i),
     db |-> [blocks |-> d.blocks, txids |-> TxidsAfter(d, txs, first, i),
             history |-> d.history \cup RowsBy(txs, first, i), utxo |-> UtxoAfter(d, txs, h, i),
             undo |-> d.undo, render |-> d.render, tip |-> d.tip]]

\* The block's outputs are new, and spent only after they are made.
Fresh(d, txs) ==
    /\ \A i \in 1..Len(txs) : FundedKeys(txs[i]) \cap DOMAIN d.utxo = {}
    /\ \A i, j \in 1..Len(txs) : FundedKeys(txs[i]) \cap txs[j].spent # {} => i < j

\* The numbers of one transaction more.
LEMMA TxidsStep ==
    ASSUME NEW d, NEW txs, NEW first \in Nat, NEW p \in Nat, NEW i, i = p + 1
    PROVE  Put(TxidsAfter(d, txs, first, p), Row(first + p, txs[i].id)) = TxidsAfter(d, txs, first, i)
<1>1. first..first + i - 1 = (first..first + p - 1) \cup {first + p} /\ (first + p) - first + 1 = i
      /\ first + p \notin first..first + p - 1
  OBVIOUS
<1>2. PICK f, g, q, R, L : /\ f = TxidsAfter(d, txs, first, p) /\ q = first + p
                           /\ g = Row(q, txs[i].id) /\ R = TxidsAfter(d, txs, first, i) /\ L = Put(f, g)
  OBVIOUS
<1>3. /\ DOMAIN f = DOMAIN d.txids \cup (first..first + p - 1)
      /\ \A n \in DOMAIN f : f[n] = IF n \in first..first + p - 1 THEN txs[n - first + 1].id ELSE d.txids[n]
  BY <1>2 DEF TxidsAfter
<1>4. /\ DOMAIN R = DOMAIN d.txids \cup (first..first + i - 1)
      /\ \A n \in DOMAIN R : R[n] = IF n \in first..first + i - 1 THEN txs[n - first + 1].id ELSE d.txids[n]
  BY <1>2 DEF TxidsAfter
<1>5. DOMAIN g = {q} /\ g[q] = txs[i].id
  BY <1>2, RowIs
<1>6. /\ DOMAIN L = DOMAIN f \cup {q}
      /\ \A n \in DOMAIN L : L[n] = IF n = q THEN txs[i].id ELSE f[n]
  <2>1. L = Put(f, g)
    BY <1>2
  <2> QED
    BY <1>5, <2>1 DEF Put
<1>7. DOMAIN L = DOMAIN R
  BY <1>1, <1>2, <1>3, <1>4, <1>6
<1>8. ASSUME NEW n \in DOMAIN R PROVE L[n] = R[n]
  <2>1. CASE n = q
    <3>1. n \in first..first + i - 1 /\ n - first + 1 = i
      BY <1>1, <1>2, <2>1
    <3> QED
      BY <1>4, <1>6, <1>7, <1>8, <2>1, <3>1
  <2>2. CASE n # q
    <3>1. (n \in first..first + i - 1) = (n \in first..first + p - 1)
      BY <1>1, <1>2, <2>2
    <3>2. n \in DOMAIN f /\ L[n] = f[n]
      BY <1>6, <1>7, <1>8, <2>2
    <3> QED
      BY <1>3, <1>4, <1>8, <3>1, <3>2
  <2> QED
    BY <2>1, <2>2
<1>9. L = [n \in DOMAIN L |-> L[n]] /\ R = [n \in DOMAIN R |-> R[n]]
  BY <1>2 DEF Put, TxidsAfter
<1>10. L = R
  BY <1>7, <1>8, <1>9
<1> QED
  BY <1>2, <1>10

\* ... and its outputs.
LEMMA UtxoStep ==
    ASSUME NEW d, NEW txs, NEW h, NEW p \in Nat, NEW i, i = p + 1,
           FundedKeys(txs[i]) \cap GoneBy(txs, p) = {}
    PROVE  Drop(Put(UtxoAfter(d, txs, h, p), [k \in FundedKeys(txs[i]) |-> h]), txs[i].spent)
           = UtxoAfter(d, txs, h, i)
<1>1. PICK f, F, g, R, P, L, S :
         /\ f = UtxoAfter(d, txs, h, p) /\ F = FundedKeys(txs[i]) /\ g = [k \in F |-> h] /\ S = txs[i].spent
         /\ R = UtxoAfter(d, txs, h, i) /\ P = Put(f, g) /\ L = Drop(P, S)
  OBVIOUS
<1>2. PICK D, M, G, N, K : /\ D = DOMAIN d.utxo /\ M = MadeBy(txs, p) /\ G = GoneBy(txs, p)
                           /\ N = MadeBy(txs, i) /\ K = GoneBy(txs, i)
  OBVIOUS
<1>3. N = M \cup F /\ K = G \cup S /\ F \cap G = {}
  <2>1. 0 \in Nat
    OBVIOUS
  <2> QED
    BY <1>1, <1>2, <2>1, ByStep
<1>4. DOMAIN f = (D \cup M) \ G /\ \A k \in DOMAIN f : f[k] = IF k \in M THEN h ELSE d.utxo[k]
  BY <1>1, <1>2 DEF UtxoAfter
<1>5. DOMAIN R = (D \cup N) \ K /\ \A k \in DOMAIN R : R[k] = IF k \in N THEN h ELSE d.utxo[k]
  BY <1>1, <1>2 DEF UtxoAfter
<1>6. DOMAIN g = F /\ \A k \in F : g[k] = h
  BY <1>1
<1>7. DOMAIN P = DOMAIN f \cup F /\ \A k \in DOMAIN P : P[k] = IF k \in F THEN h ELSE f[k]
  <2>1. P = Put(f, g)
    BY <1>1
  <2> QED
    BY <1>6, <2>1 DEF Put
<1>8. DOMAIN L = DOMAIN P \ S /\ \A k \in DOMAIN L : L[k] = P[k]
  <2>1. L = Drop(P, S)
    BY <1>1
  <2> QED
    BY <2>1 DEF Drop
<1>9. DOMAIN L = DOMAIN R
  BY <1>3, <1>4, <1>5, <1>7, <1>8
<1>10. ASSUME NEW k \in DOMAIN R PROVE L[k] = R[k]
  BY <1>3, <1>4, <1>5, <1>7, <1>8, <1>9, <1>10
<1>11. L = [n \in DOMAIN L |-> L[n]] /\ R = [n \in DOMAIN R |-> R[n]]
  BY <1>1 DEF Drop, UtxoAfter
<1>12. L = R
  BY <1>9, <1>10, <1>11
<1> QED
  BY <1>1, <1>12

\* One transaction more.
LEMMA TxApplied ==
    ASSUME NEW d, NEW txs, Len(txs) \in Nat, Fresh(d, txs), NEW first \in Nat, NEW h, NEW i \in 1..Len(txs)
    PROVE  ApplyTx(After(d, txs, first, h, i - 1), txs[i], h) = After(d, txs, first, h, i)
<1>0. PICK p \in Nat : p = i - 1
  OBVIOUS
<1> DEFINE tx == txs[i]
           F == FundedKeys(tx)
           acc == After(d, txs, first, h, p)
           added == acc.undo.added \cup F
           again == tx.spent \cap added
           rows == {<<q, acc.n>> : q \in Touched(tx)}
<1>1. i = p + 1 /\ first + p \in Nat
  BY <1>0
<1>2. /\ MadeBy(txs, i) = MadeBy(txs, p) \cup F
      /\ GoneBy(txs, i) = GoneBy(txs, p) \cup tx.spent
      /\ RowsBy(txs, first, i) = RowsBy(txs, first, p) \cup RowsAt(tx, first + p)
  BY <1>0, <1>1, ByStep
<1>3. F \cap GoneBy(txs, p) = {}
  <2> SUFFICES ASSUME NEW k \in F, k \in GoneBy(txs, p) PROVE FALSE
    OBVIOUS
  <2>1. PICK j \in 1..p : k \in txs[j].spent
    BY DEF GoneBy
  <2>2. j \in 1..Len(txs) /\ ~(i < j)
    BY <1>1, <2>1
  <2> QED
    BY <2>1, <2>2 DEF Fresh
<1>4. MadeBy(txs, i) \cap DOMAIN d.utxo = {}
  <2> SUFFICES ASSUME NEW k \in MadeBy(txs, i), k \in DOMAIN d.utxo PROVE FALSE
    OBVIOUS
  <2>1. PICK j \in 1..i : k \in FundedKeys(txs[j])
    BY DEF MadeBy
  <2>2. j \in 1..Len(txs)
    BY <1>1, <2>1
  <2> QED
    BY <2>1, <2>2 DEF Fresh
<1>5. /\ acc.n = first + p /\ acc.undo = UndoAfter(d, txs, first, p)
      /\ acc.undo.added = MadeBy(txs, p) \ GoneBy(txs, p) /\ acc.undo.deleted = spent_values(d, txs)
      /\ acc.undo.history = RowsBy(txs, first, p) /\ acc.undo.first = first /\ acc.undo.n = Len(txs)
      /\ acc.db.txids = TxidsAfter(d, txs, first, p) /\ acc.db.utxo = UtxoAfter(d, txs, h, p)
  BY DEF After, UndoAfter
<1>6. rows = RowsAt(tx, first + p)
  BY <1>5 DEF RowsAt
<1>7. added \ again = MadeBy(txs, i) \ GoneBy(txs, i)
  BY <1>2, <1>3, <1>5
<1>8. Drop(spent_values(d, txs), again) = spent_values(d, txs)
  <2>1. DOMAIN spent_values(d, txs) \subseteq DOMAIN d.utxo
    BY DEF spent_values
  <2>2. again \subseteq MadeBy(txs, i)
    BY <1>2, <1>5
  <2>3. DOMAIN spent_values(d, txs) \ again = DOMAIN spent_values(d, txs)
    BY <1>4, <2>1, <2>2
  <2>4. spent_values(d, txs) = [x \in DOMAIN spent_values(d, txs) |-> spent_values(d, txs)[x]]
    BY DEF spent_values
  <2> QED
    BY <2>3, <2>4 DEF Drop
<1>9. Put(TxidsAfter(d, txs, first, p), Row(first + p, tx.id)) = TxidsAfter(d, txs, first, i)
  BY <1>1, TxidsStep
<1>10. Drop(Put(UtxoAfter(d, txs, h, p), [k \in F |-> h]), tx.spent) = UtxoAfter(d, txs, h, i)
  BY <1>1, <1>3, UtxoStep
<1>11. ApplyTx(acc, tx, h) =
         [n |-> acc.n + 1,
          undo |-> [acc.undo EXCEPT !.history = @ \cup rows, !.added = added \ again, !.deleted = Drop(@, again)],
          db |-> [acc.db EXCEPT !.txids = Put(@, Row(acc.n, tx.id)), !.history = @ \cup rows,
                                !.utxo = Drop(Put(@, [k \in F |-> h]), tx.spent)]]
  BY DEF ApplyTx
<1>12. [acc.undo EXCEPT !.history = @ \cup rows, !.added = added \ again, !.deleted = Drop(@, again)]
       = UndoAfter(d, txs, first, i)
  <2>1. PICK x, A, D, H, n, R, S : /\ x = acc.undo /\ A = added \ again /\ D = spent_values(d, txs) /\ n = Len(txs)
                                   /\ H = RowsBy(txs, first, p) /\ R = rows /\ S = again
    OBVIOUS
  <2>2. x = [first |-> first, n |-> n, history |-> H, added |-> x.added, deleted |-> D]
    BY <1>5, <2>1 DEF UndoAfter
  <2>3. H \cup R = RowsBy(txs, first, i)
    BY <1>2, <1>6, <2>1
  <2>4. Drop(D, S) = D /\ A = MadeBy(txs, i) \ GoneBy(txs, i)
    BY <1>7, <1>8, <2>1
  <2>5. [x EXCEPT !.history = @ \cup R, !.added = A, !.deleted = Drop(@, S)]
        = [first |-> first, n |-> n, history |-> H \cup R, added |-> A, deleted |-> Drop(D, S)]
    <3>1. PICK B : B = x.added
      OBVIOUS
    <3>2. x = [first |-> first, n |-> n, history |-> H, added |-> B, deleted |-> D]
      BY <2>2, <3>1
    <3>3. PICK y : y = [x EXCEPT !.history = @ \cup R, !.added = A, !.deleted = Drop(@, S)]
      OBVIOUS
    <3>4. y \in [first : {first}, n : {n}, history : {H \cup R}, added : {A}, deleted : {Drop(D, S)}]
      BY <3>2, <3>3
    <3>5. y = [first |-> first, n |-> n, history |-> H \cup R, added |-> A, deleted |-> Drop(D, S)]
      BY <3>4
    <3> QED
      BY <3>3, <3>5
  <2>6. [x EXCEPT !.history = @ \cup R, !.added = A, !.deleted = Drop(@, S)] = UndoAfter(d, txs, first, i)
    BY <2>1, <2>3, <2>4, <2>5 DEF UndoAfter
  <2> HIDE DEF acc, added, again, rows
  <2> QED
    BY <2>1, <2>6
<1>13. [acc.db EXCEPT !.txids = Put(@, Row(acc.n, tx.id)), !.history = @ \cup rows,
                      !.utxo = Drop(Put(@, [k \in F |-> h]), tx.spent)]
       = After(d, txs, first, h, i).db
  <2>1. PICK x, R, T, U, H, w, S, v :
           /\ x = acc.db /\ R = rows /\ T = TxidsAfter(d, txs, first, p) /\ U = UtxoAfter(d, txs, h, p)
           /\ H = d.history \cup RowsBy(txs, first, p) /\ w = Row(acc.n, tx.id) /\ S = tx.spent
           /\ v = [k \in F |-> h]
    OBVIOUS
  <2>2. x = [blocks |-> d.blocks, txids |-> T, history |-> H, utxo |-> U,
             undo |-> d.undo, render |-> d.render, tip |-> d.tip]
    BY <2>1 DEF After
  <2>3. H \cup R = d.history \cup RowsBy(txs, first, i)
    BY <1>2, <1>6, <2>1
  <2>4. Put(T, w) = TxidsAfter(d, txs, first, i) /\ Drop(Put(U, v), S) = UtxoAfter(d, txs, h, i)
    <3>1. acc.n = first + p
      BY <1>5
    <3> HIDE DEF acc
    <3> QED
      BY <1>9, <1>10, <2>1, <3>1
  <2>5. [x EXCEPT !.txids = Put(@, w), !.history = @ \cup R, !.utxo = Drop(Put(@, v), S)]
        = [blocks |-> d.blocks, txids |-> Put(T, w), history |-> H \cup R, utxo |-> Drop(Put(U, v), S),
           undo |-> d.undo, render |-> d.render, tip |-> d.tip]
    <3>1. PICK b, u, r, t : b = d.blocks /\ u = d.undo /\ r = d.render /\ t = d.tip
      OBVIOUS
    <3>2. x = [blocks |-> b, txids |-> T, history |-> H, utxo |-> U, undo |-> u, render |-> r, tip |-> t]
      BY <2>2, <3>1
    <3>3. [x EXCEPT !.txids = Put(@, w), !.history = @ \cup R, !.utxo = Drop(Put(@, v), S)]
          = [blocks |-> b, txids |-> Put(T, w), history |-> H \cup R, utxo |-> Drop(Put(U, v), S),
             undo |-> u, render |-> r, tip |-> t]
      <4>1. PICK y : y = [x EXCEPT !.txids = Put(@, w), !.history = @ \cup R, !.utxo = Drop(Put(@, v), S)]
        OBVIOUS
      <4>2. y \in [blocks : {b}, txids : {Put(T, w)}, history : {H \cup R}, utxo : {Drop(Put(U, v), S)},
                   undo : {u}, render : {r}, tip : {t}]
        BY <3>2, <4>1
      <4>3. y = [blocks |-> b, txids |-> Put(T, w), history |-> H \cup R, utxo |-> Drop(Put(U, v), S),
                 undo |-> u, render |-> r, tip |-> t]
        BY <4>2
      <4> QED
        BY <4>1, <4>3
    <3> QED
      BY <3>1, <3>3
  <2>6. [x EXCEPT !.txids = Put(@, w), !.history = @ \cup R, !.utxo = Drop(Put(@, v), S)]
        = After(d, txs, first, h, i).db
    BY <2>3, <2>4, <2>5 DEF After
  <2> HIDE DEF acc, rows, tx, F
  <2> QED
    BY <2>1, <2>6
<1>14. acc.n + 1 = first + i
  BY <1>1, <1>5
<1>15. After(d, txs, first, h, i) =
         [n |-> first + i, undo |-> UndoAfter(d, txs, first, i), db |-> After(d, txs, first, h, i).db]
  BY DEF After
<1> HIDE DEF acc, added, again, rows, F
<1>16. ApplyTx(acc, tx, h) = After(d, txs, first, h, i)
  BY <1>11, <1>12, <1>13, <1>14, <1>15
<1> QED
  BY <1>0, <1>16 DEF acc

\* The recursion of Db::apply over a block's transactions.
NoUndoYet(d, b, first) ==
    [first |-> first, n |-> Len(TxsOf(b)), history |-> {}, added |-> {}, deleted |-> spent_values(d, TxsOf(b))]
TxSteps(d, b, first, f) ==
    f = [i \in 0..Len(TxsOf(b)) |->
            IF i = 0 THEN [db |-> d, undo |-> NoUndoYet(d, b, first), n |-> first]
                     ELSE ApplyTx(f[i - 1], TxsOf(b)[i], Height(b))]

\* The rows a store has.
IsStore(d) ==
    /\ d = [blocks |-> d.blocks, txids |-> d.txids, history |-> d.history, utxo |-> d.utxo,
            undo |-> d.undo, render |-> d.render, tip |-> d.tip]
    /\ d.txids = [n \in DOMAIN d.txids |-> d.txids[n]]
    /\ d.utxo = [k \in DOMAIN d.utxo |-> d.utxo[k]]

\* Before the first transaction.
LEMMA NoTxApplied ==
    ASSUME NEW d, IsStore(d), NEW b, NEW first \in Nat
    PROVE  After(d, TxsOf(b), first, Height(b), 0) = [db |-> d, undo |-> NoUndoYet(d, b, first), n |-> first]
<1>1. PICK txs, h : txs = TxsOf(b) /\ h = Height(b)
  OBVIOUS
<1>2. 1..0 = {} /\ first..first + 0 - 1 = {} /\ first + 0 = first
  OBVIOUS
<1>3. MadeBy(txs, 0) = {} /\ GoneBy(txs, 0) = {} /\ RowsBy(txs, first, 0) = {}
  BY <1>2, Zenon DEF MadeBy, GoneBy, RowsBy
<1>4. TxidsAfter(d, txs, first, 0) = d.txids
  <2>1. TxidsAfter(d, txs, first, 0) = [n \in DOMAIN d.txids |-> d.txids[n]]
    BY <1>2 DEF TxidsAfter
  <2> QED
    BY <2>1 DEF IsStore
<1>5. UtxoAfter(d, txs, h, 0) = d.utxo
  <2>1. UtxoAfter(d, txs, h, 0) = [k \in DOMAIN d.utxo |-> d.utxo[k]]
    BY <1>3 DEF UtxoAfter
  <2> QED
    BY <2>1 DEF IsStore
<1>6. UndoAfter(d, txs, first, 0) = NoUndoYet(d, b, first)
  BY <1>1, <1>3 DEF UndoAfter, NoUndoYet
<1>7. d.history \cup RowsBy(txs, first, 0) = d.history
  BY <1>3
<1>8. After(d, txs, first, h, 0) =
        [n |-> first, undo |-> NoUndoYet(d, b, first),
         db |-> [blocks |-> d.blocks, txids |-> d.txids, history |-> d.history, utxo |-> d.utxo,
                 undo |-> d.undo, render |-> d.render, tip |-> d.tip]]
  BY <1>2, <1>4, <1>5, <1>6, <1>7 DEF After
<1>9. After(d, txs, first, h, 0) = [n |-> first, undo |-> NoUndoYet(d, b, first), db |-> d]
  BY <1>8 DEF IsStore
<1> QED
  BY <1>1, <1>9

\* The recursion's value after each transaction.
LEMMA TxStepsAre ==
    ASSUME NEW d, IsStore(d), NEW b \in Chains, Fresh(d, TxsOf(b)), NEW first \in Nat
    PROVE  (CHOOSE f : TxSteps(d, b, first, f))[Len(TxsOf(b))] = After(d, TxsOf(b), first, Height(b), Len(TxsOf(b)))
<1>1. PICK txs, h, n : txs = TxsOf(b) /\ h = Height(b) /\ n = Len(TxsOf(b))
  OBVIOUS
<1>2. n \in Nat /\ Len(txs) \in Nat /\ n = Len(txs) /\ Fresh(d, txs)
  BY <1>1, TxsType
<1>3. ASSUME NEW i \in 1..n PROVE ApplyTx(After(d, txs, first, h, i - 1), txs[i], h) = After(d, txs, first, h, i)
  BY <1>2, <1>3, TxApplied
<1>4. After(d, txs, first, h, 0) = [db |-> d, undo |-> NoUndoYet(d, b, first), n |-> first]
  BY <1>1, NoTxApplied
<1>5. \E f : TxSteps(d, b, first, f)
  <2> DEFINE g == [i \in 0..n |-> After(d, txs, first, h, i)]
  <2>1. ASSUME NEW i \in 0..n
        PROVE  g[i] = IF i = 0 THEN [db |-> d, undo |-> NoUndoYet(d, b, first), n |-> first]
                               ELSE ApplyTx(g[i - 1], txs[i], h)
    <3>1. CASE i = 0
      BY <1>4, <3>1
    <3>2. CASE i # 0
      <4>1. i \in 1..n /\ i - 1 \in 0..n
        BY <1>2, <2>1, <3>2
      <4>2. g[i - 1] = After(d, txs, first, h, i - 1) /\ g[i] = After(d, txs, first, h, i)
        BY <2>1, <4>1
      <4> HIDE DEF g
      <4> QED
        BY <1>3, <3>2, <4>1, <4>2
    <3> QED
      BY <3>1, <3>2
  <2>2. g = [i \in 0..n |-> g[i]]
    OBVIOUS
  <2> HIDE DEF g
  <2>3. g = [i \in 0..n |-> IF i = 0 THEN [db |-> d, undo |-> NoUndoYet(d, b, first), n |-> first]
                                     ELSE ApplyTx(g[i - 1], txs[i], h)]
    BY <2>1, <2>2
  <2>4. TxSteps(d, b, first, g)
    BY <1>1, <2>3 DEF TxSteps
  <2> QED
    BY <2>4
<1>6. PICK f : TxSteps(d, b, first, f) /\ (CHOOSE g : TxSteps(d, b, first, g))[n] = f[n]
  BY <1>5
<1>7. \A i \in 0..n : f[i] = IF i = 0 THEN [db |-> d, undo |-> NoUndoYet(d, b, first), n |-> first]
                                      ELSE ApplyTx(f[i - 1], txs[i], h)
  BY <1>1, <1>6 DEF TxSteps
<1> DEFINE Odd == {i \in 0..n : f[i] # After(d, txs, first, h, i)}
<1>8. Odd = {}
  <2> SUFFICES ASSUME Odd # {} PROVE FALSE
    OBVIOUS
  <2>1. Odd \in SUBSET Nat
    OBVIOUS
  <2>2. PICK i \in Odd : \A j \in Odd : i <= j
    BY <2>1, LeastNatural
  <2>3. i \in 0..n /\ i \in Nat /\ f[i] # After(d, txs, first, h, i)
    BY <2>2
  <2>4. i # 0
    BY <1>4, <1>7, <2>3
  <2>5. i - 1 \in 0..n /\ ~(i <= i - 1) /\ i \in 1..n
    BY <1>2, <2>3, <2>4
  <2>6. f[i - 1] = After(d, txs, first, h, i - 1)
    BY <2>2, <2>5
  <2>7. f[i] = ApplyTx(f[i - 1], txs[i], h)
    BY <1>7, <2>3, <2>4
  <2> QED
    BY <1>3, <2>3, <2>5, <2>6, <2>7
<1>9. n \in 0..n
  BY <1>2
<1> QED
  BY <1>1, <1>6, <1>8, <1>9

\* The store of a chain is one.
LEMMA StoreIsStore ==
    ASSUME NEW c, NEW u, NEW r
    PROVE  /\ IsStore(StoreOf(c, u, r)) /\ StoreOf(c, u, r).blocks = TableOf(c)
           /\ StoreOf(c, u, r).txids = TxidsOf(c) /\ StoreOf(c, u, r).history = HistoryOf(c)
           /\ StoreOf(c, u, r).utxo = UtxoOf(c) /\ StoreOf(c, u, r).undo = u
           /\ StoreOf(c, u, r).render = r /\ StoreOf(c, u, r).tip = TipOf(c)
<1>1. /\ StoreOf(c, u, r).blocks = TableOf(c)
      /\ StoreOf(c, u, r).txids = TxidsOf(c) /\ StoreOf(c, u, r).history = HistoryOf(c)
      /\ StoreOf(c, u, r).utxo = UtxoOf(c) /\ StoreOf(c, u, r).undo = u
      /\ StoreOf(c, u, r).render = r /\ StoreOf(c, u, r).tip = TipOf(c)
  BY DEF StoreOf
<1>2. TxidsOf(c) = [n \in DOMAIN TxidsOf(c) |-> TxidsOf(c)[n]]
  BY DEF TxidsOf
<1>3. UtxoOf(c) = [n \in DOMAIN UtxoOf(c) |-> UtxoOf(c)[n]]
  BY DEF UtxoOf
<1>4. StoreOf(c, u, r) = [blocks |-> TableOf(c), txids |-> TxidsOf(c), history |-> HistoryOf(c), utxo |-> UtxoOf(c),
                          undo |-> u, render |-> r, tip |-> TipOf(c)]
  BY DEF StoreOf
<1>5. PICK x : x = StoreOf(c, u, r)
  OBVIOUS
<1>6. IsStore(x)
  BY <1>1, <1>2, <1>3, <1>4, <1>5 DEF IsStore
<1> QED
  BY <1>1, <1>5, <1>6

\* The table after a block.
LEMMA TableNext ==
    ASSUME NEW b \in Ground, Height(b) >= StartHeight
    PROVE  /\ Put(TableOf(Front(b)), Row(Height(b), RecordOf(b))) = TableOf(b)
           /\ Drop(TableOf(b), {Height(b)}) = TableOf(Front(b))
           /\ DOMAIN TableOf(b) = DOMAIN TableOf(Front(b)) \cup {Height(b)}
           /\ Height(b) \notin DOMAIN TableOf(Front(b)) /\ TableOf(b)[Height(b)] = RecordOf(b)
<1>1. /\ b \in Blocks /\ b # <<>> /\ Height(b) \in Int /\ StartHeight \in Nat
      /\ Front(b) \in Ground /\ Height(Front(b)) = Height(b) - 1
  BY GroundIs
<1>2. PICK f, g, t, H : f = TableOf(Front(b)) /\ t = TableOf(b) /\ H = Height(b) /\ g = Row(H, RecordOf(b))
  OBVIOUS
<1>3. DOMAIN f = StartHeight..H - 1 /\ DOMAIN t = StartHeight..H /\ DOMAIN g = {H} /\ g[H] = RecordOf(b)
  BY <1>1, <1>2, RowIs DEF TableOf
<1>4. DOMAIN t = DOMAIN f \cup {H} /\ H \notin DOMAIN f
  BY <1>1, <1>2, <1>3
<1>5. t[H] = RecordOf(b)
  <2>1. t[H] = RecordOf(At(b, H))
    BY <1>2, <1>3, <1>4 DEF TableOf
  <2> QED
    BY <1>1, <1>2, <2>1, AtTip
<1>6. ASSUME NEW h \in DOMAIN f PROVE t[h] = f[h]
  <2>1. t[h] = RecordOf(At(b, h)) /\ f[h] = RecordOf(At(Front(b), h))
    BY <1>2, <1>3, <1>4, <1>6 DEF TableOf
  <2>2. h \in Int /\ -1 <= h /\ h < Height(b)
    BY <1>1, <1>2, <1>3, <1>6
  <2>3. At(b, h) = At(Front(b), h)
    BY <1>1, <2>2, FrontIs
  <2> QED
    BY <2>1, <2>3
<1>7. t = [h \in DOMAIN t |-> t[h]] /\ f = [h \in DOMAIN f |-> f[h]]
  BY <1>2 DEF TableOf
<1>8. Put(f, g) = t
  <2>1. PICK p : p = Put(f, g)
    OBVIOUS
  <2>2. DOMAIN p = DOMAIN f \cup {H} /\ \A h \in DOMAIN p : p[h] = IF h = H THEN RecordOf(b) ELSE f[h]
    BY <1>3, <2>1 DEF Put
  <2>3. p = [h \in DOMAIN p |-> p[h]]
    BY <2>1 DEF Put
  <2>4. \A h \in DOMAIN t : p[h] = t[h]
    BY <1>4, <1>5, <1>6, <2>2
  <2>5. p = t
    BY <1>4, <1>7, <2>2, <2>3, <2>4
  <2> QED
    BY <2>1, <2>5
<1>9. Drop(t, {H}) = f
  <2>1. DOMAIN t \ {H} = DOMAIN f
    BY <1>4
  <2>2. Drop(t, {H}) = [h \in DOMAIN f |-> t[h]]
    BY <2>1 DEF Drop
  <2> QED
    BY <1>6, <1>7, <2>2
<1> QED
  BY <1>2, <1>4, <1>5, <1>8, <1>9

\* The whole block's part of the batch is what the block adds.
LEMMA WholeBlock ==
    ASSUME NEW b \in Ground, Height(b) >= StartHeight, NEW u, NEW r
    PROVE  LET d == StoreOf(Front(b), u, r)
               txs == TxsOf(b)
               n == NumbersOf(Front(b))
           IN  /\ Fresh(d, txs)
               /\ TxidsAfter(d, txs, n, Len(txs)) = TxidsOf(b)
               /\ UtxoAfter(d, txs, Height(b), Len(txs)) = UtxoOf(b)
               /\ UndoAfter(d, txs, n, Len(txs)) = UndoOf(b)
               /\ HistoryOf(Front(b)) \cup RowsBy(txs, n, Len(txs)) = HistoryOf(b)
<1>1. PICK d, txs, n, len : /\ d = StoreOf(Front(b), u, r) /\ txs = TxsOf(b) /\ n = NumbersOf(Front(b))
                            /\ len = Len(TxsOf(b))
  OBVIOUS
<1>2. /\ n \in Nat /\ len \in Nat /\ NumbersOf(b) = n + len /\ len = Len(txs)
      /\ DOMAIN txs = 1..len
      /\ \A i \in 1..n : Indexed(b)[i] = Indexed(Front(b))[i]
      /\ \A i \in 1..len : Indexed(b)[n + i] = txs[i]
  BY <1>1, IndexedStep
<1>3. d.txids = TxidsOf(Front(b)) /\ d.utxo = UtxoOf(Front(b))
  BY <1>1, StoreIsStore
<1>4. MadeBy(txs, len) = BlockMade(b) /\ GoneBy(txs, len) = BlockGone(b) /\ RowsBy(txs, n, len) = BlockRows(b)
  BY <1>1, <1>2, Zenon DEF MadeBy, GoneBy, RowsBy, BlockMade, BlockGone, BlockRows
<1>5. Fresh(d, txs)
  <2>1. BlockMade(b) \cap DOMAIN UtxoOf(Front(b)) = {}
    BY BlockIsNew DEF UtxoOf
  <2>2. \A i \in 1..len : FundedKeys(txs[i]) \subseteq BlockMade(b)
    BY <1>1, <1>2 DEF BlockMade
  <2>3. \A i, j \in 1..len : FundedKeys(txs[i]) \cap txs[j].spent # {} => i < j
    BY <1>1, <1>2, BlockIsNew
  <2> QED
    BY <1>2, <1>3, <2>1, <2>2, <2>3 DEF Fresh
<1>6. TxidsAfter(d, txs, n, len) = TxidsOf(b)
  <2>1. PICK f, g, e : f = TxidsAfter(d, txs, n, len) /\ g = TxidsOf(b) /\ e = TxidsOf(Front(b))
    OBVIOUS
  <2>2. DOMAIN e = 0..n - 1 /\ \A k \in 0..n - 1 : e[k] = Indexed(Front(b))[k + 1].id
    BY <1>1, <2>1 DEF TxidsOf
  <2>3. DOMAIN g = 0..n + len - 1 /\ \A k \in 0..n + len - 1 : g[k] = Indexed(b)[k + 1].id
    BY <1>2, <2>1 DEF TxidsOf
  <2>4. /\ DOMAIN f = DOMAIN e \cup (n..n + len - 1)
        /\ \A k \in DOMAIN f : f[k] = IF k \in n..n + len - 1 THEN txs[k - n + 1].id ELSE e[k]
    BY <1>3, <2>1 DEF TxidsAfter
  <2>5. DOMAIN f = DOMAIN g
    BY <1>2, <2>2, <2>3, <2>4
  <2>6. ASSUME NEW k \in DOMAIN g PROVE f[k] = g[k]
    <3>1. CASE k \in n..n + len - 1
      <4>1. PICK i : i = k - n + 1
        OBVIOUS
      <4>2. i \in 1..len /\ n + i = k + 1
        BY <1>2, <3>1, <4>1
      <4>3. Indexed(b)[k + 1] = txs[i]
        BY <1>2, <4>2
      <4> QED
        BY <2>3, <2>4, <2>5, <2>6, <3>1, <4>1, <4>3
    <3>2. CASE k \notin n..n + len - 1
      <4>1. k \in 0..n - 1 /\ k + 1 \in 1..n
        BY <1>2, <2>3, <2>6, <3>2
      <4> QED
        BY <1>2, <2>2, <2>3, <2>4, <2>5, <2>6, <3>2, <4>1
    <3> QED
      BY <3>1, <3>2
  <2>7. f = [k \in DOMAIN f |-> f[k]] /\ g = [k \in DOMAIN g |-> g[k]]
    BY <2>1 DEF TxidsAfter, TxidsOf
  <2>8. f = g
    BY <2>5, <2>6, <2>7
  <2> QED
    BY <2>1, <2>8
<1>7. UtxoAfter(d, txs, Height(b), len) = UtxoOf(b)
  <2>1. PICK f, g, e, M, G : /\ f = UtxoAfter(d, txs, Height(b), len) /\ g = UtxoOf(b) /\ e = UtxoOf(Front(b))
                             /\ M = BlockMade(b) /\ G = BlockGone(b)
    OBVIOUS
  <2>2. /\ DOMAIN f = (DOMAIN e \cup M) \ G
        /\ \A k \in DOMAIN f : f[k] = IF k \in M THEN Height(b) ELSE e[k]
    BY <1>3, <1>4, <2>1 DEF UtxoAfter
  <2>3. /\ DOMAIN g = (DOMAIN e \cup M) \ G
        /\ \A k \in DOMAIN g : g[k] = IF k \in M THEN Height(b) ELSE e[k]
    BY <2>1, UtxoNext
  <2>4. f = [k \in DOMAIN f |-> f[k]] /\ g = [k \in DOMAIN g |-> g[k]]
    BY <2>1 DEF UtxoAfter, UtxoOf
  <2>5. f = g
    BY <2>2, <2>3, <2>4
  <2> QED
    BY <2>1, <2>5
<1>8. UndoAfter(d, txs, n, len) = UndoOf(b)
  <2>1. UNION {txs[i].spent : i \in DOMAIN txs} = BlockGone(b)
    BY <1>1 DEF BlockGone
  <2>2. spent_values(d, txs) = [k \in BlockGone(b) \cap DOMAIN UtxoOf(Front(b)) |-> UtxoOf(Front(b))[k]]
    BY <1>3, <2>1 DEF spent_values
  <2> QED
    BY <1>1, <1>2, <1>4, <2>2 DEF UndoAfter, UndoOf
<1>9. HistoryOf(Front(b)) \cup RowsBy(txs, n, len) = HistoryOf(b)
  BY <1>4, BlockAdds
<1> QED
  BY <1>1, <1>2, <1>5, <1>6, <1>7, <1>8, <1>9

\* Db::apply takes the store of a block's parent to the block's own.
LEMMA BlockApplied ==
    ASSUME NEW b \in Ground, Height(b) >= StartHeight, NEW u, NEW r, NEW keep \in BOOLEAN
    PROVE  ApplyBlock(StoreOf(Front(b), u, r), b, NumbersOf(Front(b)), keep)
           = StoreOf(b, IF keep THEN Put(u, Row(Height(b), UndoOf(b))) ELSE u, r)
<1>1. PICK d, n, txs, H : d = StoreOf(Front(b), u, r) /\ n = NumbersOf(Front(b)) /\ txs = TxsOf(b) /\ H = Height(b)
  OBVIOUS
<1>2. b \in Chains /\ n \in Nat /\ TipOf(b) = b
  BY <1>1, GroundIs, IndexedStep DEF TipOf
<1>3. /\ IsStore(d) /\ d.blocks = TableOf(Front(b)) /\ d.history = HistoryOf(Front(b))
      /\ d.undo = u /\ d.render = r
  BY <1>1, StoreIsStore
<1>4. /\ Fresh(d, txs) /\ TxidsAfter(d, txs, n, Len(txs)) = TxidsOf(b)
      /\ UtxoAfter(d, txs, H, Len(txs)) = UtxoOf(b) /\ UndoAfter(d, txs, n, Len(txs)) = UndoOf(b)
      /\ HistoryOf(Front(b)) \cup RowsBy(txs, n, Len(txs)) = HistoryOf(b)
  BY <1>1, WholeBlock
<1>5. PICK end : end = (CHOOSE f : TxSteps(d, b, n, f))[Len(TxsOf(b))]
  OBVIOUS
<1>6. end = After(d, txs, n, H, Len(txs))
  BY <1>1, <1>2, <1>3, <1>4, <1>5, TxStepsAre
<1>7. PICK x, t, T, h, U, p : /\ x = end.db /\ t = TableOf(Front(b)) /\ T = TxidsOf(b) /\ h = HistoryOf(b)
                              /\ U = UtxoOf(b) /\ p = d.tip
  OBVIOUS
<1>8. x = [blocks |-> t, txids |-> T, history |-> h, utxo |-> U, undo |-> u, render |-> r, tip |-> p]
      /\ end.undo = UndoOf(b)
  BY <1>3, <1>4, <1>6, <1>7 DEF After
<1>9. PICK y, B, q : /\ y = ApplyBlock(d, b, n, keep) /\ B = Put(t, Row(H, RecordOf(b)))
                     /\ q = IF keep THEN Put(u, Row(H, UndoOf(b))) ELSE u
  OBVIOUS
<1>10. y = [x EXCEPT !.blocks = Put(@, Row(H, RecordOf(b))),
                     !.undo = IF keep THEN Put(@, Row(H, UndoOf(b))) ELSE @, !.tip = b]
  <2>1. [hash |-> b, first |-> n, n |-> Len(TxsOf(b))] = RecordOf(b)
    BY <1>1 DEF RecordOf
  <2>2. ApplyBlock(d, b, n, keep) =
          [end.db EXCEPT
             !.blocks = Put(@, Row(Height(b), [hash |-> b, first |-> n, n |-> Len(TxsOf(b))])),
             !.undo = IF keep THEN Put(@, Row(Height(b), end.undo)) ELSE @,
             !.tip = b]
    BY <1>5 DEF ApplyBlock, TxSteps, NoUndoYet
  <2>3. end.db = x /\ end.undo = UndoOf(b) /\ Height(b) = H /\ y = ApplyBlock(d, b, n, keep)
    BY <1>1, <1>7, <1>8, <1>9
  <2> QED
    BY <2>1, <2>2, <2>3
<1>11. y \in [blocks : {B}, txids : {T}, history : {h}, utxo : {U}, undo : {q}, render : {r}, tip : {b}]
  <2>1. x.blocks = t /\ x.undo = u
    BY <1>8
  <2>2. y = [x EXCEPT !.blocks = B, !.undo = q, !.tip = b]
    BY <1>9, <1>10, <2>1
  <2> QED
    BY <1>8, <2>2
<1>12. y = [blocks |-> B, txids |-> T, history |-> h, utxo |-> U, undo |-> q, render |-> r, tip |-> b]
  BY <1>11
<1>13. B = TableOf(b)
  BY <1>1, <1>7, <1>9, TableNext
<1>14. y = StoreOf(b, q, r)
  BY <1>2, <1>7, <1>12, <1>13 DEF StoreOf
<1> QED
  BY <1>1, <1>9, <1>14

\* A history row names a number of the chain.
LEMMA RowNumbers ==
    ASSUME NEW c \in Ground, NEW x \in HistoryOf(c)
    PROVE  /\ x[2] \in 0..NumbersOf(c) - 1 /\ x[2] + 1 \in DOMAIN Indexed(c)
           /\ x \in RowsAt(Indexed(c)[x[2] + 1], x[2])
<1>1. NumbersOf(c) \in Nat /\ DOMAIN Indexed(c) = 1..NumbersOf(c)
  BY NumbersType
<1>2. PICK i \in DOMAIN Indexed(c) : x \in RowsAt(Indexed(c)[i], i - 1)
  BY DEF HistoryOf
<1>3. x[2] = i - 1
  BY <1>2 DEF RowsAt
<1>4. i \in 1..NumbersOf(c) /\ x[2] + 1 = i
  BY <1>1, <1>2, <1>3
<1> QED
  BY <1>1, <1>2, <1>3, <1>4

\* Db::rollback takes the store of a block back to its parent's.
LEMMA BlockUndone ==
    ASSUME NEW b \in Ground, Height(b) >= StartHeight, NEW u, NEW r
    PROVE  Rollback(StoreOf(b, u, r), Height(b), UndoOf(b), TipOf(Front(b)))
           = StoreOf(Front(b), Drop(u, {Height(b)}),
                     Drop(r, NumbersOf(Front(b))..NumbersOf(Front(b)) + Len(TxsOf(b)) - 1))
<1>1. PICK d, n, len, H, c : /\ d = StoreOf(b, u, r) /\ n = NumbersOf(Front(b)) /\ len = Len(TxsOf(b))
                             /\ H = Height(b) /\ c = Front(b)
  OBVIOUS
<1>2. /\ n \in Nat /\ len \in Nat /\ NumbersOf(b) = n + len /\ DOMAIN TxsOf(b) = 1..len
      /\ \A i \in 1..n : Indexed(b)[i] = Indexed(c)[i]
  BY <1>1, IndexedStep
<1>3. c \in Ground
  BY <1>1, GroundIs
<1>4. HistoryOf(b) \ BlockRows(b) = HistoryOf(c)
  <2>1. ASSUME NEW x \in BlockRows(b), x \in HistoryOf(c) PROVE FALSE
    <3>1. PICK i \in 1..len : x \in RowsAt(TxsOf(b)[i], n + i - 1)
      BY <1>1, <1>2, <2>1 DEF BlockRows
    <3>2. x[2] = n + i - 1
      BY <3>1 DEF RowsAt
    <3>3. x[2] \in 0..n - 1
      BY <1>1, <1>3, <2>1, RowNumbers
    <3> QED
      BY <1>2, <3>1, <3>2, <3>3
  <2> QED
    BY <1>1, <2>1, BlockAdds
<1>5. Drop(TxidsOf(b), n..n + len - 1) = TxidsOf(c)
  <2>1. PICK f, g : f = TxidsOf(b) /\ g = TxidsOf(c)
    OBVIOUS
  <2>2. DOMAIN f = 0..n + len - 1 /\ \A k \in DOMAIN f : f[k] = Indexed(b)[k + 1].id
    BY <1>2, <2>1 DEF TxidsOf
  <2>3. DOMAIN g = 0..n - 1 /\ \A k \in DOMAIN g : g[k] = Indexed(c)[k + 1].id
    BY <1>1, <2>1 DEF TxidsOf
  <2>4. g = [k \in DOMAIN g |-> g[k]]
    BY <2>1 DEF TxidsOf
  <2>5. DOMAIN f \ (n..n + len - 1) = DOMAIN g
    BY <1>2, <2>2, <2>3
  <2>6. \A k \in DOMAIN g : f[k] = g[k]
    <3> SUFFICES ASSUME NEW k \in DOMAIN g PROVE f[k] = g[k]
      OBVIOUS
    <3>1. k \in DOMAIN f /\ k + 1 \in 1..n
      BY <1>2, <2>2, <2>3
    <3> QED
      BY <1>2, <2>2, <2>3, <3>1
  <2>7. Drop(f, n..n + len - 1) = [k \in DOMAIN g |-> f[k]]
    BY <2>5 DEF Drop
  <2>8. Drop(f, n..n + len - 1) = g
    BY <2>4, <2>6, <2>7
  <2> QED
    BY <2>1, <2>8
<1>6. Put(Drop(UtxoOf(b), BlockMade(b) \ BlockGone(b)), UndoOf(b).deleted) = UtxoOf(c)
  <2>1. PICK f, e, M, G, x, y, z : /\ f = UtxoOf(b) /\ e = UtxoOf(c) /\ M = BlockMade(b) /\ G = BlockGone(b)
                                   /\ x = Drop(f, M \ G) /\ y = UndoOf(b).deleted /\ z = Put(x, y)
    OBVIOUS
  <2>2. /\ DOMAIN f = (DOMAIN e \cup M) \ G
        /\ \A k \in DOMAIN f : f[k] = IF k \in M THEN Height(b) ELSE e[k]
    BY <1>1, <2>1, UtxoNext
  <2>3. M \cap DOMAIN e = {}
    BY <1>1, <2>1, BlockIsNew DEF UtxoOf
  <2>4. DOMAIN y = G \cap DOMAIN e /\ \A k \in DOMAIN y : y[k] = e[k]
    <3>1. y = [k \in G \cap DOMAIN e |-> e[k]]
      BY <1>1, <2>1 DEF UndoOf
    <3> QED
      BY <3>1
  <2>5. DOMAIN x = DOMAIN f \ (M \ G) /\ \A k \in DOMAIN x : x[k] = f[k]
    <3>1. x = Drop(f, M \ G)
      BY <2>1
    <3> QED
      BY <3>1 DEF Drop
  <2>6. DOMAIN z = DOMAIN x \cup DOMAIN y /\ \A k \in DOMAIN z : z[k] = IF k \in DOMAIN y THEN y[k] ELSE x[k]
    <3>1. z = Put(x, y)
      BY <2>1
    <3> QED
      BY <3>1 DEF Put
  <2>7. DOMAIN z = DOMAIN e
    BY <2>2, <2>3, <2>4, <2>5, <2>6
  <2>8. ASSUME NEW k \in DOMAIN e PROVE z[k] = e[k]
    BY <2>2, <2>3, <2>4, <2>5, <2>6, <2>7, <2>8
  <2>9. z = [k \in DOMAIN z |-> z[k]] /\ e = [k \in DOMAIN e |-> e[k]]
    BY <2>1 DEF Put, UtxoOf
  <2>10. z = e
    BY <2>7, <2>8, <2>9
  <2> QED
    BY <2>1, <2>10
<1>7. Drop(TableOf(b), {H}) = TableOf(c)
  BY <1>1, TableNext
<1>8. /\ UndoOf(b).first = n /\ UndoOf(b).n = len /\ UndoOf(b).history = BlockRows(b)
      /\ UndoOf(b).added = BlockMade(b) \ BlockGone(b)
  BY <1>1 DEF UndoOf
<1>9. PICK t, T, h, U, p, w, a, e, nums, y, z, k :
         /\ t = TableOf(b) /\ T = TxidsOf(b) /\ h = HistoryOf(b) /\ U = UtxoOf(b) /\ p = TipOf(b) /\ w = BlockRows(b)
         /\ a = BlockMade(b) \ BlockGone(b) /\ e = UndoOf(b).deleted /\ nums = n..n + len - 1 /\ z = TipOf(c)
         /\ k = {H} /\ y = Rollback(d, H, UndoOf(b), z)
  OBVIOUS
<1>10. d = [blocks |-> t, txids |-> T, history |-> h, utxo |-> U, undo |-> u, render |-> r, tip |-> p]
  BY <1>1, <1>9 DEF StoreOf
<1>11. y = [d EXCEPT !.history = @ \ w, !.utxo = Put(Drop(@, a), e), !.txids = Drop(@, nums),
                     !.render = Drop(@, nums), !.blocks = Drop(@, k), !.undo = Drop(@, k), !.tip = z]
  BY <1>8, <1>9 DEF Rollback
<1>12. y \in [blocks : {Drop(t, k)}, txids : {Drop(T, nums)}, history : {h \ w}, utxo : {Put(Drop(U, a), e)},
              undo : {Drop(u, k)}, render : {Drop(r, nums)}, tip : {z}]
  BY <1>10, <1>11
<1>13. y = [blocks |-> Drop(t, k), txids |-> Drop(T, nums), history |-> h \ w, utxo |-> Put(Drop(U, a), e),
            undo |-> Drop(u, k), render |-> Drop(r, nums), tip |-> z]
  BY <1>12
<1>14. Drop(t, k) = TableOf(c) /\ Drop(T, nums) = TxidsOf(c) /\ h \ w = HistoryOf(c) /\ Put(Drop(U, a), e) = UtxoOf(c)
  BY <1>4, <1>5, <1>6, <1>7, <1>9
<1>15. y = StoreOf(c, Drop(u, k), Drop(r, nums))
  BY <1>9, <1>13, <1>14 DEF StoreOf
<1> QED
  BY <1>1, <1>9, <1>15

\* Below the start height every chain has the empty store.
LEMMA EmptyStore ==
    ASSUME NEW c \in Ground, Height(c) = StartHeight - 1, NEW u, NEW r
    PROVE  /\ StoreOf(c, u, r) = [blocks |-> Empty, txids |-> Empty, history |-> {}, utxo |-> Empty,
                                  undo |-> u, render |-> r, tip |-> None]
           /\ NumbersOf(c) = 0 /\ TipOf(c) = None
<1>1. Height(c) \in Int /\ StartHeight \in Nat /\ ~(Height(c) >= StartHeight) /\ StartHeight..Height(c) = {}
  BY GroundIs
<1>2. Indexed(c) = <<>>
  BY IndexedNone
<1>3. NumbersOf(c) = 0 /\ DOMAIN Indexed(c) = {} /\ 0..NumbersOf(c) - 1 = {}
  BY <1>2 DEF NumbersOf
<1>4. Made(c) = {} /\ HistoryOf(c) = {}
  BY <1>3 DEF Made, HistoryOf
<1>5. TableOf(c) = Empty
  <2>1. DOMAIN TableOf(c) = {} /\ TableOf(c) = [h \in DOMAIN TableOf(c) |-> TableOf(c)[h]]
    BY <1>1 DEF TableOf
  <2> QED
    BY <2>1 DEF Empty
<1>6. TxidsOf(c) = Empty
  <2>1. DOMAIN TxidsOf(c) = {} /\ TxidsOf(c) = [h \in DOMAIN TxidsOf(c) |-> TxidsOf(c)[h]]
    BY <1>3 DEF TxidsOf
  <2> QED
    BY <2>1 DEF Empty
<1>7. UtxoOf(c) = Empty
  <2>1. DOMAIN UtxoOf(c) = {} /\ UtxoOf(c) = [h \in DOMAIN UtxoOf(c) |-> UtxoOf(c)[h]]
    BY <1>4 DEF UtxoOf
  <2> QED
    BY <2>1 DEF Empty
<1>8. TipOf(c) = None
  BY <1>1 DEF TipOf
<1> QED
  BY <1>3, <1>4, <1>5, <1>6, <1>7, <1>8 DEF StoreOf

-----------------------------------------------------------------------------
(* A batch of consecutive blocks                                           *)

\* The blocks s follow one another on chain c.
Linked(c, s) ==
    /\ Len(s) \in Nat
    /\ \A i \in 1..Len(s) : /\ s[i] \in Ground /\ Height(s[i]) = Height(c) + i
                            /\ i = 1 => Front(s[i]) = c
                            /\ i # 1 => Front(s[i]) = s[i - 1]

\* The tip, and the undo records, after i of the blocks.
TipAfter(c, s, i) == IF i = 0 THEN c ELSE s[i]
UndoKept(u, s, keep, i) == IF keep /\ i # 0 THEN Put(u, Row(Height(s[i]), UndoOf(s[i]))) ELSE u
BatchAfter(c, u, r, s, keep, i) ==
    [db |-> StoreOf(TipAfter(c, s, i), UndoKept(u, s, keep, i), r), n |-> NumbersOf(TipAfter(c, s, i))]

\* The recursion of Apply.
BatchSteps(d, s, first, keep, f) ==
    f = [i \in 0..Len(s) |->
            IF i = 0 THEN [db |-> d, n |-> first]
                     ELSE [db |-> ApplyBlock(f[i - 1].db, s[i], f[i - 1].n, keep),
                           n |-> f[i - 1].n + Len(TxsOf(s[i]))]]

\* One block more.
LEMMA BatchStep ==
    ASSUME NEW c \in Ground, NEW s, Linked(c, s), NEW u, NEW r, NEW keep \in BOOLEAN, keep => Len(s) = 1,
           NEW i \in 1..Len(s), NEW p, p = BatchAfter(c, u, r, s, keep, i - 1)
    PROVE  [db |-> ApplyBlock(p.db, s[i], p.n, keep), n |-> p.n + Len(TxsOf(s[i]))]
           = BatchAfter(c, u, r, s, keep, i)
<1>1. PICK b, a, U : b = s[i] /\ a = TipAfter(c, s, i - 1) /\ U = UndoKept(u, s, keep, i - 1)
  OBVIOUS
<1>2. /\ i \in Nat /\ i # 0 /\ i - 1 \in Nat /\ Len(s) \in Nat /\ i <= Len(s) /\ (i = 1 <=> i - 1 = 0)
      /\ (keep => i = 1)
  BY DEF Linked
<1>3. b \in Ground /\ Height(b) = Height(c) + i /\ Front(b) = a
  BY <1>1, <1>2 DEF Linked, TipAfter
<1>4. Height(b) >= StartHeight
  BY <1>2, <1>3, GroundIs
<1>5. U = u
  BY <1>1, <1>2 DEF UndoKept
<1>6. p.db = StoreOf(Front(b), u, r) /\ p.n = NumbersOf(Front(b))
  BY <1>1, <1>3, <1>5 DEF BatchAfter
<1>7. ApplyBlock(p.db, b, p.n, keep) = StoreOf(b, IF keep THEN Put(u, Row(Height(b), UndoOf(b))) ELSE u, r)
  BY <1>3, <1>4, <1>6, BlockApplied
<1>8. p.n + Len(TxsOf(b)) = NumbersOf(b)
  BY <1>3, <1>4, <1>6, IndexedStep
<1>9. TipAfter(c, s, i) = b /\ UndoKept(u, s, keep, i) = IF keep THEN Put(u, Row(Height(b), UndoOf(b))) ELSE u
  BY <1>1, <1>2 DEF TipAfter, UndoKept
<1> QED
  BY <1>1, <1>7, <1>8, <1>9 DEF BatchAfter

\* All the blocks.
LEMMA BatchStepsAre ==
    ASSUME NEW c \in Ground, NEW s, Linked(c, s), NEW u, NEW r, NEW keep \in BOOLEAN, keep => Len(s) = 1
    PROVE  (CHOOSE f : BatchSteps(StoreOf(c, u, r), s, NumbersOf(c), keep, f))[Len(s)]
           = BatchAfter(c, u, r, s, keep, Len(s))
<1>1. PICK d, m, n : d = StoreOf(c, u, r) /\ m = NumbersOf(c) /\ n = Len(s)
  OBVIOUS
<1>2. n \in Nat
  BY <1>1 DEF Linked
<1> DEFINE B(i) == BatchAfter(c, u, r, s, keep, i)
           More(i, p) == [db |-> ApplyBlock(p.db, s[i], p.n, keep), n |-> p.n + Len(TxsOf(s[i]))]
<1>3. ASSUME NEW i \in 1..n PROVE More(i, B(i - 1)) = B(i)
  <2>1. PICK p : p = BatchAfter(c, u, r, s, keep, i - 1)
    OBVIOUS
  <2>2. i \in 1..Len(s)
    BY <1>1, <1>3
  <2>3. [db |-> ApplyBlock(p.db, s[i], p.n, keep), n |-> p.n + Len(TxsOf(s[i]))]
        = BatchAfter(c, u, r, s, keep, i)
    BY <2>1, <2>2, BatchStep
  <2> QED
    BY <2>1, <2>3
<1>4. B(0) = [db |-> d, n |-> m]
  BY <1>1 DEF BatchAfter, TipAfter, UndoKept
<1> HIDE DEF B
<1>5. \E f : BatchSteps(d, s, m, keep, f)
  <2> DEFINE g == [i \in 0..n |-> B(i)]
  <2>1. ASSUME NEW i \in 0..n
        PROVE  g[i] = IF i = 0 THEN [db |-> d, n |-> m] ELSE More(i, g[i - 1])
    <3>1. CASE i = 0
      BY <1>4, <3>1
    <3>2. CASE i # 0
      <4>1. i \in 1..n /\ i - 1 \in 0..n
        BY <1>2, <2>1, <3>2
      <4>2. g[i - 1] = B(i - 1) /\ g[i] = B(i)
        BY <2>1, <4>1
      <4> HIDE DEF g
      <4>3. More(i, g[i - 1]) = B(i)
        BY <1>3, <4>1, <4>2
      <4> QED
        BY <3>2, <4>2, <4>3
    <3> QED
      BY <3>1, <3>2
  <2>2. g = [i \in 0..n |-> g[i]]
    OBVIOUS
  <2> HIDE DEF g
  <2>3. g = [i \in 0..n |-> IF i = 0 THEN [db |-> d, n |-> m] ELSE More(i, g[i - 1])]
    BY <2>1, <2>2
  <2>4. BatchSteps(d, s, m, keep, g)
    BY <1>1, <2>3 DEF BatchSteps
  <2> QED
    BY <2>4
<1>6. PICK f : BatchSteps(d, s, m, keep, f) /\ (CHOOSE g : BatchSteps(d, s, m, keep, g))[n] = f[n]
  BY <1>5
<1>7. \A i \in 0..n : f[i] = IF i = 0 THEN [db |-> d, n |-> m] ELSE More(i, f[i - 1])
  BY <1>1, <1>6 DEF BatchSteps
<1> DEFINE Odd == {i \in 0..n : f[i] # B(i)}
<1>8. Odd = {}
  <2> SUFFICES ASSUME Odd # {} PROVE FALSE
    OBVIOUS
  <2>1. Odd \in SUBSET Nat
    OBVIOUS
  <2>2. PICK i \in Odd : \A j \in Odd : i <= j
    BY <2>1, LeastNatural
  <2>3. i \in 0..n /\ i \in Nat /\ f[i] # B(i)
    BY <2>2
  <2>4. i # 0
    BY <1>4, <1>7, <2>3
  <2>5. i - 1 \in 0..n /\ ~(i <= i - 1) /\ i \in 1..n
    BY <1>2, <2>3, <2>4
  <2>6. f[i - 1] = B(i - 1)
    BY <2>2, <2>5
  <2>7. f[i] = More(i, f[i - 1])
    BY <1>7, <2>3, <2>4
  <2>8. More(i, B(i - 1)) = B(i)
    BY <1>3, <2>5
  <2> QED
    BY <2>3, <2>6, <2>7, <2>8
<1>9. n \in 0..n
  BY <1>2
<1> QED
  BY <1>1, <1>6, <1>8, <1>9 DEF B

\* A batch of blocks on the tip is the index of its last.
LEMMA BatchApplied ==
    ASSUME NEW c \in Ground, NEW s, Linked(c, s), NEW u, NEW r, NEW keep \in BOOLEAN, keep => Len(s) = 1
    PROVE  Apply(StoreOf(c, u, r), s, NumbersOf(c), keep)
           = StoreOf(TipAfter(c, s, Len(s)), UndoKept(u, s, keep, Len(s)), r)
<1>1. PICK d, m, end : /\ d = StoreOf(c, u, r) /\ m = NumbersOf(c)
                       /\ end = (CHOOSE f : BatchSteps(d, s, m, keep, f))[Len(s)]
  OBVIOUS
<1>2. end = BatchAfter(c, u, r, s, keep, Len(s))
  BY <1>1, BatchStepsAre
<1>3. Apply(d, s, m, keep) = end.db
  BY <1>1 DEF Apply, BatchSteps
<1> QED
  BY <1>1, <1>2, <1>3 DEF BatchAfter

-----------------------------------------------------------------------------
(* The block table of a chain                                              *)

\* The block table of a chain: its heights, its tip and the number after its last.
LEMMA TableIs ==
    ASSUME NEW c \in Ground
    PROVE  /\ DOMAIN TableOf(c) = StartHeight..Height(c) /\ TipHeight(TableOf(c)) = Height(c)
           /\ TableOf(c) = Empty <=> Height(c) = StartHeight - 1
           /\ \A h \in StartHeight..Height(c) : TableOf(c)[h] = RecordOf(At(c, h))
           /\ TableTip(TableOf(c)) = TipOf(c) /\ next_txnum(TableOf(c)) = NumbersOf(c)
<1>1. PICK t, H : t = TableOf(c) /\ H = Height(c)
  OBVIOUS
<1>2. /\ H \in Int /\ StartHeight \in Nat /\ StartHeight - 1 <= H /\ c \in Blocks /\ Len(c) = H + 1
      /\ H >= StartHeight => c \in Chains /\ c # <<>> /\ Front(c) \in Ground
  BY <1>1, GroundIs
<1>3. DOMAIN t = StartHeight..H /\ \A h \in StartHeight..H : t[h] = RecordOf(At(c, h))
  BY <1>1 DEF TableOf
<1>4. Cardinality(StartHeight..H) = IF StartHeight > H THEN 0 ELSE H - StartHeight + 1
  BY <1>2, FS_Interval
<1>5. TipHeight(t) = H
  BY <1>2, <1>3, <1>4 DEF TipHeight
<1>6. CASE H = StartHeight - 1
  <2>1. PICK d : d = StoreOf(c, Empty, Empty)
    OBVIOUS
  <2>2. d.blocks = t
    BY <1>1, <2>1, StoreIsStore
  <2>3. d = [blocks |-> Empty, txids |-> Empty, history |-> {}, utxo |-> Empty,
             undo |-> Empty, render |-> Empty, tip |-> None]
        /\ NumbersOf(c) = 0 /\ TipOf(c) = None
    BY <1>1, <1>6, <2>1, EmptyStore
  <2>4. t = Empty
    BY <2>2, <2>3
  <2> QED
    BY <1>1, <1>3, <1>5, <1>6, <2>3, <2>4 DEF TableTip, next_txnum
<1>7. CASE H >= StartHeight
  <2>1. H \in DOMAIN t
    BY <1>2, <1>3, <1>7
  <2>2. DOMAIN Empty = {}
    BY DEF Empty
  <2>3. t # Empty
    BY <2>1, <2>2
  <2>4. t[H] = RecordOf(c)
    BY <1>1, <1>2, <1>3, <2>1, AtTip
  <2>5. TableTip(t) = c /\ TipOf(c) = c
    BY <1>1, <1>5, <1>7, <2>3, <2>4 DEF TableTip, TipOf, RecordOf
  <2>6. NumbersOf(c) = NumbersOf(Front(c)) + Len(TxsOf(c))
    BY <1>1, <1>7, IndexedStep
  <2>7. next_txnum(t) = NumbersOf(c)
    BY <1>5, <2>3, <2>4, <2>6 DEF next_txnum, RecordOf
  <2> QED
    BY <1>1, <1>2, <1>3, <1>5, <1>7, <2>3, <2>5, <2>7
<1> QED
  BY <1>2, <1>6, <1>7

\* The tip a store or a table names is a chain, or none.
LEMMA TipIs ==
    ASSUME NEW c \in Ground
    PROVE  /\ TipOf(c) = None <=> Height(c) = StartHeight - 1
           /\ TipOf(c) # None => TipOf(c) = c /\ c \in Chains /\ Height(c) >= StartHeight
<1>1. /\ Height(c) \in Int /\ StartHeight \in Nat /\ StartHeight - 1 <= Height(c)
      /\ Height(c) >= StartHeight => c \in Chains
  BY GroundIs
<1>2. Height(c) >= StartHeight => c # None
  BY <1>1, ValidChains
<1> QED
  BY <1>1, <1>2 DEF TipOf

\* Two chains below the start height have the same rows.
LEMMA SameRows ==
    ASSUME NEW c \in Ground, NEW b \in Ground, TipOf(c) = TipOf(b)
    PROVE  /\ TableOf(c) = TableOf(b) /\ Height(c) = Height(b)
           /\ \A u, r : StoreOf(c, u, r) = StoreOf(b, u, r)
<1>1. CASE TipOf(c) = None
  <2>1. Height(c) = StartHeight - 1 /\ Height(b) = StartHeight - 1
    BY <1>1, TipIs
  <2>2. TableOf(c) = Empty /\ TableOf(b) = Empty
    BY <2>1, TableIs
  <2>3. ASSUME NEW u, NEW r PROVE StoreOf(c, u, r) = StoreOf(b, u, r)
    BY <2>1, EmptyStore
  <2> QED
    BY <2>1, <2>2, <2>3
<1>2. CASE TipOf(c) # None
  BY <1>2, TipIs
<1> QED
  BY <1>1, <1>2

\* The chain the blocks follow is theirs.
LEMMA LinkedOn ==
    ASSUME NEW c \in Ground, NEW s, Linked(c, s)
    PROVE  \A i \in 1..Len(s) : At(s[i], Height(c)) = c
<1> DEFINE Odd == {i \in 1..Len(s) : At(s[i], Height(c)) # c}
<1> SUFFICES ASSUME Odd # {} PROVE FALSE
  OBVIOUS
<1>1. Odd \in SUBSET Nat
  BY DEF Linked
<1>2. PICK i \in Odd : \A j \in Odd : i <= j
  BY <1>1, LeastNatural
<1>3. Len(s) \in Nat /\ i \in 1..Len(s) /\ i \in Nat /\ At(s[i], Height(c)) # c
  BY <1>2 DEF Linked
<1>4. /\ s[i] \in Ground /\ Height(s[i]) = Height(c) + i
      /\ Height(c) \in Int /\ -1 <= Height(c) /\ StartHeight - 1 <= Height(c) /\ StartHeight \in Nat
  BY <1>3, GroundIs DEF Linked
<1>5. s[i] \in Blocks /\ s[i] # <<>> /\ Height(c) < Height(s[i]) /\ Height(s[i]) - 1 = Height(c) + (i - 1)
  <2>1. Height(c) < Height(s[i]) /\ Height(s[i]) >= StartHeight /\ Height(s[i]) - 1 = Height(c) + (i - 1)
    BY <1>3, <1>4
  <2> QED
    BY <1>4, <2>1, GroundIs
<1>6. /\ Front(s[i]) = At(s[i], Height(s[i]) - 1)
      /\ At(s[i], Height(c)) = At(Front(s[i]), Height(c))
  BY <1>4, <1>5, FrontIs
<1>7. CASE i = 1
  <2>1. Front(s[i]) = c /\ c \in Blocks
    BY <1>3, <1>7, GroundIs DEF Linked
  <2> QED
    BY <1>3, <1>6, <2>1, AtTip
<1>8. CASE i # 1
  <2>1. i - 1 \in 1..Len(s) /\ ~(i <= i - 1) /\ Front(s[i]) = s[i - 1]
    BY <1>3, <1>8 DEF Linked
  <2>2. At(s[i - 1], Height(c)) = c
    BY <1>2, <2>1
  <2> QED
    BY <1>3, <1>6, <2>1, <2>2
<1> QED
  BY <1>7, <1>8

\* A block on the last of them.
LEMMA LinkedMore ==
    ASSUME NEW c \in Ground, NEW s \in Seq(Chains), Linked(c, s), NEW b \in Chains, b \in Ground,
           Height(b) = Height(c) + Len(s) + 1, Front(b) = TipAfter(c, s, Len(s))
    PROVE  Linked(c, Append(s, b)) /\ Len(Append(s, b)) = Len(s) + 1 /\ Append(s, b) \in Seq(Chains)
           /\ Append(s, b)[Len(s) + 1] = b
<1>1. PICK t, n : t = Append(s, b) /\ n = Len(s)
  OBVIOUS
<1>2. n \in Nat /\ Len(t) = n + 1 /\ t[n + 1] = b /\ t \in Seq(Chains) /\ \A i \in 1..n : t[i] = s[i]
  BY <1>1
<1>3. ASSUME NEW i \in 1..n + 1
      PROVE  /\ t[i] \in Ground /\ Height(t[i]) = Height(c) + i
             /\ (i = 1 => Front(t[i]) = c) /\ (i # 1 => Front(t[i]) = t[i - 1])
  <2>1. CASE i \in 1..n
    <3>1. t[i] = s[i] /\ (i # 1 => i - 1 \in 1..n)
      BY <1>2, <2>1
    <3>2. i # 1 => t[i - 1] = s[i - 1]
      BY <1>2, <3>1
    <3>3. /\ s[i] \in Ground /\ Height(s[i]) = Height(c) + i
          /\ (i = 1 => Front(s[i]) = c) /\ (i # 1 => Front(s[i]) = s[i - 1])
      BY <1>1, <2>1 DEF Linked
    <3> QED
      BY <3>1, <3>2, <3>3
  <2>2. CASE i = n + 1
    <3>1. t[i] = b /\ Height(b) = Height(c) + i
      <4>1. Height(c) \in Int
        BY GroundIs
      <4> QED
        BY <1>1, <1>2, <2>2, <4>1
    <3>2. i = 1 => Front(b) = c
      BY <1>1, <1>2, <2>2 DEF TipAfter
    <3>3. i # 1 => Front(b) = t[i - 1]
      <4>1. i # 1 => i - 1 = n /\ n # 0 /\ n \in 1..n
        BY <1>2, <2>2
      <4> QED
        BY <1>1, <1>2, <4>1 DEF TipAfter
    <3> QED
      BY <3>1, <3>2, <3>3
  <2> QED
    BY <1>2, <1>3, <2>1, <2>2
<1>4. Linked(c, t)
  BY <1>2, <1>3 DEF Linked
<1> QED
  BY <1>1, <1>2, <1>4

\* No blocks, and one.
LEMMA LinkedNone ==
    ASSUME NEW c
    PROVE  Linked(c, <<>>) /\ Len(<<>>) = 0 /\ TipAfter(c, <<>>, 0) = c
  BY DEF Linked, TipAfter

\* One block is linked to its parent.
LEMMA LinkedOne ==
    ASSUME NEW b \in Ground, Height(b) >= StartHeight
    PROVE  Linked(Front(b), <<b>>) /\ Len(<<b>>) = 1 /\ <<b>>[1] = b
<1>1. Height(Front(b)) = Height(b) - 1 /\ Height(b) \in Int
  BY GroundIs
<1> QED
  BY <1>1 DEF Linked

\* The table grown by the rows of the batch is the table of its last block.
LEMMA TableGrown ==
    ASSUME NEW c \in Ground, NEW s, Linked(c, s), Len(s) # 0,
           NEW g, g = [h \in {Height(s[i]) : i \in DOMAIN s} |-> TableOf(s[Len(s)])[h]], DOMAIN s = 1..Len(s)
    PROVE  Put(TableOf(c), g) = TableOf(s[Len(s)])
<1>1. PICK n, b, f, R, L, H : /\ n = Len(s) /\ b = s[n] /\ f = TableOf(c) /\ R = TableOf(b) /\ L = Put(f, g)
                              /\ H = Height(c)
  OBVIOUS
<1>2. n \in Nat /\ n # 0 /\ n \in 1..n /\ Len(s) = n
  BY <1>1 DEF Linked
<1>3. H \in Int /\ StartHeight \in Nat /\ StartHeight - 1 <= H /\ -1 <= H /\ c \in Blocks
  BY <1>1, GroundIs
<1>4. b \in Ground /\ b \in Blocks /\ Height(b) = H + n /\ \A i \in 1..n : Height(s[i]) = H + i
  BY <1>1, <1>2, GroundIs DEF Linked
<1>5. At(b, H) = c
  BY <1>1, <1>2, LinkedOn
<1>6. DOMAIN f = StartHeight..H /\ DOMAIN R = StartHeight..H + n
  BY <1>1, <1>4, TableIs
<1>7. DOMAIN g = H + 1..H + n
  <2>1. DOMAIN g = {Height(s[i]) : i \in 1..n}
    BY <1>2
  <2>2. ASSUME NEW h \in H + 1..H + n PROVE h \in DOMAIN g
    <3>1. h - H \in 1..n /\ H + (h - H) = h
      BY <1>2, <1>3, <2>2
    <3>2. Height(s[h - H]) = h
      BY <1>4, <3>1
    <3> QED
      BY <2>1, <3>1, <3>2
  <2>3. ASSUME NEW h \in DOMAIN g PROVE h \in H + 1..H + n
    <3>1. PICK i \in 1..n : h = H + i
      BY <1>4, <2>1, <2>3
    <3> QED
      BY <1>2, <1>3, <3>1
  <2> QED
    BY <2>2, <2>3
<1>8. DOMAIN L = DOMAIN R
  <2>1. DOMAIN L = DOMAIN f \cup DOMAIN g
    BY <1>1 DEF Put
  <2>2. StartHeight..H + n = (StartHeight..H) \cup (H + 1..H + n)
    BY <1>2, <1>3
  <2> QED
    BY <1>6, <1>7, <2>1, <2>2
<1>9. ASSUME NEW h \in DOMAIN R PROVE L[h] = R[h]
  <2>1. L[h] = IF h \in DOMAIN g THEN g[h] ELSE f[h]
    <3>1. h \in DOMAIN f \cup DOMAIN g
      BY <1>1, <1>8, <1>9 DEF Put
    <3> QED
      BY <1>1, <3>1 DEF Put
  <2>2. CASE h \in DOMAIN g
    BY <1>1, <2>1, <2>2
  <2>3. CASE h \notin DOMAIN g
    <3>1. h \in StartHeight..H /\ -1 <= h /\ h \in Int /\ h <= H /\ H <= Height(b) /\ h \in StartHeight..Height(b)
      BY <1>2, <1>3, <1>4, <1>6, <1>7, <1>9, <2>3
    <3>2. At(b, h) = At(c, h)
      BY <1>3, <1>4, <1>5, <3>1, AtAt
    <3>3. f[h] = RecordOf(At(c, h))
      BY <1>1, <3>1, TableIs
    <3>4. R[h] = RecordOf(At(b, h))
      BY <1>1, <1>4, <3>1, TableIs
    <3> QED
      BY <2>1, <2>3, <3>2, <3>3, <3>4
  <2> QED
    BY <2>2, <2>3
<1>10. L = [h \in DOMAIN L |-> L[h]] /\ R = [h \in DOMAIN R |-> R[h]]
  BY <1>1 DEF Put, TableOf
<1>11. L = R
  BY <1>8, <1>9, <1>10
<1> QED
  BY <1>1, <1>11

-----------------------------------------------------------------------------
(* Stores that are the index of a chain                                    *)

\* The store d is the index of chain c, and its undo records are of c's blocks.
IsIndex(d, c) ==
    /\ d = StoreOf(c, d.undo, d.render)
    /\ \A h \in DOMAIN d.undo : h \in StartHeight..Height(c) /\ d.undo[h] = UndoOf(At(c, h))

\* What a store that is a chain's index says.
LEMMA IndexReads ==
    ASSUME NEW d, NEW c, IsIndex(d, c)
    PROVE  /\ IsStore(d) /\ d.blocks = TableOf(c) /\ d.txids = TxidsOf(c) /\ d.history = HistoryOf(c)
           /\ d.utxo = UtxoOf(c) /\ d.tip = TipOf(c)
<1>1. d = StoreOf(c, d.undo, d.render)
  BY DEF IsIndex
<1> QED
  BY <1>1, StoreIsStore

\* Below the start height one chain is as good as another.
LEMMA IndexRebased ==
    ASSUME NEW c \in Ground, NEW b \in Ground, NEW d, IsIndex(d, c), TipOf(c) = TipOf(b)
    PROVE  IsIndex(d, b)
<1>1. TableOf(c) = TableOf(b) /\ Height(c) = Height(b) /\ StoreOf(c, d.undo, d.render) = StoreOf(b, d.undo, d.render)
  BY SameRows
<1>2. ASSUME NEW h \in DOMAIN d.undo PROVE At(c, h) = At(b, h)
  <2>1. h \in StartHeight..Height(c)
    BY <1>2 DEF IsIndex
  <2>2. Height(c) # StartHeight - 1
    <3>1. Height(c) \in Int /\ StartHeight \in Nat
      BY GroundIs
    <3> QED
      BY <2>1, <3>1
  <2>3. c = b
    BY <2>2, TipIs
  <2> QED
    BY <2>3
<1> QED
  BY <1>1, <1>2 DEF IsIndex

\* A batch on the tip.
LEMMA IndexApplied ==
    ASSUME NEW c \in Ground, NEW d, IsIndex(d, c), NEW s, Linked(c, s), Len(s) # 0,
           NEW keep \in BOOLEAN, keep => Len(s) = 1, NEW x, x = Apply(d, s, NumbersOf(c), keep)
    PROVE  /\ IsIndex(x, s[Len(s)]) /\ x.blocks = TableOf(s[Len(s)]) /\ s[Len(s)] \in Ground
           /\ x.undo = UndoKept(d.undo, s, keep, Len(s))
<1>1. PICK n, b, u, r, v : /\ n = Len(s) /\ b = s[n] /\ u = d.undo /\ r = d.render
                           /\ v = UndoKept(u, s, keep, n)
  OBVIOUS
<1>2. n \in Nat /\ n # 0 /\ n \in 1..Len(s) /\ n = Len(s)
  BY <1>1 DEF Linked
<1>3. b \in Ground /\ Height(b) = Height(c) + n
  BY <1>1, <1>2 DEF Linked
<1>4. d = StoreOf(c, u, r)
  BY <1>1 DEF IsIndex
<1>5. x = StoreOf(b, v, r)
  <2>1. Apply(StoreOf(c, u, r), s, NumbersOf(c), keep)
        = StoreOf(TipAfter(c, s, Len(s)), UndoKept(u, s, keep, Len(s)), r)
    BY BatchApplied
  <2>2. TipAfter(c, s, n) = b
    BY <1>1, <1>2 DEF TipAfter
  <2> QED
    BY <1>1, <1>4, <2>1, <2>2
<1>6. x.blocks = TableOf(b) /\ x.undo = v /\ x.render = r
  BY <1>5, StoreIsStore
<1>7. /\ Height(c) \in Int /\ Height(b) \in Int /\ StartHeight \in Nat /\ Height(c) < Height(b)
      /\ StartHeight - 1 <= Height(c) /\ b \in Blocks /\ -1 <= Height(c)
  BY <1>2, <1>3, GroundIs
<1>8. ASSUME NEW h \in DOMAIN u PROVE h \in StartHeight..Height(b) /\ u[h] = UndoOf(At(b, h))
  <2>1. h \in StartHeight..Height(c) /\ u[h] = UndoOf(At(c, h))
    BY <1>1, <1>8 DEF IsIndex
  <2>2. At(b, Height(c)) = c
    BY <1>1, <1>2, LinkedOn
  <2>3. h \in Int /\ -1 <= h /\ h <= Height(c) /\ Height(c) <= Height(b) /\ h \in StartHeight..Height(b)
    BY <1>7, <2>1
  <2>4. At(At(b, Height(c)), h) = At(b, h)
    BY <1>7, <2>3, AtAt
  <2> QED
    BY <2>1, <2>2, <2>3, <2>4
<1>9. ASSUME NEW h \in DOMAIN v PROVE h \in StartHeight..Height(b) /\ v[h] = UndoOf(At(b, h))
  <2>1. CASE ~keep
    <3>1. v = u
      BY <1>1, <2>1 DEF UndoKept
    <3> QED
      BY <1>8, <1>9, <3>1
  <2>2. CASE keep
    <3>1. PICK g : g = Row(Height(b), UndoOf(b))
      OBVIOUS
    <3>2. v = Put(u, g)
      BY <1>1, <1>2, <2>2, <3>1 DEF UndoKept
    <3>3. DOMAIN g = {Height(b)} /\ g[Height(b)] = UndoOf(b)
      BY <3>1, RowIs
    <3>4. h \in DOMAIN u \cup DOMAIN g /\ v[h] = IF h \in DOMAIN g THEN g[h] ELSE u[h]
      BY <1>9, <3>2 DEF Put
    <3>5. CASE h \in DOMAIN g
      <4>1. h = Height(b) /\ v[h] = UndoOf(b)
        BY <3>3, <3>4, <3>5
      <4>2. At(b, h) = b /\ h \in StartHeight..Height(b)
        BY <1>7, <4>1, AtTip
      <4> QED
        BY <4>1, <4>2
    <3>6. CASE h \notin DOMAIN g
      BY <1>8, <3>4, <3>6
    <3> QED
      BY <3>5, <3>6
  <2> QED
    BY <2>1, <2>2
<1>10. IsIndex(x, b)
  BY <1>5, <1>6, <1>9 DEF IsIndex
<1> QED
  BY <1>1, <1>3, <1>6, <1>10

\* The tip undone.
LEMMA IndexUndone ==
    ASSUME NEW b \in Ground, Height(b) >= StartHeight, NEW d, IsIndex(d, b), Height(b) \in DOMAIN d.undo,
           NEW x, x = Rollback(d, Height(b), d.undo[Height(b)], TipOf(Front(b)))
    PROVE  /\ IsIndex(x, Front(b)) /\ x.blocks = TableOf(Front(b)) /\ x.undo = Drop(d.undo, {Height(b)})
<1>1. PICK u, r, H, v, c : u = d.undo /\ r = d.render /\ H = Height(b) /\ v = Drop(u, {H}) /\ c = Front(b)
  OBVIOUS
<1>2. b \in Blocks /\ At(b, H) = b /\ u[H] = UndoOf(b)
  <2>1. b \in Blocks
    BY GroundIs
  <2>2. At(b, H) = b
    BY <1>1, <2>1, AtTip
  <2> QED
    BY <1>1, <2>1, <2>2 DEF IsIndex
<1>3. PICK w : w = Drop(r, NumbersOf(Front(b))..NumbersOf(Front(b)) + Len(TxsOf(b)) - 1)
  OBVIOUS
<1>4. x = StoreOf(c, v, w)
  <2>1. d = StoreOf(b, u, r)
    BY <1>1 DEF IsIndex
  <2>2. Rollback(StoreOf(b, u, r), Height(b), UndoOf(b), TipOf(Front(b))) = StoreOf(Front(b), Drop(u, {Height(b)}), w)
    BY <1>3, BlockUndone
  <2> QED
    BY <1>1, <1>2, <2>1, <2>2
<1>5. x.blocks = TableOf(c) /\ x.undo = v /\ x.render = w
  BY <1>4, StoreIsStore
<1>6. /\ c \in Ground /\ Height(c) = H - 1 /\ H \in Int /\ StartHeight \in Nat /\ b # <<>>
  BY <1>1, GroundIs
<1>7. ASSUME NEW h \in DOMAIN v PROVE h \in StartHeight..Height(c) /\ v[h] = UndoOf(At(c, h))
  <2>1. h \in DOMAIN u /\ h # H /\ v[h] = u[h]
    BY <1>1, <1>7 DEF Drop
  <2>2. h \in StartHeight..H /\ u[h] = UndoOf(At(b, h))
    BY <1>1, <2>1 DEF IsIndex
  <2>3. h \in Int /\ -1 <= h /\ h < Height(b) /\ h \in StartHeight..H - 1
    BY <1>1, <1>6, <2>1, <2>2
  <2>4. At(b, h) = At(c, h)
    BY <1>1, <1>2, <1>6, <2>3, FrontIs
  <2> QED
    BY <1>6, <2>1, <2>2, <2>3, <2>4
<1>8. IsIndex(x, c)
  BY <1>4, <1>5, <1>7 DEF IsIndex
<1> QED
  BY <1>1, <1>5, <1>8

\* Other undo records or rendered bodies.
LEMMA StoreExcept ==
    ASSUME NEW c, NEW u, NEW r, NEW d, d = StoreOf(c, u, r), NEW v
    PROVE  [d EXCEPT !.undo = v] = StoreOf(c, v, r) /\ [d EXCEPT !.render = v] = StoreOf(c, u, v)
<1>1. PICK t, T, h, U, p : t = TableOf(c) /\ T = TxidsOf(c) /\ h = HistoryOf(c) /\ U = UtxoOf(c) /\ p = TipOf(c)
  OBVIOUS
<1>2. d = [blocks |-> t, txids |-> T, history |-> h, utxo |-> U, undo |-> u, render |-> r, tip |-> p]
  BY <1>1 DEF StoreOf
<1>3. PICK y, z : y = [d EXCEPT !.undo = v] /\ z = [d EXCEPT !.render = v]
  OBVIOUS
<1>4. y \in [blocks : {t}, txids : {T}, history : {h}, utxo : {U}, undo : {v}, render : {r}, tip : {p}]
  BY <1>2, <1>3
<1>5. z \in [blocks : {t}, txids : {T}, history : {h}, utxo : {U}, undo : {u}, render : {v}, tip : {p}]
  BY <1>2, <1>3
<1>6. y = [blocks |-> t, txids |-> T, history |-> h, utxo |-> U, undo |-> v, render |-> r, tip |-> p]
  BY <1>4
<1>7. z = [blocks |-> t, txids |-> T, history |-> h, utxo |-> U, undo |-> u, render |-> v, tip |-> p]
  BY <1>5
<1>8. y = StoreOf(c, v, r)
  BY <1>1, <1>6 DEF StoreOf
<1>9. z = StoreOf(c, u, v)
  BY <1>1, <1>7 DEF StoreOf
<1> QED
  BY <1>3, <1>8, <1>9

\* Pruning takes undo records only.
LEMMA IndexPruned ==
    ASSUME NEW c, NEW d, IsIndex(d, c), NEW below, NEW x, x = PruneUndo(d, below)
    PROVE  /\ IsIndex(x, c) /\ x.blocks = d.blocks
           /\ x.undo = Drop(d.undo, {h \in DOMAIN d.undo : h < below})
<1>1. PICK u, r, v, S : u = d.undo /\ r = d.render /\ S = {h \in DOMAIN u : h < below} /\ v = Drop(u, S)
  OBVIOUS
<1>2. d = StoreOf(c, u, r)
  BY <1>1 DEF IsIndex
<1>3. x = [d EXCEPT !.undo = v]
  BY <1>1 DEF PruneUndo
<1>4. x = StoreOf(c, v, r)
  BY <1>2, <1>3, StoreExcept
<1>5. x.undo = v /\ x.render = r /\ x.blocks = TableOf(c) /\ d.blocks = TableOf(c)
  BY <1>2, <1>4, StoreIsStore
<1>6. \A h \in DOMAIN v : h \in DOMAIN u /\ v[h] = u[h]
  BY <1>1 DEF Drop
<1>7. IsIndex(x, c)
  BY <1>1, <1>4, <1>5, <1>6 DEF IsIndex
<1> QED
  BY <1>1, <1>5, <1>7

\* A cached body changes no row of the index.
LEMMA IndexRendered ==
    ASSUME NEW c, NEW d, IsIndex(d, c), NEW v, NEW x, x = [d EXCEPT !.render = v]
    PROVE  IsIndex(x, c) /\ x.blocks = d.blocks /\ x.undo = d.undo /\ x.tip = d.tip
<1>1. PICK u, r : u = d.undo /\ r = d.render
  OBVIOUS
<1>2. d = StoreOf(c, u, r)
  BY <1>1 DEF IsIndex
<1>3. x = StoreOf(c, u, v)
  <2>1. [d EXCEPT !.undo = v] = StoreOf(c, v, r) /\ [d EXCEPT !.render = v] = StoreOf(c, u, v)
    BY <1>2, StoreExcept
  <2> QED
    BY <2>1
<1>4. x.undo = u /\ x.render = v /\ x.blocks = TableOf(c) /\ d.blocks = TableOf(c) /\ x.tip = TipOf(c) /\ d.tip = TipOf(c)
  BY <1>2, <1>3, StoreIsStore
<1> QED
  BY <1>1, <1>3, <1>4 DEF IsIndex

-----------------------------------------------------------------------------
(* The inductive invariant                                                 *)

\* Block tables of chains; where the thread is while a range is under way.
Tables == {TableOf(c) : c \in Ground}
ConsumePcs == {"consume", "pub_bulk", "pub_block", "prune"}

\* The node is on the highest chain it has had.
NodeInv ==
    /\ node \in Chains /\ peak \in Chains
    /\ Height(node) <= Height(peak) /\ node = At(peak, Height(node))

\* Only a range under way has blocks.
PassInv ==
    /\ nodeTip \in Nat /\ nodeTip <= MaxHeight /\ look \in Nat
    /\ bulk \in Seq(Chains) /\ fetched \in Seq(Chains \cup {None})
    /\ pc \notin ConsumePcs => bulk = <<>> /\ fetched = <<>>

\* The store and the thread's table are of chain c; what bulk holds follows it, and what
\* was fetched has the heights after it.
SyncedTo(c) ==
    /\ table = TableOf(c) /\ IsIndex(db, c) /\ Linked(c, bulk)
    /\ \A i \in 1..Len(fetched) :
           fetched[i] # None => Height(fetched[i]) = Height(c) + Len(bulk) + i
    /\ pc \in ConsumePcs /\ look <= nodeTip => look = Height(c) + Len(bulk) + Len(fetched) + 1
Synced == \E c \in Ground : SyncedTo(c)

\* What a stop leaves is the index of a chain, and what the process sees unless bulk_dirty.
DiskInv ==
    /\ \E c \in Ground : IsIndex(disk, c)
    /\ ~dirty => disk = db
    /\ pc \in {"pub_block", "prune"} => ~dirty

\* The published table, but for the moment between a write and its publication.
ChainInv == chain \in Tables /\ (pc \notin DOMAIN AfterPublish => chain = db.blocks)

\* A view is of one chain; an answer is its row's.
ReaderInv ==
    /\ rd = [pc |-> rd.pc, table |-> rd.table, snap |-> rd.snap, row |-> rd.row,
             answer |-> rd.answer, todo |-> rd.todo]
    /\ rd.table \in Tables
    /\ rd.pc = "view" => \E c \in Ground : IsIndex(rd.snap, c) /\ rd.table = TableOf(c)
    /\ rd.pc \in {"fetched", "answered"} => rd.answer = rd.row.id

\* The inductive invariant.
IndexInv == NodeInv /\ PassInv /\ Synced /\ DiskInv /\ ChainInv /\ ReaderInv

\* A chain of the height below the start height.
LEMMA GroundFloor == \E c \in Ground : Height(c) = StartHeight - 1 /\ TableOf(c) = Empty
<1>1. PICK f \in Forks : TRUE
  <2>1. FirstChain \in Seq(Forks) /\ FirstChain # <<>>
    BY IndexConstants
  <2>2. FirstChain[1] \in Forks
    BY <2>1
  <2> QED
    BY <2>2
<1>2. StartHeight \in Nat /\ MaxHeight \in Nat /\ StartHeight <= MaxHeight
  BY IndexConstants
<1>3. PICK c : c = [i \in 1..StartHeight |-> f]
  OBVIOUS
<1>4. c \in Seq(Forks) /\ Len(c) = StartHeight
  BY <1>1, <1>2, <1>3
<1>5. Height(c) = StartHeight - 1
  BY <1>2, <1>4 DEF Height
<1>6. c \in Ground
  BY <1>2, <1>4, <1>5 DEF Ground, Blocks
<1> QED
  BY <1>5, <1>6, TableIs

\* What the thread computes from its table.
LEMMA FromIs ==
    ASSUME NEW c \in Ground, table = TableOf(c)
    PROVE  from = Height(c) + 1 /\ next_txnum(table) = NumbersOf(c) /\ TipHeight(table) = Height(c)
           /\ TableTip(table) = TipOf(c) /\ (table = Empty <=> Height(c) = StartHeight - 1)
<1>1. Height(c) \in Int /\ StartHeight \in Nat
  BY GroundIs
<1> QED
  BY <1>1, TableIs DEF from

\* A reader with nothing to do.
LEMMA EmptyIdle ==
    ASSUME NEW todo, NEW r, r = IdleReader(todo)
    PROVE  /\ r = [pc |-> r.pc, table |-> r.table, snap |-> r.snap, row |-> r.row,
                   answer |-> r.answer, todo |-> r.todo]
           /\ r.table \in Tables /\ r.pc = "idle"
<1>1. Empty \in Tables
  BY GroundFloor DEF Tables
<1> QED
  BY <1>1 DEF IdleReader

\* The invariant holds at the start.
LEMMA InitIndexInv == Init => IndexInv
<1> SUFFICES ASSUME Init PROVE IndexInv
  OBVIOUS
<1>1. NodeInv
  <2>1. FirstChain \in Blocks /\ FirstChain # <<>> /\ Len(FirstChain) <= MaxHeight + 1 /\ MaxHeight \in Nat
    BY IndexConstants DEF Blocks
  <2>2. Len(FirstChain) \in Nat /\ 1 <= Len(FirstChain)
    BY <2>1 DEF Blocks
  <2>3. FirstChain \in Chains
    BY <2>1, <2>2, ChainIs
  <2>4. At(FirstChain, Height(FirstChain)) = FirstChain
    BY <2>1, AtTip
  <2>5. Height(FirstChain) <= Height(FirstChain)
    BY <2>2 DEF Height
  <2> QED
    BY <2>3, <2>4, <2>5 DEF NodeInv, Init
<1>2. PassInv
  BY IndexConstants DEF PassInv, Init
<1>3. PICK c \in Ground : Height(c) = StartHeight - 1 /\ TableOf(c) = Empty
  BY GroundFloor
<1>4. IsIndex(NewDb, c)
  <2>1. NewDb.undo = Empty /\ NewDb.render = Empty /\ DOMAIN Empty = {}
    BY DEF NewDb, Empty
  <2>2. StoreOf(c, Empty, Empty) = [blocks |-> Empty, txids |-> Empty, history |-> {}, utxo |-> Empty,
                                    undo |-> Empty, render |-> Empty, tip |-> None]
    BY <1>3, EmptyStore
  <2>3. StoreOf(c, Empty, Empty) = NewDb
    BY <2>2 DEF NewDb
  <2> QED
    BY <2>1, <2>3 DEF IsIndex
<1>5. Synced
  <2>1. table = TableOf(c) /\ db = NewDb /\ bulk = <<>> /\ fetched = <<>> /\ pc = "idle"
    BY <1>3 DEF Init
  <2>2. Linked(c, bulk) /\ 1..Len(fetched) = {} /\ pc \notin ConsumePcs
    BY <2>1, LinkedNone DEF ConsumePcs
  <2>3. SyncedTo(c)
    BY <1>4, <2>1, <2>2 DEF SyncedTo
  <2> QED
    BY <2>3 DEF Synced
<1>6. DiskInv
  BY <1>4 DEF DiskInv, Init
<1>7. ChainInv
  <2>1. chain = Empty /\ db.blocks = Empty
    BY DEF Init, NewDb
  <2>2. Empty \in Tables
    BY <1>3 DEF Tables
  <2> QED
    BY <2>1, <2>2 DEF ChainInv
<1>8. ReaderInv
  BY EmptyIdle DEF ReaderInv, Init
<1> QED
  BY <1>1, <1>2, <1>5, <1>6, <1>7, <1>8 DEF IndexInv

-----------------------------------------------------------------------------
(* Steps of the sync thread that write nothing                             *)

\* Everything but the thread's own state stays.
LEMMA Quiet ==
    ASSUME IndexInv, UNCHANGED <<node, peak, db, chain, rd>>, UNCHANGED <<disk, dirty>> \/ disk' = db,
           {pc, pc'} \cap DOMAIN AfterPublish = {}, pc' \notin {"pub_block", "prune"}, PassInv', Synced'
    PROVE  IndexInv'
<1>1. NodeInv' /\ ReaderInv'
  BY DEF IndexInv, NodeInv, ReaderInv
<1>2. ChainInv'
  BY DEF IndexInv, ChainInv
<1>3. DiskInv'
  <2>1. Synced
    BY DEF IndexInv
  <2>2. PICK c \in Ground : IsIndex(db, c)
    BY <2>1 DEF Synced, SyncedTo
  <2>3. DiskInv
    BY DEF IndexInv
  <2>4. CASE UNCHANGED <<disk, dirty>>
    BY <2>3, <2>4 DEF DiskInv
  <2>5. CASE disk' = db
    BY <2>2, <2>5 DEF DiskInv
  <2> QED
    BY <2>4, <2>5
<1> QED
  BY <1>1, <1>2, <1>3 DEF IndexInv

\* The pass has no blocks afterwards.
LEMMA NoBlocks ==
    ASSUME IndexInv, UNCHANGED <<node, peak, db, chain, rd>>, UNCHANGED <<disk, dirty>> \/ disk' = db,
           {pc, pc'} \cap DOMAIN AfterPublish = {}, pc' \notin {"pub_block", "prune"},
           table' = table, bulk' = <<>>, fetched' = <<>>,
           nodeTip' \in Nat, nodeTip' <= MaxHeight, look' \in Nat, pc' \in ConsumePcs => look' = from
    PROVE  IndexInv'
<1>1. PassInv'
  BY DEF PassInv
<1>2. PICK c \in Ground : SyncedTo(c)
  BY DEF IndexInv, Synced
<1>3. table = TableOf(c) /\ IsIndex(db, c)
  BY <1>2 DEF SyncedTo
<1>4. from = Height(c) + 1 /\ Height(c) \in Int
  BY <1>3, FromIs, GroundIs
<1>5. Linked(c, bulk') /\ Len(bulk') = 0 /\ Len(fetched') = 0 /\ 1..Len(fetched') = {}
  BY LinkedNone
<1>6. pc' \in ConsumePcs => look' = Height(c) + Len(bulk') + Len(fetched') + 1
  BY <1>4, <1>5
<1>7. SyncedTo(c)'
  BY <1>3, <1>5, <1>6 DEF SyncedTo
<1>8. Synced'
  BY <1>7 DEF Synced
<1> QED
  BY <1>1, <1>8, Quiet

\* Where the thread has committed and not yet published.
LEMMA PubPcs == DOMAIN AfterPublish = {"pub_unwind", "pub_bulk", "pub_block", "pub_last"}
  BY DEF AfterPublish

\* What the invariant says of the thread outside a range.
LEMMA Passive ==
    ASSUME IndexInv
    PROVE  /\ nodeTip \in Nat /\ nodeTip <= MaxHeight /\ look \in Nat
           /\ (pc \notin ConsumePcs => bulk = <<>> /\ fetched = <<>>)
           /\ node \in Chains /\ Height(node) \in Nat /\ Height(node) <= MaxHeight
<1>1. NodeInv /\ PassInv
  BY DEF IndexInv
<1>2. node \in Chains
  BY <1>1 DEF NodeInv
<1>3. node \in Blocks /\ 1 <= Len(node) /\ Len(node) <= MaxHeight + 1 /\ MaxHeight \in Nat
  BY <1>2, ChainIs, IndexConstants
<1>4. Height(node) \in Nat /\ Height(node) <= MaxHeight
  BY <1>3 DEF Height, Blocks
<1> QED
  BY <1>1, <1>2, <1>4 DEF PassInv

\* ReadTip keeps the invariant: the published table is the thread's own.
LEMMA ByReadTip == IndexInv /\ ReadTip => IndexInv'
<1> SUFFICES ASSUME IndexInv, ReadTip PROVE IndexInv'
  OBVIOUS
<1>1. table' = table
  <2>1. table' = db.blocks
    BY PubPcs DEF ReadTip, IndexInv, ChainInv
  <2>2. PICK c \in Ground : SyncedTo(c)
    BY DEF IndexInv, Synced
  <2> QED
    BY <2>1, <2>2, IndexReads DEF SyncedTo
<1>2. pc = "idle" /\ pc' = "behind" /\ nodeTip' = Height(node) /\ bulk' = bulk /\ fetched' = fetched /\ look' = look
  BY DEF ReadTip
<1>3. UNCHANGED <<node, peak, db, disk, dirty, chain, rd>>
  BY DEF ReadTip, nodeVars, storeVars
<1>4. bulk' = <<>> /\ fetched' = <<>> /\ nodeTip' \in Nat /\ nodeTip' <= MaxHeight /\ look' \in Nat
  BY <1>2, Passive DEF ConsumePcs
<1>5. {pc, pc'} \cap DOMAIN AfterPublish = {} /\ pc' \notin {"pub_block", "prune"} /\ pc' \notin ConsumePcs
  BY <1>2, PubPcs DEF ConsumePcs
<1> QED
  BY <1>1, <1>3, <1>4, <1>5, NoBlocks

\* A pass given up keeps it.
LEMMA ByRetry ==
    ASSUME IndexInv, Retry, pc \in {"behind", "unwind", "consume"},
           UNCHANGED <<node, peak, db, disk, dirty, chain, rd>>
    PROVE  IndexInv'
<1>1. pc' = "idle" /\ bulk' = <<>> /\ fetched' = <<>> /\ table' = table /\ nodeTip' = nodeTip /\ look' = look
  BY DEF Retry
<1>2. nodeTip' \in Nat /\ nodeTip' <= MaxHeight /\ look' \in Nat
  BY <1>1, Passive
<1>3. {pc, pc'} \cap DOMAIN AfterPublish = {} /\ pc' \notin {"pub_block", "prune"} /\ pc' \notin ConsumePcs
  BY <1>1, PubPcs DEF ConsumePcs
<1> QED
  BY <1>1, <1>2, <1>3, NoBlocks

\* The thread moves on, outside a range.
LEMMA ByMove ==
    ASSUME IndexInv, pc \in {"behind", "unwind", "fetch"}, pc' \in {"idle", "unwind", "fetch", "fatal"},
           UNCHANGED <<node, peak, db, chain, rd, table, nodeTip, bulk, fetched, look>>,
           UNCHANGED <<disk, dirty>> \/ disk' = db
    PROVE  IndexInv'
<1>1. bulk' = <<>> /\ fetched' = <<>> /\ nodeTip' \in Nat /\ nodeTip' <= MaxHeight /\ look' \in Nat
  BY Passive DEF ConsumePcs
<1>2. {pc, pc'} \cap DOMAIN AfterPublish = {} /\ pc' \notin {"pub_block", "prune"} /\ pc' \notin ConsumePcs
  BY PubPcs DEF ConsumePcs
<1> QED
  BY <1>1, <1>2, NoBlocks

\* The checks before and between rollbacks keep it, and a fatal error too.
LEMMA ByUnwindQuiet == IndexInv /\ (Behind \/ UnwindDone \/ UnwindFails \/ NoUndo \/ NothingToDo) => IndexInv'
<1>1. ASSUME IndexInv, Behind PROVE IndexInv'
  <2>1. pc = "behind" /\ UNCHANGED <<node, peak, db, disk, dirty, chain, rd>>
    BY <1>1 DEF Behind, nodeVars, storeVars
  <2>2. Retry \/ (pc' = "unwind" /\ UNCHANGED passVars)
    BY <1>1 DEF Behind
  <2>3. CASE Retry
    BY <1>1, <2>1, <2>3, ByRetry
  <2>4. CASE pc' = "unwind" /\ UNCHANGED passVars
    <3>1. UNCHANGED <<table, nodeTip, bulk, fetched, look>>
      BY <2>4 DEF passVars
    <3> QED
      BY <1>1, <2>1, <2>4, <3>1, ByMove
  <2> QED
    BY <2>2, <2>3, <2>4
<1>2. ASSUME IndexInv, UnwindDone PROVE IndexInv'
  <2>1. /\ pc = "unwind" /\ pc' = "fetch" /\ UNCHANGED <<node, peak, db, disk, dirty, chain, rd>>
        /\ UNCHANGED <<table, nodeTip, bulk, fetched, look>>
    BY <1>2 DEF UnwindDone, nodeVars, storeVars, passVars
  <2> QED
    BY <1>2, <2>1, ByMove
<1>3. ASSUME IndexInv, UnwindFails PROVE IndexInv'
  <2>1. pc = "unwind" /\ UNCHANGED <<node, peak, db, disk, dirty, chain, rd>> /\ Retry
    BY <1>3 DEF UnwindFails, nodeVars, storeVars
  <2> QED
    BY <1>3, <2>1, ByRetry
<1>4. ASSUME IndexInv, NoUndo PROVE IndexInv'
  <2>1. /\ pc = "unwind" /\ pc' = "fatal" /\ UNCHANGED <<node, peak, db, disk, dirty, chain, rd>>
        /\ UNCHANGED <<table, nodeTip, bulk, fetched, look>>
    BY <1>4 DEF NoUndo, nodeVars, storeVars, passVars
  <2> QED
    BY <1>4, <2>1, ByMove
<1>5. ASSUME IndexInv, NothingToDo PROVE IndexInv'
  <2>1. /\ pc = "fetch" /\ pc' = "idle" /\ UNCHANGED <<node, peak, db, chain, rd>>
        /\ UNCHANGED <<table, nodeTip, bulk, fetched, look>>
        /\ UNCHANGED <<disk, dirty>> \/ disk' = db
    BY <1>5 DEF NothingToDo, nodeVars
  <2> QED
    BY <1>5, <2>1, ByMove
<1> QED
  BY <1>1, <1>2, <1>3, <1>4, <1>5

\* fetch_range keeps it: the first height to look up is the one after our tip.
LEMMA ByFetchRange == IndexInv /\ fetch_range => IndexInv'
<1> SUFFICES ASSUME IndexInv, fetch_range PROVE IndexInv'
  OBVIOUS
<1>1. /\ pc = "fetch" /\ pc' = "consume" /\ look' = from /\ bulk' = <<>> /\ fetched' = <<>> /\ table' = table
      /\ nodeTip' = nodeTip /\ UNCHANGED <<node, peak, db, disk, dirty, chain, rd>>
  BY DEF fetch_range, nodeVars, storeVars
<1>2. look' \in Nat /\ nodeTip' \in Nat /\ nodeTip' <= MaxHeight
  <2>1. PICK c \in Ground : SyncedTo(c)
    BY DEF IndexInv, Synced
  <2>2. from = Height(c) + 1 /\ Height(c) \in Int /\ StartHeight - 1 <= Height(c) /\ StartHeight \in Nat
    BY <2>1, FromIs, GroundIs DEF SyncedTo
  <2>3. from \in Nat
    BY <2>2
  <2> QED
    BY <1>1, <2>3, Passive
<1>3. {pc, pc'} \cap DOMAIN AfterPublish = {} /\ pc' \notin {"pub_block", "prune"}
  BY <1>1, PubPcs
<1> QED
  BY <1>1, <1>2, <1>3, NoBlocks

-----------------------------------------------------------------------------
(* Blocks looked up                                                        *)

\* The smaller of two.
LEMMA MinTwo ==
    ASSUME NEW x \in Int, NEW y \in Int
    PROVE  Min({x, y}) \in Int /\ Min({x, y}) <= x /\ Min({x, y}) <= y /\ Min({x, y}) \in {x, y}
<1>1. \E m \in {x, y} : \A z \in {x, y} : m <= z
  <2>1. CASE x <= y
    BY <2>1
  <2>2. CASE y <= x
    BY <2>2
  <2> QED
    BY <2>1, <2>2
<1>2. Min({x, y}) \in {x, y} /\ \A z \in {x, y} : Min({x, y}) <= z
  BY <1>1 DEF Min
<1> QED
  BY <1>2

\* The look-up of some more hashes, or its failure.
LEMMA LookedUp ==
    ASSUME IndexInv, pc = "consume", pc' = pc, look <= nodeTip, NEW g \in Seq(Chains \cup {None}),
           fetched' = fetched \o g, \A i \in 1..Len(g) : g[i] # None => Height(g[i]) = look + i - 1,
           look' \in Nat, look' <= nodeTip => look' = look + Len(g),
           UNCHANGED <<node, peak, db, disk, dirty, chain, rd, table, nodeTip, bulk>>
    PROVE  IndexInv'
<1>1. PICK c \in Ground : SyncedTo(c)
  BY DEF IndexInv, Synced
<1>2. PICK n, k : n = Len(fetched) /\ k = Height(c) + Len(bulk)
  OBVIOUS
<1>3. /\ fetched \in Seq(Chains \cup {None}) /\ bulk \in Seq(Chains) /\ nodeTip \in Nat /\ look \in Nat
      /\ nodeTip <= MaxHeight
  BY DEF IndexInv, PassInv
<1>4. n \in Nat /\ k \in Int /\ Len(g) \in Nat
  BY <1>2, <1>3, GroundIs
<1>5. look = k + n + 1 /\ \A i \in 1..n : fetched[i] # None => Height(fetched[i]) = k + i
  BY <1>1, <1>2 DEF SyncedTo, ConsumePcs
<1>6. PICK f : f = fetched \o g
  OBVIOUS
<1>7. /\ f \in Seq(Chains \cup {None}) /\ Len(f) = n + Len(g) /\ \A i \in 1..n : f[i] = fetched[i]
      /\ \A i \in n + 1..n + Len(g) : f[i] = g[i - n]
  BY <1>2, <1>3, <1>4, <1>6
<1>8. ASSUME NEW i \in 1..Len(f), f[i] # None PROVE Height(f[i]) = k + i
  <2>1. CASE i <= n
    <3>1. i \in 1..n
      BY <1>4, <1>8, <2>1
    <3> QED
      BY <1>5, <1>7, <1>8, <3>1
  <2>2. CASE i > n
    <3>1. i \in n + 1..n + Len(g) /\ i - n \in 1..Len(g) /\ look + (i - n) - 1 = k + i
      BY <1>3, <1>4, <1>5, <1>7, <1>8, <2>2
    <3>2. f[i] = g[i - n]
      BY <1>7, <3>1
    <3> QED
      BY <1>8, <3>1, <3>2
  <2> QED
    BY <1>4, <1>7, <1>8, <2>1, <2>2
<1>9. PassInv'
  BY <1>3, <1>6, <1>7 DEF PassInv, ConsumePcs
<1>10. look' <= nodeTip' => look' = k + Len(f) + 1
  <2>1. Len(f) = n + Len(g) /\ look = k + n + 1
    BY <1>5, <1>7
  <2>2. look' <= nodeTip => look' = look + Len(g)
    OBVIOUS
  <2> QED
    BY <1>4, <2>1, <2>2
<1>11. SyncedTo(c)'
  <2>1. table = TableOf(c) /\ IsIndex(db, c) /\ Linked(c, bulk)
    BY <1>1 DEF SyncedTo
  <2> QED
    BY <1>2, <1>6, <1>8, <1>10, <2>1 DEF SyncedTo
<1>12. Synced'
  BY <1>11 DEF Synced
<1>13. {pc, pc'} \cap DOMAIN AfterPublish = {} /\ pc' \notin {"pub_block", "prune"}
  BY PubPcs
<1> QED
  BY <1>9, <1>12, <1>13, Quiet

\* A look-up that fails keeps it.
LEMMA LookUpFails ==
    ASSUME IndexInv, pc = "consume", pc' = pc, look <= nodeTip, fetched' = Append(fetched, None), look' = nodeTip + 1,
           UNCHANGED <<node, peak, db, disk, dirty, chain, rd, table, nodeTip, bulk>>
    PROVE  IndexInv'
<1>1. fetched \in Seq(Chains \cup {None}) /\ nodeTip \in Nat
  BY DEF IndexInv, PassInv
<1>2. PICK g : g = <<None>>
  OBVIOUS
<1>3. g \in Seq(Chains \cup {None}) /\ Len(g) = 1 /\ g[1] = None
  BY <1>2
<1>4. Append(fetched, None) = fetched \o g
  <2>1. fetched \o <<None>> = Append(fetched, None)
    BY <1>1
  <2> QED
    BY <1>2, <2>1
<1>5. \A i \in 1..Len(g) : g[i] = None
  BY <1>3
<1>6. look' \in Nat /\ ~(look' <= nodeTip)
  BY <1>1
<1> QED
  BY <1>3, <1>4, <1>5, <1>6, LookedUp

\* hash_stage keeps it: the hashes of one batch have the next heights.
LEMMA ByHashStage == IndexInv /\ hash_stage => IndexInv'
<1> SUFFICES ASSUME IndexInv, hash_stage PROVE IndexInv'
  OBVIOUS
<1>1. PICK to : to = Min({look + HashBatch - 1, nodeTip})
  OBVIOUS
<1>2. /\ pc = "consume" /\ look <= nodeTip /\ pc' = pc
      /\ UNCHANGED <<node, peak, db, disk, dirty, chain, rd, table, nodeTip, bulk>>
  BY DEF hash_stage, nodeVars, storeVars
<1>3. \/ /\ Height(node) >= to
         /\ fetched' = fetched \o [i \in 1..(to - look + 1) |-> At(node, look + i - 1)] /\ look' = to + 1
      \/ fetched' = Append(fetched, None) /\ look' = nodeTip + 1
  BY <1>1 DEF hash_stage
<1>4. CASE fetched' = Append(fetched, None) /\ look' = nodeTip + 1
  BY <1>2, <1>4, LookUpFails
<1>5. CASE /\ Height(node) >= to
           /\ fetched' = fetched \o [i \in 1..(to - look + 1) |-> At(node, look + i - 1)] /\ look' = to + 1
  <2>1. /\ nodeTip \in Nat /\ look \in Nat /\ HashBatch \in Nat \ {0} /\ nodeTip <= MaxHeight
        /\ node \in Chains /\ node \in Blocks /\ Height(node) \in Nat
    BY Passive, ChainIs, IndexConstants
  <2>2. to \in Int /\ to <= nodeTip /\ look <= to
    <3>1. look + HashBatch - 1 \in Int /\ look <= look + HashBatch - 1
      BY <2>1
    <3>2. to \in Int /\ to <= nodeTip /\ to \in {look + HashBatch - 1, nodeTip}
        <4>1. PICK x, y : x = look + HashBatch - 1 /\ y = nodeTip
        OBVIOUS
      <4>2. x \in Int /\ y \in Int /\ to = Min({x, y})
        BY <1>1, <2>1, <3>1, <4>1
      <4>3. Min({x, y}) \in Int /\ Min({x, y}) <= y /\ Min({x, y}) \in {x, y}
        BY <4>2, MinTwo
      <4> QED
        BY <4>1, <4>2, <4>3
    <3> QED
      BY <1>2, <3>1, <3>2
  <2>3. PICK k, g : k = to - look + 1 /\ g = [i \in 1..k |-> At(node, look + i - 1)]
    OBVIOUS
  <2>4. k \in Nat /\ k >= 1
    BY <2>1, <2>2, <2>3
  <2>5. ASSUME NEW i \in 1..k PROVE At(node, look + i - 1) \in Chains /\ Height(At(node, look + i - 1)) = look + i - 1
    <3>1. look + i - 1 \in Nat /\ look + i - 1 <= Height(node) /\ -1 <= look + i - 1 /\ look + i - 1 \in Int
      BY <1>5, <2>1, <2>2, <2>3, <2>5
    <3> QED
      BY <2>1, <3>1, AtChain, AtIs
  <2>6. g \in Seq(Chains \cup {None}) /\ Len(g) = k /\ \A i \in 1..k : Height(g[i]) = look + i - 1
    BY <2>3, <2>4, <2>5
  <2>7. look' \in Nat /\ look' = look + Len(g) /\ fetched' = fetched \o g
    BY <1>5, <2>1, <2>2, <2>3, <2>6
  <2> QED
    BY <1>2, <2>6, <2>7, LookedUp
<1> QED
  BY <1>3, <1>4, <1>5

\* A call of the node that fails keeps it.
LEMMA ByNodeDown == IndexInv /\ NodeDown => IndexInv'
<1> SUFFICES ASSUME IndexInv, NodeDown PROVE IndexInv'
  OBVIOUS
<1>1. UNCHANGED <<node, peak, db, disk, dirty, chain, rd>>
  BY DEF NodeDown, storeVars
<1>2. CASE pc \in {"behind", "unwind"} /\ Retry
  BY <1>1, <1>2, ByRetry
<1>3. CASE /\ pc = "consume" /\ look <= nodeTip
           /\ fetched' = Append(fetched, None) /\ look' = nodeTip + 1
           /\ UNCHANGED <<table, nodeTip, bulk, follow, pc>>
  BY <1>1, <1>3, LookUpFails
<1> QED
  BY <1>2, <1>3 DEF NodeDown

\* The end of a failed range keeps it.
LEMMA ByConsumeFails == IndexInv /\ ConsumeFails => IndexInv'
<1> SUFFICES ASSUME IndexInv, ConsumeFails PROVE IndexInv'
  OBVIOUS
<1>1. pc = "consume" /\ Retry /\ UNCHANGED <<node, peak, db, disk, dirty, chain, rd>>
  BY DEF ConsumeFails, nodeVars, storeVars
<1> QED
  BY <1>1, ByRetry

-----------------------------------------------------------------------------
(* Blocks consumed                                                         *)

\* The next block follows what the store and bulk hold.
LEMMA NextBlock ==
    ASSUME IndexInv, pc = "consume", fetched # <<>>, NEW b, b = Head(fetched), b # None, Follows(b)
    PROVE  \E c \in Ground :
               /\ SyncedTo(c) /\ b \in Ground /\ b \in Chains /\ Height(b) = Height(c) + Len(bulk) + 1
               /\ Height(b) >= StartHeight /\ Front(b) = TipAfter(c, bulk, Len(bulk))
<1>1. PICK c \in Ground : SyncedTo(c)
  BY DEF IndexInv, Synced
<1>2. fetched \in Seq(Chains \cup {None}) /\ bulk \in Seq(Chains) /\ Len(bulk) \in Nat
  BY DEF IndexInv, PassInv
<1>3. 1 \in 1..Len(fetched) /\ b = fetched[1] /\ b \in Chains
  BY <1>2
<1>4. Height(b) = Height(c) + Len(bulk) + 1
  BY <1>1, <1>3 DEF SyncedTo
<1>5. /\ Height(c) \in Int /\ StartHeight \in Nat /\ StartHeight - 1 <= Height(c) /\ MaxHeight \in Nat
  BY GroundIs
<1>6. b \in Ground /\ Height(b) >= StartHeight
  <2>1. b \in Blocks /\ Len(b) \in Nat /\ Len(b) <= MaxHeight + 1
    BY <1>3, ChainIs DEF Blocks
  <2>2. Height(b) >= StartHeight /\ Height(b) <= MaxHeight
    BY <1>2, <1>4, <1>5, <2>1 DEF Height
  <2> QED
    <3>1. Height(b) \in Int /\ StartHeight - 1 <= Height(b)
      BY <1>5, <2>1, <2>2 DEF Height
    <3> QED
      BY <2>1, <2>2, <3>1 DEF Ground
<1>7. TableTip(table) = TipOf(c)
  BY <1>1, FromIs DEF SyncedTo
<1>8. CASE bulk # <<>>
  <2>1. Len(bulk) # 0 /\ Last(bulk) = bulk[Len(bulk)] /\ Last(bulk) \in Chains
    BY <1>2, <1>8 DEF Last
  <2>2. Front(b) = Last(bulk)
    BY <1>8, <2>1, ValidChains DEF Follows, Prev
  <2>3. Front(b) = TipAfter(c, bulk, Len(bulk))
    BY <2>1, <2>2 DEF TipAfter
  <2> QED
    BY <1>1, <1>3, <1>4, <1>6, <2>3
<1>9. CASE bulk = <<>> /\ TipOf(c) # None
  <2>1. TipOf(c) = c /\ Len(bulk) = 0
    BY <1>9, TipIs
  <2>2. Front(b) = c
    BY <1>7, <1>9, <2>1 DEF Follows, Prev
  <2>3. Front(b) = TipAfter(c, bulk, Len(bulk))
    BY <2>1, <2>2 DEF TipAfter
  <2> QED
    BY <1>1, <1>3, <1>4, <1>6, <2>3
<1>10. CASE bulk = <<>> /\ TipOf(c) = None
  <2>1. Height(c) = StartHeight - 1 /\ Len(bulk) = 0
    BY <1>10, TipIs
  <2>2. PICK a : a = Front(b)
    OBVIOUS
  <2>3. a \in Ground /\ Height(a) = Height(b) - 1
    BY <1>6, <2>2, GroundIs
  <2>4. Height(a) = Height(c) /\ Height(a) = StartHeight - 1
    BY <1>4, <1>5, <2>1, <2>3
  <2>5. TipOf(a) = TipOf(c)
    BY <1>10, <2>3, <2>4, TipIs
  <2>6. table = TableOf(a) /\ IsIndex(db, a)
    BY <1>1, <2>3, <2>5, SameRows, IndexRebased DEF SyncedTo
  <2>7. SyncedTo(a)
    <3>1. Linked(a, bulk)
      BY <1>10, LinkedNone
    <3> QED
      BY <1>1, <2>4, <2>6, <3>1 DEF SyncedTo
  <2>8. a = TipAfter(a, bulk, Len(bulk))
    BY <2>1 DEF TipAfter
  <2> QED
    BY <1>3, <1>4, <1>6, <2>2, <2>3, <2>4, <2>7, <2>8
<1> QED
  BY <1>8, <1>9, <1>10

\* The others.
RangeFrom(f, n) ==
    /\ f \in Seq(Chains \cup {None})
    /\ \A i \in 1..Len(f) : f[i] # None => Height(f[i]) = n + i
    /\ look <= nodeTip => look = n + Len(f) + 1

\* What is left of the range after its first block.
LEMMA RestOfRange ==
    ASSUME IndexInv, pc = "consume", fetched # <<>>, NEW c \in Ground, SyncedTo(c)
    PROVE  RangeFrom(Tail(fetched), Height(c) + Len(bulk) + 1)
<1>1. PICK f, n : f = Tail(fetched) /\ n = Height(c) + Len(bulk) + 1
  OBVIOUS
<1>2. fetched \in Seq(Chains \cup {None}) /\ bulk \in Seq(Chains) /\ Len(bulk) \in Nat /\ Height(c) \in Int
  BY GroundIs DEF IndexInv, PassInv
<1>3. /\ f \in Seq(Chains \cup {None}) /\ Len(f) = Len(fetched) - 1 /\ Len(f) \in Nat
      /\ \A i \in 1..Len(f) : f[i] = fetched[i + 1]
  BY <1>1, <1>2
<1>4. ASSUME NEW i \in 1..Len(f), f[i] # None PROVE Height(f[i]) = n + i
  <2>1. i + 1 \in 1..Len(fetched) /\ Height(c) + Len(bulk) + (i + 1) = n + i
    BY <1>1, <1>2, <1>3, <1>4
  <2> QED
    BY <1>3, <1>4, <2>1 DEF SyncedTo
<1>5. look <= nodeTip => look = n + Len(f) + 1
  <2>1. look <= nodeTip => look = Height(c) + Len(bulk) + Len(fetched) + 1
    BY DEF SyncedTo, ConsumePcs
  <2> QED
    BY <1>1, <1>2, <1>3, <2>1
<1>6. RangeFrom(f, n)
  BY <1>3, <1>4, <1>5 DEF RangeFrom
<1> QED
  BY <1>1, <1>6

\* Blocks written.
LEMMA Written ==
    ASSUME NEW c \in Ground, SyncedTo(c), NEW s \in Seq(Chains), Linked(c, s), s # <<>>,
           NEW b, b = s[Len(s)]
    PROVE  \A keep \in BOOLEAN : \A x :
               (keep => Len(s) = 1) /\ x = Apply(db, s, next_txnum(table), keep) =>
                   /\ b \in Ground /\ IsIndex(x, b) /\ x.undo = UndoKept(db.undo, s, keep, Len(s))
                   /\ x.blocks = TableOf(b)
                   /\ Put(table, [h \in {Height(s[i]) : i \in DOMAIN s} |-> x.blocks[h]]) = TableOf(b)
<1> SUFFICES ASSUME NEW keep \in BOOLEAN, NEW x, keep => Len(s) = 1, x = Apply(db, s, next_txnum(table), keep)
    PROVE   /\ b \in Ground /\ IsIndex(x, b) /\ x.undo = UndoKept(db.undo, s, keep, Len(s))
            /\ x.blocks = TableOf(b)
            /\ Put(table, [h \in {Height(s[i]) : i \in DOMAIN s} |-> x.blocks[h]]) = TableOf(b)
  OBVIOUS
<1>1. IsIndex(db, c) /\ next_txnum(table) = NumbersOf(c) /\ table = TableOf(c)
  BY FromIs DEF SyncedTo
<1>2. Len(s) # 0 /\ DOMAIN s = 1..Len(s)
  OBVIOUS
<1>3. /\ IsIndex(x, b) /\ x.blocks = TableOf(b) /\ b \in Ground
      /\ x.undo = UndoKept(db.undo, s, keep, Len(s))
  <2>1. x = Apply(db, s, NumbersOf(c), keep)
    BY <1>1
  <2>2. PICK d : d = db
    OBVIOUS
  <2>3. /\ IsIndex(x, s[Len(s)]) /\ x.blocks = TableOf(s[Len(s)]) /\ s[Len(s)] \in Ground
        /\ x.undo = UndoKept(d.undo, s, keep, Len(s))
    <3>1. IsIndex(d, c) /\ Linked(c, s) /\ Len(s) # 0 /\ (keep => Len(s) = 1) /\ x = Apply(d, s, NumbersOf(c), keep)
      BY <1>1, <1>2, <2>1, <2>2
    <3> QED
      BY ONLY c \in Ground, keep \in BOOLEAN, <3>1, IndexApplied
  <2> QED
    BY <2>2, <2>3
<1>4. PICK g : g = [h \in {Height(s[i]) : i \in DOMAIN s} |-> x.blocks[h]]
  OBVIOUS
<1>5. g = [h \in {Height(s[i]) : i \in DOMAIN s} |-> TableOf(s[Len(s)])[h]]
  BY <1>3, <1>4
<1>6. Put(TableOf(c), g) = TableOf(b)
  BY <1>2, <1>5, TableGrown
<1> QED
  BY <1>1, <1>3, <1>4, <1>6

\* The store x and the table grown by the blocks s are of their last block b.
WroteTo(x, s, b, undo) ==
    /\ b \in Ground /\ IsIndex(x, b) /\ x.undo = undo /\ x.blocks = TableOf(b)
    /\ Put(table, [h \in {Height(s[i]) : i \in DOMAIN s} |-> x.blocks[h]]) = TableOf(b)

\* Without undo records, and one block with its own.
LEMMA WrittenBulk ==
    ASSUME NEW c \in Ground, SyncedTo(c), NEW s \in Seq(Chains), Linked(c, s), s # <<>>,
           NEW b, b = s[Len(s)], NEW x, x = Apply(db, s, next_txnum(table), FALSE)
    PROVE  WroteTo(x, s, b, db.undo)
<1>1. \A keep \in BOOLEAN : \A y :
          (keep => Len(s) = 1) /\ y = Apply(db, s, next_txnum(table), keep) =>
              /\ b \in Ground /\ IsIndex(y, b) /\ y.undo = UndoKept(db.undo, s, keep, Len(s))
              /\ y.blocks = TableOf(b)
              /\ Put(table, [h \in {Height(s[i]) : i \in DOMAIN s} |-> y.blocks[h]]) = TableOf(b)
  BY Written
<1>2. /\ b \in Ground /\ IsIndex(x, b) /\ x.undo = UndoKept(db.undo, s, FALSE, Len(s))
      /\ x.blocks = TableOf(b)
      /\ Put(table, [h \in {Height(s[i]) : i \in DOMAIN s} |-> x.blocks[h]]) = TableOf(b)
  BY <1>1, Zenon
<1> QED
  <2>1. UndoKept(db.undo, s, FALSE, Len(s)) = db.undo
    BY DEF UndoKept
  <2> QED
    BY <1>2, <2>1 DEF WroteTo

\* ... and one block with its own.
LEMMA WrittenDurable ==
    ASSUME NEW c \in Ground, SyncedTo(c), NEW s \in Seq(Chains), Linked(c, s), Len(s) = 1,
           NEW b, b = s[1], NEW x, x = Apply(db, s, next_txnum(table), TRUE)
    PROVE  WroteTo(x, s, b, Put(db.undo, Row(Height(b), UndoOf(b))))
<1>0. s # <<>> /\ b = s[Len(s)]
  OBVIOUS
<1>1. \A keep \in BOOLEAN : \A y :
          (keep => Len(s) = 1) /\ y = Apply(db, s, next_txnum(table), keep) =>
              /\ b \in Ground /\ IsIndex(y, b) /\ y.undo = UndoKept(db.undo, s, keep, Len(s))
              /\ y.blocks = TableOf(b)
              /\ Put(table, [h \in {Height(s[i]) : i \in DOMAIN s} |-> y.blocks[h]]) = TableOf(b)
  BY <1>0, Written
<1>2. /\ b \in Ground /\ IsIndex(x, b) /\ x.undo = UndoKept(db.undo, s, TRUE, Len(s))
      /\ x.blocks = TableOf(b)
      /\ Put(table, [h \in {Height(s[i]) : i \in DOMAIN s} |-> x.blocks[h]]) = TableOf(b)
  BY <1>1, Zenon
<1> QED
  <2>1. UndoKept(db.undo, s, TRUE, Len(s)) = Put(db.undo, Row(Height(b), UndoOf(b)))
    BY DEF UndoKept
  <2> QED
    BY <1>2, <2>1 DEF WroteTo

\* A write of the thread, to be published.
LEMMA WriteStep ==
    ASSUME IndexInv, UNCHANGED <<node, peak, chain, rd>>, pc' \in DOMAIN AfterPublish,
           PassInv', NEW b \in Ground, SyncedTo(b)',
           \/ disk' = db'
           \/ disk' = disk /\ dirty' = TRUE /\ pc' \notin {"pub_block", "prune"},
           dirty' = FALSE \/ pc' \notin {"pub_block", "prune"}
    PROVE  IndexInv'
<1>1. NodeInv' /\ ReaderInv'
  BY DEF IndexInv, NodeInv, ReaderInv
<1>2. ChainInv'
  BY DEF IndexInv, ChainInv
<1>3. Synced'
  BY DEF Synced
<1>4. DiskInv'
  <2>1. IsIndex(db', b) /\ DiskInv
    BY DEF SyncedTo, IndexInv
  <2>2. CASE disk' = db'
    BY <2>1, <2>2 DEF DiskInv
  <2>3. CASE disk' = disk /\ dirty' = TRUE /\ pc' \notin {"pub_block", "prune"}
    BY <2>1, <2>3 DEF DiskInv
  <2> QED
    BY <2>2, <2>3
<1> QED
  BY <1>1, <1>2, <1>3, <1>4 DEF IndexInv

\* The thread's state after a write that leaves f of the range.
LEMMA AfterWrite ==
    ASSUME IndexInv, pc = "consume", pc' \in DOMAIN AfterPublish, pc' \in ConsumePcs \/ fetched' = <<>>,
           UNCHANGED <<nodeTip, look>>, bulk' = <<>>, fetched' \in Seq(Chains \cup {None}),
           NEW b \in Ground, IsIndex(db', b), table' = TableOf(b),
           \A i \in 1..Len(fetched') : fetched'[i] # None => Height(fetched'[i]) = Height(b) + i,
           pc' \in ConsumePcs /\ look <= nodeTip => look = Height(b) + Len(fetched') + 1
    PROVE  PassInv' /\ SyncedTo(b)'
<1>1. Linked(b, bulk') /\ Len(bulk') = 0 /\ Height(b) \in Int /\ Len(fetched') \in Nat
  BY LinkedNone, GroundIs
<1>2. \A i \in 1..Len(fetched') : fetched'[i] # None => Height(fetched'[i]) = Height(b) + Len(bulk') + i
  BY <1>1
<1>3. pc' \in ConsumePcs /\ look <= nodeTip => look = Height(b) + Len(bulk') + Len(fetched') + 1
  BY <1>1
<1>4. SyncedTo(b)'
  BY <1>1, <1>2, <1>3 DEF SyncedTo
<1>5. PassInv'
  BY DEF PassInv, IndexInv
<1> QED
  BY <1>4, <1>5

\* ConsumeBulk keeps it, whether the batch fills or not.
LEMMA ByConsumeBulk == IndexInv /\ ConsumeBulk => IndexInv'
<1> SUFFICES ASSUME IndexInv, ConsumeBulk PROVE IndexInv'
  OBVIOUS
<1>1. PICK b, f, s : b = Head(fetched) /\ f = Tail(fetched) /\ s = Append(bulk, b)
  OBVIOUS
<1>2. /\ pc = "consume" /\ fetched # <<>> /\ b # None /\ Follows(b) /\ fetched' = f
      /\ UNCHANGED <<node, peak, chain, rd, nodeTip, look>>
  BY <1>1 DEF ConsumeBulk, nodeVars
<1>3. PICK c \in Ground :
               /\ SyncedTo(c) /\ b \in Ground /\ b \in Chains /\ Height(b) = Height(c) + Len(bulk) + 1
               /\ Height(b) >= StartHeight /\ Front(b) = TipAfter(c, bulk, Len(bulk))
  BY <1>1, <1>2, NextBlock
<1>4. bulk \in Seq(Chains) /\ Len(bulk) \in Nat /\ Linked(c, bulk) /\ nodeTip \in Nat /\ nodeTip <= MaxHeight /\ look \in Nat
  BY <1>3 DEF IndexInv, PassInv, SyncedTo
<1>5. Linked(c, s) /\ Len(s) = Len(bulk) + 1 /\ s \in Seq(Chains) /\ s[Len(s)] = b
  BY <1>1, <1>3, <1>4, LinkedMore
<1>6. /\ f \in Seq(Chains \cup {None}) /\ \A i \in 1..Len(f) : f[i] # None => Height(f[i]) = Height(b) + i
      /\ look <= nodeTip => look = Height(b) + Len(f) + 1
  <2>1. RangeFrom(Tail(fetched), Height(c) + Len(bulk) + 1)
    BY <1>2, <1>3, RestOfRange
  <2>2. RangeFrom(f, Height(b))
    BY <1>1, <1>3, <2>1
  <2> QED
    BY <2>2 DEF RangeFrom
<1>7. CASE ~BatchFull
  <2>1. bulk' = s /\ UNCHANGED <<db, disk, dirty, table, pc>>
    BY <1>1, <1>7 DEF ConsumeBulk, storeVars
  <2>2. PassInv'
    BY <1>2, <1>4, <1>5, <1>6, <2>1 DEF PassInv, ConsumePcs
  <2>3. Height(c) \in Int /\ Height(b) = Height(c) + Len(s)
    BY <1>3, <1>4, <1>5, GroundIs
  <2>4. SyncedTo(c)'
    <3>1. table = TableOf(c) /\ IsIndex(db, c)
      BY <1>3 DEF SyncedTo
    <3> QED
      BY <1>2, <1>5, <1>6, <2>1, <2>3, <3>1 DEF SyncedTo
  <2>5. Synced'
    BY <2>4 DEF Synced
  <2>6. {pc, pc'} \cap DOMAIN AfterPublish = {} /\ pc' \notin {"pub_block", "prune"}
    BY <1>2, <2>1, PubPcs
  <2> QED
    BY <1>2, <2>1, <2>2, <2>5, <2>6, Quiet
<1>8. CASE BatchFull
  <2>1. WriteBulk(s) /\ table' = Put(table, Grown(s)) /\ bulk' = <<>> /\ pc' = "pub_bulk"
    BY <1>1, <1>8 DEF ConsumeBulk
  <2>2. PICK x : x = Apply(db, s, next_txnum(table), FALSE)
    OBVIOUS
  <2>3. db' = x /\ dirty' = TRUE /\ disk' = disk
        /\ table' = Put(table, [h \in {Height(s[i]) : i \in DOMAIN s} |-> x.blocks[h]])
    BY <2>1, <2>2 DEF WriteBulk, Grown
  <2>4. s # <<>>
    BY <1>4, <1>5
  <2>5. IsIndex(x, b) /\ table' = TableOf(b)
    <3>1. WroteTo(x, s, b, db.undo)
      BY <1>3, <1>5, <2>2, <2>4, WrittenBulk
    <3> QED
      BY <2>3, <3>1 DEF WroteTo
  <2>6. pc' \in DOMAIN AfterPublish /\ pc' \in ConsumePcs /\ pc' \notin {"pub_block", "prune"}
    BY <2>1, PubPcs DEF ConsumePcs
  <2>7. PassInv' /\ SyncedTo(b)'
    BY <1>2, <1>3, <1>6, <2>1, <2>3, <2>5, <2>6, AfterWrite
  <2> QED
    BY <1>2, <1>3, <2>3, <2>6, <2>7, WriteStep
<1> QED
  BY <1>7, <1>8

\* The rest of bulk is written.
LEMMA BulkWritten ==
    ASSUME IndexInv, pc = "consume", bulk # <<>>, WriteBulk(bulk), table' = Put(table, Grown(bulk)), bulk' = <<>>,
           UNCHANGED <<node, peak, chain, rd, nodeTip, look>>,
           \/ pc' = "pub_bulk" /\ fetched' = fetched
           \/ pc' = "pub_last" /\ fetched' = <<>>
    PROVE  IndexInv'
<1>1. PICK c \in Ground : SyncedTo(c)
  BY DEF IndexInv, Synced
<1>2. PICK s, x : s = bulk /\ x = Apply(db, s, next_txnum(table), FALSE)
  OBVIOUS
<1>3. /\ s \in Seq(Chains) /\ s # <<>> /\ Linked(c, s) /\ Len(s) \in Nat /\ Len(s) \in 1..Len(s)
      /\ fetched \in Seq(Chains \cup {None})
  BY <1>1, <1>2 DEF IndexInv, PassInv, SyncedTo
<1>4. PICK b : b = s[Len(s)]
  OBVIOUS
<1>5. db' = x /\ dirty' = TRUE /\ disk' = disk
      /\ table' = Put(table, [h \in {Height(s[i]) : i \in DOMAIN s} |-> x.blocks[h]])
  BY <1>2 DEF WriteBulk, Grown
<1>6. b \in Ground /\ IsIndex(x, b) /\ table' = TableOf(b)
  <2>1. WroteTo(x, s, b, db.undo)
    BY <1>1, <1>2, <1>3, <1>4, WrittenBulk
  <2> QED
    BY <1>5, <2>1 DEF WroteTo
<1>7. Height(b) = Height(c) + Len(bulk) /\ Height(c) \in Int
  BY <1>2, <1>3, <1>4, GroundIs DEF Linked
<1>8. pc' \in DOMAIN AfterPublish /\ pc' \notin {"pub_block", "prune"} /\ (pc' \in ConsumePcs \/ fetched' = <<>>)
      /\ fetched' \in Seq(Chains \cup {None})
  <2>1. fetched' \in Seq(Chains \cup {None})
    <3>1. <<>> \in Seq(Chains \cup {None})
      OBVIOUS
    <3> QED
      BY <1>3, <3>1, Zenon
  <2> QED
    BY <2>1, PubPcs DEF ConsumePcs
<1>9. \A i \in 1..Len(fetched') : fetched'[i] # None => Height(fetched'[i]) = Height(b) + i
  <2>1. \A i \in 1..Len(fetched) : fetched[i] # None => Height(fetched[i]) = Height(b) + i
    BY <1>1, <1>7 DEF SyncedTo
  <2> QED
    BY <2>1
<1>10. pc' \in ConsumePcs /\ look <= nodeTip => look = Height(b) + Len(fetched') + 1
  <2>1. look <= nodeTip => look = Height(b) + Len(fetched) + 1
    BY <1>1, <1>7 DEF SyncedTo, ConsumePcs
  <2> QED
    BY <2>1 DEF ConsumePcs
<1>11. PassInv' /\ SyncedTo(b)'
  BY <1>5, <1>6, <1>8, <1>9, <1>10, AfterWrite
<1> QED
  BY <1>5, <1>6, <1>8, <1>11, WriteStep

\* ConsumeLast keeps it.
LEMMA ByConsumeLast == IndexInv /\ ConsumeLast => IndexInv'
<1> SUFFICES ASSUME IndexInv, ConsumeLast PROVE IndexInv'
  OBVIOUS
<1>1. /\ pc = "consume" /\ bulk # <<>> /\ WriteBulk(bulk) /\ table' = Put(table, Grown(bulk)) /\ bulk' = <<>>
      /\ UNCHANGED <<node, peak, chain, rd, nodeTip, look>> /\ pc' = "pub_bulk" /\ fetched' = fetched
  BY DEF ConsumeLast, nodeVars
<1> QED
  BY <1>1, BulkWritten

\* EndOfRange keeps it.
LEMMA ByEndOfRange == IndexInv /\ EndOfRange => IndexInv'
<1> SUFFICES ASSUME IndexInv, EndOfRange PROVE IndexInv'
  OBVIOUS
<1>1. pc = "consume" /\ bulk' = <<>> /\ fetched' = <<>> /\ UNCHANGED <<node, peak, chain, rd, nodeTip, look>>
  BY DEF EndOfRange, nodeVars
<1>2. CASE bulk = <<>>
  <2>1. pc' = "idle" /\ UNCHANGED <<db, disk, dirty, table>>
    BY <1>2 DEF EndOfRange, storeVars
  <2>2. {pc, pc'} \cap DOMAIN AfterPublish = {} /\ pc' \notin {"pub_block", "prune"} /\ pc' \notin ConsumePcs
    BY <1>1, <2>1, PubPcs DEF ConsumePcs
  <2>3. nodeTip' \in Nat /\ nodeTip' <= MaxHeight /\ look' \in Nat
    BY <1>1, Passive
  <2> QED
    BY <1>1, <2>1, <2>2, <2>3, NoBlocks
<1>3. CASE bulk # <<>>
  <2>1. WriteBulk(bulk) /\ table' = Put(table, Grown(bulk)) /\ pc' = "pub_last"
    BY <1>3 DEF EndOfRange
  <2> QED
    BY <1>1, <1>3, <2>1, BulkWritten
<1> QED
  BY <1>2, <1>3

\* What a durable write replays on is what the process sees.
LEMMA DurableBase ==
    ASSUME IndexInv
    PROVE  FlushedDisk = db /\ FollowBase = db
  BY DEF IndexInv, DiskInv, FlushedDisk, FollowBase

\* ConsumeDurable keeps it: the disk gets the block on what the process sees.
LEMMA ByConsumeDurable == IndexInv /\ ConsumeDurable => IndexInv'
<1> SUFFICES ASSUME IndexInv, ConsumeDurable PROVE IndexInv'
  OBVIOUS
<1>1. PICK b, f, s, x :
          /\ b = Head(fetched) /\ f = Tail(fetched) /\ s = <<b>>
          /\ x = Apply(db, s, next_txnum(table), TRUE)
  OBVIOUS
<1>2. /\ pc = "consume" /\ fetched # <<>> /\ b # None /\ Follows(b) /\ bulk = <<>> /\ fetched' = f
      /\ UNCHANGED <<node, peak, chain, rd, nodeTip, look, bulk>> /\ pc' = "pub_block" /\ dirty' = FALSE
  BY <1>1 DEF ConsumeDurable, nodeVars
<1>3. db' = x /\ disk' = x /\ table' = Put(table, [h \in {Height(s[i]) : i \in DOMAIN s} |-> x.blocks[h]])
  <2>1. db' = Apply(db, <<b>>, next_txnum(table), TRUE) /\ disk' = Apply(FollowBase, <<b>>, next_txnum(table), TRUE)
        /\ table' = Put(table, Grown(<<b>>))
    BY <1>1 DEF ConsumeDurable
  <2>2. db' = x /\ disk' = x
    BY <1>1, <2>1, DurableBase
  <2> QED
    BY <1>1, <2>1, <2>2 DEF Grown
<1>4. PICK c \in Ground :
               /\ SyncedTo(c) /\ b \in Ground /\ b \in Chains /\ Height(b) = Height(c) + Len(bulk) + 1
               /\ Height(b) >= StartHeight /\ Front(b) = TipAfter(c, bulk, Len(bulk))
  BY <1>1, <1>2, NextBlock
<1>5. Front(b) = c
  BY <1>2, <1>4, LinkedNone
<1>6. Linked(c, s) /\ Len(s) = 1 /\ s[1] = b /\ s \in Seq(Chains) /\ s # <<>>
  BY <1>1, <1>4, <1>5, LinkedOne
<1>7. IsIndex(x, b) /\ table' = TableOf(b)
  <2>1. WroteTo(x, s, b, Put(db.undo, Row(Height(b), UndoOf(b))))
    BY <1>1, <1>4, <1>6, WrittenDurable
  <2> QED
    BY <1>3, <2>1 DEF WroteTo
<1>8. /\ f \in Seq(Chains \cup {None}) /\ \A i \in 1..Len(f) : f[i] # None => Height(f[i]) = Height(b) + i
      /\ look <= nodeTip => look = Height(b) + Len(f) + 1
  <2>1. RangeFrom(Tail(fetched), Height(c) + Len(bulk) + 1)
    BY <1>2, <1>4, RestOfRange
  <2>2. RangeFrom(f, Height(b))
    BY <1>1, <1>4, <2>1
  <2> QED
    BY <2>2 DEF RangeFrom
<1>9. pc' \in DOMAIN AfterPublish /\ pc' \in ConsumePcs
  BY <1>2, PubPcs DEF ConsumePcs
<1>10. PassInv' /\ SyncedTo(b)'
  BY <1>2, <1>3, <1>4, <1>7, <1>8, <1>9, AfterWrite
<1> QED
  BY <1>2, <1>3, <1>4, <1>9, <1>10, WriteStep

\* The thread undoes its tip.
LEMMA Unwound ==
    ASSUME IndexInv, UnwindBlock
    PROVE  \E b \in Ground : /\ Height(b) >= StartHeight /\ SyncedTo(b) /\ Height(b) \in DOMAIN db.undo
                             /\ Front(b) \in Ground /\ IsIndex(db', Front(b)) /\ disk' = db'
                             /\ db'.undo = Drop(db.undo, {Height(b)})
                             /\ table' = TableOf(Front(b)) /\ Height(b) = TipHeight(table) /\ db'.blocks = table'
<1>1. PICK b \in Ground : SyncedTo(b)
  BY DEF IndexInv, Synced
<1>2. PICK H, u, d : H = Height(b) /\ d = db /\ u = d.undo[H]
  OBVIOUS
<1>3. /\ table = TableOf(b) /\ IsIndex(d, b) /\ TipHeight(table) = H /\ (table = Empty <=> H = StartHeight - 1)
      /\ H \in Int /\ StartHeight \in Nat /\ StartHeight - 1 <= H
  BY <1>1, <1>2, FromIs, GroundIs DEF SyncedTo
<1>4. table # Empty /\ H \in DOMAIN d.undo /\ table' = Drop(table, {H})
  BY <1>2, <1>3 DEF UnwindBlock
<1>5. H >= StartHeight
  BY <1>3, <1>4
<1>6. Front(b) \in Ground /\ Height(Front(b)) = H - 1 /\ b # <<>> /\ b \in Blocks
  BY <1>2, <1>5, GroundIs
<1>7. (IF H - 1 \in DOMAIN table THEN table[H - 1].hash ELSE None) = TipOf(Front(b))
  <2>1. DOMAIN table = StartHeight..H
    BY <1>2, <1>3, TableIs
  <2>2. CASE H = StartHeight
    <3>1. H - 1 \notin DOMAIN table /\ Height(Front(b)) = StartHeight - 1
      BY <1>3, <1>6, <2>1, <2>2
    <3> QED
      BY <1>6, <3>1, TipIs
  <2>3. CASE H # StartHeight
    <3>1. H - 1 \in StartHeight..H /\ H - 1 >= StartHeight
      BY <1>3, <1>5, <2>3
    <3>2. table[H - 1] = RecordOf(At(b, H - 1))
      BY <1>2, <1>3, <3>1, TableIs
    <3>3. At(b, H - 1) = Front(b)
      BY <1>2, <1>6, FrontIs
    <3>4. TipOf(Front(b)) = Front(b)
      BY <1>6, <3>1 DEF TipOf
    <3> QED
      BY <2>1, <3>1, <3>2, <3>3, <3>4 DEF RecordOf
  <2> QED
    BY <2>2, <2>3
<1>8. PICK p : p = TipOf(Front(b))
  OBVIOUS
<1>9. db' = Rollback(db, H, u, p) /\ disk' = Rollback(FlushedDisk, H, u, p)
  BY <1>2, <1>3, <1>7, <1>8 DEF UnwindBlock
<1>10. disk' = db'
  BY <1>9, DurableBase
<1>11. PICK x : x = Rollback(d, H, d.undo[H], TipOf(Front(b)))
  OBVIOUS
<1>12. IsIndex(x, Front(b)) /\ x.blocks = TableOf(Front(b)) /\ x.undo = Drop(d.undo, {H})
  BY <1>2, <1>3, <1>4, <1>5, <1>11, IndexUndone
<1>13. db' = x
  BY <1>2, <1>8, <1>9, <1>11
<1>14. table' = TableOf(Front(b))
  BY <1>2, <1>3, <1>4, <1>5, TableNext
<1> QED
  BY <1>1, <1>2, <1>3, <1>4, <1>5, <1>6, <1>10, <1>12, <1>13, <1>14

\* UnwindBlock keeps it.
LEMMA ByUnwindBlock == IndexInv /\ UnwindBlock => IndexInv'
<1> SUFFICES ASSUME IndexInv, UnwindBlock PROVE IndexInv'
  OBVIOUS
<1>1. PICK b \in Ground : /\ Front(b) \in Ground /\ IsIndex(db', Front(b)) /\ disk' = db'
                          /\ table' = TableOf(Front(b))
  BY Unwound
<1>2. PICK c : c = Front(b)
  OBVIOUS
<1>3. /\ pc = "unwind" /\ pc' = "pub_unwind" /\ UNCHANGED <<node, peak, chain, rd, nodeTip, look, bulk, fetched>>
  BY DEF UnwindBlock, nodeVars
<1>4. bulk = <<>> /\ fetched = <<>> /\ nodeTip \in Nat /\ nodeTip <= MaxHeight /\ look \in Nat
  BY <1>3, Passive DEF ConsumePcs
<1>5. PassInv'
  BY <1>3, <1>4 DEF PassInv
<1>6. SyncedTo(c)'
  <2>1. Linked(c, bulk') /\ 1..Len(fetched') = {} /\ pc' \notin ConsumePcs
    BY <1>3, <1>4, LinkedNone DEF ConsumePcs
  <2> QED
    BY <1>1, <1>2, <2>1 DEF SyncedTo
<1>7. pc' \in DOMAIN AfterPublish /\ pc' \notin {"pub_block", "prune"}
  BY <1>3, PubPcs
<1> QED
  BY <1>1, <1>2, <1>3, <1>5, <1>6, <1>7, WriteStep

\* publish keeps it.
LEMMA ByPublish == IndexInv /\ publish => IndexInv'
<1> SUFFICES ASSUME IndexInv, publish PROVE IndexInv'
  OBVIOUS
<1>1. /\ pc \in {"pub_unwind", "pub_bulk", "pub_block", "pub_last"} /\ chain' = table
      /\ UNCHANGED <<node, peak, db, disk, dirty, rd, table, nodeTip, bulk, fetched, look>>
  BY PubPcs DEF publish, nodeVars, storeVars, passVars
<1>2. /\ pc = "pub_unwind" => pc' = "unwind"
      /\ pc = "pub_bulk" => pc' = "consume"
      /\ pc = "pub_block" => pc' = "prune"
      /\ pc = "pub_last" => pc' = "idle"
  BY DEF publish, AfterPublish
<1>3. (pc' \in ConsumePcs <=> pc \in ConsumePcs) /\ pc' \notin DOMAIN AfterPublish
      /\ (pc' \in {"pub_block", "prune"} => pc = "pub_block")
  BY <1>1, <1>2, PubPcs DEF ConsumePcs
<1>4. PICK c \in Ground : SyncedTo(c)
  BY DEF IndexInv, Synced
<1>5. SyncedTo(c)'
  BY <1>1, <1>3, <1>4 DEF SyncedTo
<1>6. NodeInv' /\ PassInv' /\ ReaderInv'
  BY <1>1, <1>3 DEF IndexInv, NodeInv, PassInv, ReaderInv
<1>7. DiskInv'
  BY <1>1, <1>3 DEF IndexInv, DiskInv
<1>8. ChainInv'
  <2>1. table = TableOf(c) /\ db.blocks = TableOf(c)
    BY <1>4, IndexReads DEF SyncedTo
  <2> QED
    BY <1>1, <2>1 DEF ChainInv, Tables
<1> QED
  BY <1>5, <1>6, <1>7, <1>8 DEF IndexInv, Synced

\* prune_undo keeps it.
LEMMA ByPruneUndo == IndexInv /\ prune_undo => IndexInv'
<1> SUFFICES ASSUME IndexInv, prune_undo PROVE IndexInv'
  OBVIOUS
<1>1. PICK below : db' = PruneUndo(db, below) /\ disk' = PruneUndo(disk, below)
  BY DEF prune_undo
<1>2. /\ pc = "prune" /\ pc' = "consume"
      /\ UNCHANGED <<node, peak, dirty, chain, rd, table, nodeTip, bulk, fetched, look>>
  BY DEF prune_undo, nodeVars, passVars
<1>3. disk = db
  BY <1>2 DEF IndexInv, DiskInv
<1>4. PICK c \in Ground : SyncedTo(c)
  BY DEF IndexInv, Synced
<1>5. IsIndex(db, c) /\ table = TableOf(c) /\ Linked(c, bulk)
  BY <1>4 DEF SyncedTo
<1>6. IsIndex(db', c) /\ db'.blocks = db.blocks
  <2>1. PICK d, x : d = db /\ x = PruneUndo(d, below)
    OBVIOUS
  <2>2. IsIndex(d, c)
    BY <1>5, <2>1
  <2>3. /\ IsIndex(x, c) /\ x.blocks = d.blocks
        /\ x.undo = Drop(d.undo, {h \in DOMAIN d.undo : h < below})
    BY ONLY <2>1, <2>2, IndexPruned
  <2> QED
    BY <1>1, <2>1, <2>3
<1>7. SyncedTo(c)'
  BY <1>2, <1>4, <1>5, <1>6 DEF SyncedTo, ConsumePcs
<1>8. NodeInv' /\ PassInv' /\ ReaderInv'
  BY <1>2 DEF IndexInv, NodeInv, PassInv, ReaderInv, ConsumePcs
<1>9. DiskInv'
  BY <1>1, <1>2, <1>3, <1>6 DEF DiskInv
<1>10. ChainInv'
  BY <1>2, <1>6, PubPcs DEF IndexInv, ChainInv
<1> QED
  BY <1>7, <1>8, <1>9, <1>10 DEF IndexInv, Synced

\* Flush keeps it.
LEMMA ByFlush == IndexInv /\ Flush => IndexInv'
<1> SUFFICES ASSUME IndexInv, Flush PROVE IndexInv'
  OBVIOUS
<1>1. disk' = db /\ UNCHANGED <<node, peak, db, dirty, chain, rd, table, nodeTip, bulk, fetched, look, pc>>
  BY DEF Flush, nodeVars, passVars
<1>2. NodeInv' /\ PassInv' /\ ReaderInv' /\ ChainInv'
  BY <1>1 DEF IndexInv, NodeInv, PassInv, ReaderInv, ChainInv
<1>3. PICK c \in Ground : SyncedTo(c)
  BY DEF IndexInv, Synced
<1>4. SyncedTo(c)'
  BY <1>1, <1>3 DEF SyncedTo
<1>5. DiskInv'
  <2>1. IsIndex(db, c)
    BY <1>3 DEF SyncedTo
  <2> QED
    BY <1>1, <2>1 DEF IndexInv, DiskInv
<1> QED
  BY <1>2, <1>4, <1>5 DEF IndexInv, Synced

-----------------------------------------------------------------------------
(* Stops of the process                                                    *)

\* A store that is a chain's index is opened as that chain's.
LEMMA Reopened ==
    ASSUME IndexInv, NEW d, Reopen(d), NEW c \in Ground, IsIndex(d, c)
    PROVE  IndexInv'
<1>1. /\ db' = d /\ disk' = d /\ pc' \in {"idle", "refused"} /\ table' = d.blocks /\ chain' = d.blocks
      /\ bulk' = <<>> /\ fetched' = <<>> /\ look' = 0 /\ nodeTip' = 0 /\ rd' = IdleReader(rd.todo)
      /\ UNCHANGED <<node, peak>>
  BY DEF Reopen, nodeVars
<1>2. d.blocks = TableOf(c)
  BY IndexReads
<1>3. NodeInv'
  BY <1>1 DEF IndexInv, NodeInv
<1>4. PassInv'
  BY <1>1, IndexConstants DEF PassInv
<1>5. pc' \notin ConsumePcs /\ pc' \notin DOMAIN AfterPublish /\ pc' \notin {"pub_block", "prune"}
  BY <1>1, PubPcs DEF ConsumePcs
<1>6. SyncedTo(c)'
  <2>1. Linked(c, bulk') /\ 1..Len(fetched') = {}
    BY <1>1, LinkedNone
  <2> QED
    BY <1>1, <1>2, <1>5, <2>1 DEF SyncedTo
<1>7. DiskInv'
  BY <1>1, <1>5 DEF DiskInv
<1>8. ChainInv'
  BY <1>1, <1>2 DEF ChainInv, Tables
<1>9. ReaderInv'
  <2>1. PICK r, n : n = rd.todo /\ r = IdleReader(n)
    OBVIOUS
  <2>2. /\ r = [pc |-> r.pc, table |-> r.table, snap |-> r.snap, row |-> r.row,
                   answer |-> r.answer, todo |-> r.todo]
        /\ r.table \in Tables /\ r.pc = "idle"
    BY <2>1, EmptyIdle
  <2>3. rd' = r
    BY <1>1, <2>1
  <2> QED
    BY <2>2, <2>3 DEF ReaderInv
<1> QED
  BY <1>3, <1>4, <1>6, <1>7, <1>8, <1>9 DEF IndexInv, Synced

\* A crash keeps it.
LEMMA ByCrash == IndexInv /\ Crash => IndexInv'
<1> SUFFICES ASSUME IndexInv, Crash PROVE IndexInv'
  OBVIOUS
<1>1. PICK d : d = disk
  OBVIOUS
<1>2. PICK c \in Ground : IsIndex(d, c)
  BY <1>1 DEF IndexInv, DiskInv
<1>3. Reopen(d)
  BY <1>1 DEF Crash
<1> QED
  BY <1>2, <1>3, Reopened

\* What a signal leaves.
LEMMA Stopped ==
    ASSUME IndexInv, Stop
    PROVE  \E d : /\ Reopen(d) /\ d.undo = db.undo
                  /\ \/ bulk = <<>> /\ d = db
                     \/ /\ bulk # <<>> /\ bulk[Len(bulk)] \in Ground /\ IsIndex(d, bulk[Len(bulk)])
                        /\ d.blocks = TableOf(bulk[Len(bulk)])
<1>1. PICK rest : rest = Apply(db, bulk, next_txnum(table), FALSE)
  OBVIOUS
<1>2. Reopen(IF bulk = <<>> THEN db ELSE rest)
  BY <1>1 DEF Stop
<1>3. CASE bulk = <<>>
  <2>1. PICK d : d = db
    OBVIOUS
  <2>2. Reopen(d)
    BY <1>2, <1>3, <2>1
  <2> QED
    BY <1>3, <2>1, <2>2
<1>4. CASE bulk # <<>>
  <2>1. PICK c \in Ground : SyncedTo(c)
    BY DEF IndexInv, Synced
  <2>2. PICK s, b : s = bulk /\ b = s[Len(s)]
    OBVIOUS
  <2>3. s \in Seq(Chains) /\ Linked(c, s) /\ s # <<>> /\ rest = Apply(db, s, next_txnum(table), FALSE)
    BY <1>1, <1>4, <2>1, <2>2 DEF IndexInv, PassInv, SyncedTo
  <2>4. WroteTo(rest, s, b, db.undo)
    BY <2>1, <2>2, <2>3, WrittenBulk
  <2>5. Reopen(rest)
    BY <1>2, <1>4
  <2> QED
    BY <1>4, <2>2, <2>4, <2>5 DEF WroteTo
<1> QED
  BY <1>3, <1>4

\* A signal keeps it.
LEMMA ByStop == IndexInv /\ Stop => IndexInv'
<1> SUFFICES ASSUME IndexInv, Stop PROVE IndexInv'
  OBVIOUS
<1>1. PICK d : /\ Reopen(d)
               /\ \/ d = db
                  \/ bulk[Len(bulk)] \in Ground /\ IsIndex(d, bulk[Len(bulk)])
  BY Stopped
<1>2. PICK c \in Ground : IsIndex(d, c)
  <2>1. CASE d = db
    BY <2>1 DEF IndexInv, Synced, SyncedTo
  <2>2. CASE bulk[Len(bulk)] \in Ground /\ IsIndex(d, bulk[Len(bulk)])
    BY <2>2
  <2> QED
    BY <1>1, <2>1, <2>2
<1> QED
  BY <1>1, <1>2, Reopened

-----------------------------------------------------------------------------
(* The node                                                                *)

\* The node moves and nothing else.
LEMMA NodeMoves ==
    ASSUME IndexInv, NodeInv', UNCHANGED <<db, disk, dirty, chain, rd, table, nodeTip, bulk, fetched, look, pc>>
    PROVE  IndexInv'
<1>1. PassInv' /\ ReaderInv' /\ ChainInv' /\ DiskInv'
  BY DEF IndexInv, PassInv, ReaderInv, ChainInv, DiskInv
<1>2. PICK c \in Ground : SyncedTo(c)
  BY DEF IndexInv, Synced
<1>3. SyncedTo(c)'
  BY <1>2 DEF SyncedTo
<1> QED
  BY <1>1, <1>3 DEF IndexInv, Synced

\* There is a label.
LEMMA AnyForkIs == AnyFork \in Forks
<1>1. FirstChain \in Seq(Forks) /\ FirstChain # <<>>
  BY IndexConstants
<1>2. FirstChain[1] \in Forks
  BY <1>1
<1> QED
  BY <1>2 DEF AnyFork

\* What the invariant says of the node.
LEMMA NodeIs ==
    ASSUME IndexInv
    PROVE  /\ node \in Chains /\ peak \in Chains /\ node \in Blocks /\ peak \in Blocks
           /\ Len(node) \in Nat /\ Len(peak) \in Nat /\ Height(node) \in Nat /\ Height(peak) \in Nat
           /\ Height(node) = Len(node) - 1 /\ Height(peak) = Len(peak) - 1
           /\ Height(node) <= Height(peak) /\ Height(peak) <= MaxHeight /\ node = At(peak, Height(node))
<1>1. node \in Chains /\ peak \in Chains /\ Height(node) <= Height(peak) /\ node = At(peak, Height(node))
  BY DEF IndexInv, NodeInv
<1>2. /\ node \in Blocks /\ peak \in Blocks /\ 1 <= Len(node) /\ 1 <= Len(peak)
      /\ Len(node) <= MaxHeight + 1 /\ Len(peak) <= MaxHeight + 1 /\ MaxHeight \in Nat
  BY <1>1, ChainIs, IndexConstants
<1> QED
  BY <1>1, <1>2 DEF Height, Blocks

\* Growth, back along the highest chain or beyond it.
LEMMA Grows ==
    ASSUME IndexInv, Grow
    PROVE  /\ NodeInv' /\ left' = left
           /\ \/ peak' = peak
              \/ peak' \in Chains /\ Height(peak') = Height(peak) + 1 /\ At(peak', Height(peak)) = peak
<1>1. /\ node \in Chains /\ peak \in Chains /\ node \in Blocks /\ peak \in Blocks
      /\ Len(node) \in Nat /\ Len(peak) \in Nat /\ Height(node) \in Nat /\ Height(peak) \in Nat
      /\ Height(node) = Len(node) - 1 /\ Height(peak) = Len(peak) - 1
      /\ Height(node) <= Height(peak) /\ node = At(peak, Height(node))
  BY NodeIs
<1>2. left' = left /\ peak' = IF Len(node') > Len(peak) THEN node' ELSE peak
  BY DEF Grow
<1>3. CASE node # peak
  <2>1. PICK c, h : h = Height(node) + 1 /\ c = At(peak, h)
    OBVIOUS
  <2>2. node' = c
    BY <1>3, <2>1 DEF Grow, MoveTo
  <2>3. Height(node) # Height(peak)
    BY <1>1, <1>3, AtTip
  <2>4. h \in Nat /\ h <= Height(peak) /\ -1 <= h /\ h \in Int
    BY <1>1, <2>1, <2>3
  <2>5. c \in Chains /\ Height(c) = h /\ Len(c) = h + 1
    BY <1>1, <2>1, <2>4, AtChain, AtIs
  <2>6. peak' = peak
    BY <1>1, <1>2, <2>2, <2>4, <2>5
  <2> QED
    BY <1>1, <1>2, <2>1, <2>2, <2>4, <2>5, <2>6 DEF NodeInv
<1>4. CASE node = peak
  <2>1. PICK c : c = Append(node, AnyFork)
    OBVIOUS
  <2>2. node' = c /\ Height(c) <= MaxHeight
    BY <1>4, <2>1 DEF Grow, MoveTo
  <2>3. c \in Seq(Forks) /\ Len(c) = Len(node) + 1 /\ \A i \in 1..Len(node) : c[i] = node[i]
    BY <1>1, <2>1, AnyForkIs DEF Blocks
  <2>4. c \in Chains /\ c \in Blocks /\ Height(c) = Height(node) + 1
    <3>1. c \in Blocks /\ Height(c) = Height(node) + 1 /\ 1 <= Len(c) /\ Len(c) <= MaxHeight + 1
      BY <1>1, <2>2, <2>3, IndexConstants DEF Blocks, Height
    <3> QED
      BY <3>1, ChainIs
  <2>5. peak' = c
    BY <1>1, <1>2, <1>4, <2>2, <2>3
  <2>6. At(c, Height(c)) = c
    BY <2>4, AtTip
  <2>7. At(c, Height(node)) = node
    <3>1. /\ At(c, Height(node)) \in Blocks /\ Len(At(c, Height(node))) = Len(node)
          /\ \A i \in 1..Len(node) : At(c, Height(node))[i] = c[i]
      <4>1. Height(node) \in Int /\ -1 <= Height(node) /\ Height(node) <= Height(c) /\ Height(node) + 1 = Len(node)
        BY <1>1, <2>4
      <4> QED
        BY <2>4, <4>1, AtIs
    <3> QED
      BY <1>1, <2>3, <3>1, SameChain
  <2>8. Height(c) <= Height(c)
    BY <1>1, <2>4
  <2>9. NodeInv'
    BY <2>2, <2>4, <2>5, <2>6, <2>8 DEF NodeInv
  <2> QED
    BY <1>2, <1>4, <2>4, <2>5, <2>7, <2>9
<1> QED
  BY <1>3, <1>4

\* A reorganisation leaves k blocks of the highest chain.
LEMMA Reorganises ==
    ASSUME IndexInv, Reorg
    PROVE  /\ NodeInv' /\ peak' \in Chains /\ Height(peak') = Height(peak) + 1
           /\ \E k \in 1..Height(peak) : left' = Max({left, k}) /\ At(peak', Height(peak) - k) = At(peak, Height(peak) - k)
<1>1. /\ node \in Chains /\ node \in Blocks /\ Len(node) \in Nat /\ Height(node) \in Nat
      /\ Height(node) = Len(node) - 1
  BY NodeIs
<1>2. PICK k \in 1..Height(node), f \in Forks :
          LET stem == At(node, Height(node) - k)
          IN  /\ node = peak
              /\ MoveTo(Append(stem, f) \o [i \in 1..k |-> AnyFork])
              /\ peak' = node'
              /\ left' = Max({left, k})
  BY DEF Reorg
<1>3. PICK stem, t, c : /\ stem = At(node, Height(node) - k) /\ t = [i \in 1..k |-> AnyFork]
                        /\ c = Append(stem, f) \o t
  OBVIOUS
<1>4. node = peak /\ node' = c /\ Height(c) <= MaxHeight /\ peak' = c /\ left' = Max({left, k})
  BY <1>2, <1>3 DEF MoveTo
<1>5. PICK h : h = Height(node) - k
  OBVIOUS
<1>6. k \in Nat /\ k >= 1 /\ h \in Nat /\ h <= Height(node) /\ -1 <= h /\ h \in Int /\ h + k = Height(node)
  BY <1>1, <1>2, <1>5
<1>7. stem \in Blocks /\ Len(stem) = h + 1 /\ stem = At(node, h)
  BY <1>1, <1>3, <1>5, <1>6, AtIs
<1>8. t \in Seq(Forks) /\ Len(t) = k
  BY <1>3, <1>6, AnyForkIs
<1>9. PICK a : a = Append(stem, f)
  OBVIOUS
<1>10. a \in Seq(Forks) /\ Len(a) = h + 2 /\ \A i \in 1..h + 1 : a[i] = stem[i]
  BY <1>6, <1>7, <1>9 DEF Blocks
<1>11. c \in Seq(Forks) /\ Len(c) = h + 2 + k /\ \A i \in 1..h + 2 : c[i] = a[i]
  <2>1. c = a \o t
    BY <1>3, <1>9
  <2>2. a \in Seq(Forks) /\ t \in Seq(Forks) /\ Len(a) \in Nat
    BY <1>8, <1>10
  <2>3. c \in Seq(Forks) /\ Len(c) = Len(a) + Len(t) /\ \A i \in 1..Len(a) : c[i] = a[i]
    BY ONLY <2>1, <2>2
  <2> QED
    BY <1>8, <1>10, <2>3
<1>12. c \in Blocks /\ Height(c) = Height(node) + 1 /\ c \in Chains
  <2>1. c \in Blocks /\ Height(c) = Height(node) + 1 /\ 1 <= Len(c) /\ Len(c) <= MaxHeight + 1
    <3>1. c \in Blocks /\ Len(c) \in Nat /\ Height(c) = Len(c) - 1 /\ MaxHeight \in Nat
      BY <1>11, IndexConstants DEF Blocks, Height
    <3> QED
      BY <1>1, <1>4, <1>6, <1>11, <3>1
  <2> QED
    BY <2>1, ChainIs
<1>13. At(c, h) = stem
  <2>1. At(c, h) \in Blocks /\ Len(At(c, h)) = h + 1 /\ \A i \in 1..h + 1 : At(c, h)[i] = c[i]
    BY <1>1, <1>6, <1>12, AtIs
  <2>2. ASSUME NEW i \in 1..h + 1 PROVE At(c, h)[i] = stem[i]
    <3>1. i \in 1..h + 2
      BY <1>6, <2>2
    <3> QED
      BY <1>10, <1>11, <2>1, <2>2, <3>1
  <2> QED
    BY <1>7, <2>1, <2>2, SameChain
<1>14. At(c, Height(c)) = c /\ Height(c) <= Height(c)
  BY <1>1, <1>12, AtTip
<1>15. NodeInv'
  BY <1>4, <1>12, <1>14 DEF NodeInv
<1> QED
  BY <1>2, <1>4, <1>5, <1>7, <1>12, <1>13, <1>15

\* A reindex goes back along the chain.
LEMMA Reindexes ==
    ASSUME IndexInv, Reindex
    PROVE  NodeInv' /\ peak' = peak /\ left' = left
<1>1. /\ node \in Chains /\ node \in Blocks /\ Height(node) \in Nat
  BY NodeIs
<1>2. PICK h \in 0..Height(node) - 1 : node = peak /\ node' = At(node, h) /\ peak' = peak /\ left' = left
  BY DEF Reindex, MoveTo
<1>3. h \in Nat /\ h <= Height(node) /\ -1 <= h /\ h \in Int
  BY <1>1, <1>2
<1>4. PICK c : c = At(node, h)
  OBVIOUS
<1>5. c \in Chains /\ Height(c) = h
  BY <1>1, <1>3, <1>4, AtChain, AtIs
<1>6. node \in Chains /\ Height(c) <= Height(node) /\ c = At(node, Height(c))
  BY <1>1, <1>3, <1>4, <1>5
<1> QED
  BY <1>2, <1>4, <1>5, <1>6 DEF NodeInv

\* The node keeps it.
LEMMA ByNode == IndexInv /\ (Grow \/ Reorg \/ Reindex) => IndexInv'
<1> SUFFICES ASSUME IndexInv, Grow \/ Reorg \/ Reindex PROVE IndexInv'
  OBVIOUS
<1>1. NodeInv'
  BY Grows, Reorganises, Reindexes
<1>2. UNCHANGED <<db, disk, dirty, chain, rd, table, nodeTip, bulk, fetched, look, pc>>
  BY DEF Grow, Reorg, Reindex, MoveTo, storeVars, passVars
<1> QED
  BY <1>1, <1>2, NodeMoves

-----------------------------------------------------------------------------
(* The reader                                                              *)

\* The reader moves and nothing else.
LEMMA ReaderMoves ==
    ASSUME IndexInv, ReaderInv', UNCHANGED <<node, peak, db, disk, dirty, chain, table, nodeTip, bulk, fetched, look, pc>>
    PROVE  IndexInv'
<1>1. PassInv' /\ NodeInv' /\ ChainInv' /\ DiskInv'
  BY DEF IndexInv, PassInv, NodeInv, ChainInv, DiskInv
<1>2. PICK c \in Ground : SyncedTo(c)
  BY DEF IndexInv, Synced
<1>3. SyncedTo(c)'
  BY <1>2 DEF SyncedTo
<1> QED
  BY <1>1, <1>3 DEF IndexInv, Synced

\* ReadTable keeps it.
LEMMA ByReadTable == IndexInv /\ ReadTable => IndexInv'
<1> SUFFICES ASSUME IndexInv, ReadTable PROVE IndexInv'
  OBVIOUS
<1>1. /\ rd' = [rd EXCEPT !.pc = "loaded", !.table = chain, !.todo = rd.todo - 1]
      /\ UNCHANGED <<node, peak, db, disk, dirty, chain, table, nodeTip, bulk, fetched, look, pc>>
  BY DEF ReadTable, nodeVars, storeVars, passVars
<1>2. PICK p, t, s, r, a, n : p = rd.pc /\ t = rd.table /\ s = rd.snap /\ r = rd.row /\ a = rd.answer /\ n = rd.todo
  OBVIOUS
<1>3. rd = [pc |-> p, table |-> t, snap |-> s, row |-> r, answer |-> a, todo |-> n]
  BY <1>2 DEF IndexInv, ReaderInv
<1>4. rd' = [pc |-> "loaded", table |-> chain, snap |-> s, row |-> r, answer |-> a, todo |-> n - 1]
  BY <1>1, <1>2, <1>3
<1>5. chain \in Tables
  BY DEF IndexInv, ChainInv
<1>6. ReaderInv'
  BY <1>4, <1>5 DEF ReaderInv
<1> QED
  BY <1>1, <1>6, ReaderMoves

\* view keeps it: a table and a snapshot with one tip are of one chain.
LEMMA ByView == IndexInv /\ view => IndexInv'
<1> SUFFICES ASSUME IndexInv, view PROVE IndexInv'
  OBVIOUS
<1>1. UNCHANGED <<node, peak, db, disk, dirty, chain, table, nodeTip, bulk, fetched, look, pc>>
  BY DEF view, nodeVars, storeVars, passVars
<1>2. PICK p, t, s, r, a, n : p = rd.pc /\ t = rd.table /\ s = rd.snap /\ r = rd.row /\ a = rd.answer /\ n = rd.todo
  OBVIOUS
<1>3. rd = [pc |-> p, table |-> t, snap |-> s, row |-> r, answer |-> a, todo |-> n]
  BY <1>2 DEF IndexInv, ReaderInv
<1>4. p = "loaded" /\ chain \in Tables /\ t \in Tables
  BY <1>2 DEF view, IndexInv, ChainInv, ReaderInv
<1>5. CASE db.tip = TableTip(rd.table)
  <2>1. rd' = [rd EXCEPT !.pc = "view", !.snap = db]
    BY <1>5 DEF view
  <2>2. rd' = [pc |-> "view", table |-> t, snap |-> db, row |-> r, answer |-> a, todo |-> n]
    BY <1>3, <2>1
  <2>3. PICK c \in Ground : IsIndex(db, c)
    BY DEF IndexInv, Synced, SyncedTo
  <2>4. PICK b \in Ground : t = TableOf(b)
    BY <1>4 DEF Tables
  <2>5. TipOf(c) = TipOf(b)
    BY <1>2, <1>5, <2>3, <2>4, IndexReads, TableIs
  <2>6. t = TableOf(c)
    BY <2>3, <2>4, <2>5, SameRows
  <2>7. ReaderInv'
    BY <1>4, <2>2, <2>3, <2>6 DEF ReaderInv
  <2> QED
    BY <1>1, <2>7, ReaderMoves
<1>6. CASE db.tip # TableTip(rd.table)
  <2>1. rd' = [rd EXCEPT !.table = chain]
    BY <1>6 DEF view
  <2>2. rd' = [pc |-> p, table |-> chain, snap |-> s, row |-> r, answer |-> a, todo |-> n]
    BY <1>3, <2>1
  <2>3. ReaderInv'
    BY <1>4, <2>2 DEF ReaderInv
  <2> QED
    BY <1>1, <2>3, ReaderMoves
<1> QED
  BY <1>5, <1>6

\* confirmed keeps it: a cached body is used for its own transaction.
LEMMA ByConfirmed == IndexInv /\ confirmed => IndexInv'
<1> SUFFICES ASSUME IndexInv, confirmed PROVE IndexInv'
  OBVIOUS
<1>1. UNCHANGED <<node, peak, db, disk, dirty, chain, table, nodeTip, bulk, fetched, look, pc>>
  BY DEF confirmed, nodeVars, storeVars, passVars
<1>2. PICK n, id :
          rd' = [IdleReader(rd.todo) EXCEPT
                        !.pc = IF render_hit(rd.snap, n, id) THEN "answered" ELSE "fetched",
                        !.row = [n |-> n, id |-> id],
                        !.answer = IF render_hit(rd.snap, n, id) THEN rd.snap.render[n] ELSE id]
  BY DEF confirmed
<1>3. PICK p, r, a, m : /\ p = (IF render_hit(rd.snap, n, id) THEN "answered" ELSE "fetched")
                        /\ r = [n |-> n, id |-> id] /\ m = rd.todo
                        /\ a = (IF render_hit(rd.snap, n, id) THEN rd.snap.render[n] ELSE id)
  OBVIOUS
<1>4. a = id
  BY <1>2, <1>3 DEF render_hit
<1>5. rd' = [pc |-> p, table |-> Empty, snap |-> NewDb, row |-> r, answer |-> a, todo |-> m]
  <2>1. PICK i : i = IdleReader(m)
    OBVIOUS
  <2>2. i = [pc |-> "idle", table |-> Empty, snap |-> NewDb, row |-> None, answer |-> None, todo |-> m]
    BY <2>1 DEF IdleReader
  <2>3. rd' = [i EXCEPT !.pc = p, !.row = r, !.answer = a]
    BY <1>2, <1>3, <2>1
  <2> QED
    BY <2>2, <2>3
<1>6. Empty \in Tables
  BY GroundFloor DEF Tables
<1>7. p # "view" /\ r.id = id
  BY <1>3
<1>8. ReaderInv'
  BY <1>4, <1>5, <1>6, <1>7 DEF ReaderInv
<1> QED
  BY <1>1, <1>8, ReaderMoves

\* Respond keeps it.
LEMMA ByRespond == IndexInv /\ Respond => IndexInv'
<1> SUFFICES ASSUME IndexInv, Respond PROVE IndexInv'
  OBVIOUS
<1>1. UNCHANGED <<node, peak, db, disk, dirty, chain, table, nodeTip, bulk, fetched, look, pc>>
  BY DEF Respond, nodeVars, storeVars, passVars
<1>2. PICK r, n : n = rd.todo /\ r = IdleReader(n)
  OBVIOUS
<1>3. /\ r = [pc |-> r.pc, table |-> r.table, snap |-> r.snap, row |-> r.row,
                 answer |-> r.answer, todo |-> r.todo]
      /\ r.table \in Tables /\ r.pc = "idle"
  BY <1>2, EmptyIdle
<1>4. rd' = r
  BY <1>2 DEF Respond
<1>5. ReaderInv'
  BY <1>3, <1>4 DEF ReaderInv
<1> QED
  BY <1>1, <1>5, ReaderMoves

\* A body is cached in what the process sees and in what a stop leaves.
LEMMA Cached ==
    ASSUME IndexInv, render_put
    PROVE  /\ \A c : IsIndex(db, c) => IsIndex(db', c)
           /\ \A c : IsIndex(disk, c) => IsIndex(disk', c)
           /\ db'.blocks = db.blocks /\ db'.undo = db.undo /\ disk'.blocks = disk.blocks /\ disk'.undo = disk.undo
           /\ disk = db => disk' = db'
<1>1. PICK k \in {0, rd.row.n} :
          LET put(d) == [d EXCEPT !.render = Drop(Put(@, Row(rd.row.n, rd.answer)), {n \in DOMAIN d.render : n < k})]
          IN  db' = put(db) /\ disk' = put(disk)
  BY DEF render_put
<1>2. PICK v, w, d, e : /\ d = db /\ e = disk
                        /\ v = Drop(Put(d.render, Row(rd.row.n, rd.answer)), {n \in DOMAIN d.render : n < k})
                        /\ w = Drop(Put(e.render, Row(rd.row.n, rd.answer)), {n \in DOMAIN e.render : n < k})
  OBVIOUS
<1>3. db' = [d EXCEPT !.render = v] /\ disk' = [e EXCEPT !.render = w]
  BY <1>1, <1>2
<1>4. PICK x, y : x = [d EXCEPT !.render = v] /\ y = [e EXCEPT !.render = w]
  OBVIOUS
<1>5. ASSUME NEW c, IsIndex(d, c) PROVE IsIndex(x, c) /\ x.blocks = d.blocks /\ x.undo = d.undo
  BY <1>4, <1>5, IndexRendered
<1>6. ASSUME NEW c, IsIndex(e, c) PROVE IsIndex(y, c) /\ y.blocks = e.blocks /\ y.undo = e.undo
  BY <1>4, <1>6, IndexRendered
<1>7. PICK c1, c2 : IsIndex(d, c1) /\ IsIndex(e, c2)
  BY <1>2 DEF IndexInv, Synced, SyncedTo, DiskInv
<1>8. x.blocks = d.blocks /\ x.undo = d.undo /\ y.blocks = e.blocks /\ y.undo = e.undo
  BY <1>5, <1>6, <1>7
<1>9. d = e => x = y
  BY <1>2, <1>4
<1> QED
  BY <1>2, <1>3, <1>4, <1>5, <1>6, <1>8, <1>9

\* render_put keeps it, in a store that has moved on since the view.
LEMMA ByRenderPut == IndexInv /\ render_put => IndexInv'
<1> SUFFICES ASSUME IndexInv, render_put PROVE IndexInv'
  OBVIOUS
<1>1. /\ UNCHANGED <<node, peak, dirty, chain, table, nodeTip, bulk, fetched, look, pc>>
      /\ rd' = [rd EXCEPT !.pc = "answered"] /\ rd.pc = "fetched"
  BY DEF render_put, nodeVars, passVars
<1>2. /\ \A c : IsIndex(db, c) => IsIndex(db', c)
      /\ \A c : IsIndex(disk, c) => IsIndex(disk', c)
      /\ db'.blocks = db.blocks /\ (disk = db => disk' = db')
  BY Cached
<1>3. PassInv' /\ NodeInv'
  BY <1>1 DEF IndexInv, PassInv, NodeInv
<1>4. PICK c \in Ground : SyncedTo(c)
  BY DEF IndexInv, Synced
<1>5. SyncedTo(c)'
  BY <1>1, <1>2, <1>4 DEF SyncedTo
<1>6. DiskInv'
  BY <1>1, <1>2 DEF IndexInv, DiskInv
<1>7. ChainInv'
  BY <1>1, <1>2 DEF IndexInv, ChainInv
<1>8. ReaderInv'
  <2>1. PICK p, t, s, r, a, n : p = rd.pc /\ t = rd.table /\ s = rd.snap /\ r = rd.row /\ a = rd.answer /\ n = rd.todo
    OBVIOUS
  <2>2. /\ rd = [pc |-> p, table |-> t, snap |-> s, row |-> r, answer |-> a, todo |-> n]
        /\ t \in Tables /\ a = r.id
    BY <1>1, <2>1 DEF IndexInv, ReaderInv
  <2>3. rd' = [pc |-> "answered", table |-> t, snap |-> s, row |-> r, answer |-> a, todo |-> n]
    BY <1>1, <2>2
  <2> QED
    BY <2>2, <2>3 DEF ReaderInv
<1> QED
  BY <1>3, <1>5, <1>6, <1>7, <1>8 DEF IndexInv, Synced

-----------------------------------------------------------------------------
(* Every step                                                              *)

\* Every step keeps it.
LEMMA NextIndexInv == IndexInv /\ [Next]_vars => IndexInv'
<1> SUFFICES ASSUME IndexInv, [Next]_vars PROVE IndexInv'
  OBVIOUS
<1>1. CASE Sync
  BY <1>1, ByReadTip, ByUnwindQuiet, ByUnwindBlock, ByFetchRange, ByHashStage, ByConsumeFails, ByConsumeBulk,
     ByConsumeLast, ByConsumeDurable, ByEndOfRange, ByPublish, ByPruneUndo DEF Sync
<1>2. CASE Flush \/ Crash \/ Stop
  BY <1>2, ByFlush, ByCrash, ByStop
<1>3. CASE Node
  BY <1>3, ByNode, ByNodeDown DEF Node
<1>4. CASE Request
  BY <1>4, ByReadTable, ByView, ByConfirmed, ByRenderPut, ByRespond DEF Request
<1>5. CASE UNCHANGED vars
  <2>1. UNCHANGED <<node, peak, db, disk, dirty, chain, table, nodeTip, bulk, fetched, look, pc, rd>>
    BY <1>5 DEF vars, nodeVars, storeVars, passVars
  <2>2. ReaderInv'
    BY <2>1 DEF IndexInv, ReaderInv
  <2> QED
    BY <2>1, <2>2, ReaderMoves
<1> QED
  BY <1>1, <1>2, <1>3, <1>4, <1>5 DEF Next

\* The store, the tables and the reader of every reachable state (sync.rs, db.rs, chainstate.rs).
THEOREM StoreInvariance == Spec => []IndexInv
<1>1. Init => IndexInv
  BY InitIndexInv
<1>2. IndexInv /\ [Next]_vars => IndexInv'
  BY NextIndexInv
<1> QED
  BY <1>1, <1>2, PTL DEF Spec

-----------------------------------------------------------------------------
(* What the invariant gives                                                *)

\* A store that is a chain's index opens.
LEMMA IndexOpens ==
    ASSUME NEW c \in Ground, NEW d, IsIndex(d, c)
    PROVE  Opens(d)
<1>1. d.blocks = TableOf(c) /\ d.tip = TipOf(c) /\ DOMAIN d.blocks = StartHeight..Height(c)
      /\ (d.blocks = Empty <=> Height(c) = StartHeight - 1)
      /\ \A h \in StartHeight..Height(c) : d.blocks[h] = RecordOf(At(c, h))
  BY IndexReads, TableIs
<1>2. Height(c) \in Int /\ StartHeight \in Nat /\ StartHeight - 1 <= Height(c) /\ c \in Blocks
  BY GroundIs
<1>3. \A h, g \in DOMAIN d.blocks : h..g \subseteq DOMAIN d.blocks
  BY <1>1, <1>2
<1>4. CASE Height(c) = StartHeight - 1
  <2>1. d.tip = None /\ d.blocks = Empty
    BY <1>1, <1>4, TipIs
  <2> QED
    BY <1>3, <2>1 DEF Opens
<1>5. CASE Height(c) # StartHeight - 1
  <2>1. d.tip = c /\ d.blocks # Empty
    BY <1>1, <1>5, TipIs
  <2>2. PICK h : h = Height(c)
    OBVIOUS
  <2>3. h \in DOMAIN d.blocks /\ h + 1 \notin DOMAIN d.blocks /\ h \in StartHeight..Height(c)
    BY <1>1, <1>2, <1>5, <2>2
  <2>4. d.blocks[h].hash = c
    BY <1>1, <1>2, <2>2, <2>3, AtTip DEF RecordOf
  <2> QED
    BY <1>3, <2>1, <2>3, <2>4 DEF Opens
<1> QED
  BY <1>4, <1>5

\* ... and has the rows its tip's chain must have.
LEMMA IndexDescribes ==
    ASSUME NEW c \in Ground, Height(c) >= StartHeight, NEW d, IsIndex(d, c)
    PROVE  Describes(d, c)
<1>1. c \in Chains /\ c \in {x \in Chains : Height(x) >= StartHeight}
  BY GroundIs
<1>2. IndexOf[c] = [txids |-> TxidsOf(c), history |-> HistoryOf(c), utxo |-> UtxoOf(c),
                    hashes |-> [h \in StartHeight..Height(c) |-> At(c, h)]]
  BY <1>1 DEF IndexOf, TxidsOf, HistoryOf, UtxoOf, NumbersOf, Made, Gone, Makes, RowsAt
<1>3. /\ d.blocks = TableOf(c) /\ d.txids = TxidsOf(c) /\ d.history = HistoryOf(c) /\ d.utxo = UtxoOf(c)
      /\ DOMAIN d.blocks = StartHeight..Height(c)
      /\ \A h \in StartHeight..Height(c) : d.blocks[h] = RecordOf(At(c, h))
  BY IndexReads, TableIs
<1>4. [h \in DOMAIN d.blocks |-> d.blocks[h].hash] = [h \in StartHeight..Height(c) |-> At(c, h)]
  BY <1>3 DEF RecordOf
<1> QED
  BY <1>2, <1>3, <1>4 DEF Describes

\* The process's store and the one a stop would leave are, in every reachable state, the
\* exact index of the one chain their tip names (sync.rs, db.rs).
THEOREM StoreAlwaysChain == Spec => []StoreIsChain
<1>1. IndexInv => StoreIsChain
  <2> SUFFICES ASSUME IndexInv, NEW d \in {db, disk}
               PROVE  /\ Opens(d)
                      /\ IF d.tip = None THEN d.history = {} /\ d.utxo = Empty /\ d.txids = Empty
                                         ELSE Describes(d, d.tip)
    BY DEF StoreIsChain
  <2>1. PICK c \in Ground : IsIndex(d, c)
    BY DEF IndexInv, Synced, SyncedTo, DiskInv
  <2>2. Opens(d)
    BY <2>1, IndexOpens
  <2>3. d.tip = TipOf(c) /\ d.history = HistoryOf(c) /\ d.utxo = UtxoOf(c) /\ d.txids = TxidsOf(c)
    BY <2>1, IndexReads
  <2>4. CASE d.tip = None
    <3>1. Height(c) = StartHeight - 1
      BY <2>3, <2>4, TipIs
    <3>2. PICK x : x = StoreOf(c, Empty, Empty)
      OBVIOUS
    <3>3. x.history = {} /\ x.utxo = Empty /\ x.txids = Empty
      BY <3>1, <3>2, EmptyStore
    <3>4. x.history = HistoryOf(c) /\ x.utxo = UtxoOf(c) /\ x.txids = TxidsOf(c)
      BY <3>2, StoreIsStore
    <3> QED
      BY <2>2, <2>3, <2>4, <3>3, <3>4
  <2>5. CASE d.tip # None
    <3>1. d.tip = c /\ Height(c) >= StartHeight
      BY <2>3, <2>5, TipIs
    <3>2. Describes(d, c)
      BY <2>1, <3>1, IndexDescribes
    <3> QED
      BY <2>2, <2>5, <3>1, <3>2
  <2> QED
    BY <2>4, <2>5
<1> QED
  BY <1>1, StoreInvariance, PTL

\* The body served for a number is that number's transaction (render.rs, confirmed).
THEOREM AnswersAreIndexed == Spec => []ServedIsIndexed
<1>1. IndexInv => ServedIsIndexed
  BY DEF IndexInv, ReaderInv, ServedIsIndexed
<1> QED
  BY <1>1, StoreInvariance, PTL

-----------------------------------------------------------------------------
(* Numbers and blocks                                                      *)

\* Number k of chain x, a transaction of block b.
Holds(x, b, k) ==
    /\ NumbersOf(Front(b)) <= k /\ k < NumbersOf(Front(b)) + Len(TxsOf(b))
    /\ \E i \in DOMAIN TxsOf(b) : TxsOf(b)[i] = Indexed(x)[k + 1]

\* Every number of a chain is in one of its blocks.
LEMMA NumberedIn ==
    ASSUME NEW c \in Ground, NEW k \in Nat, k < NumbersOf(c)
    PROVE  \E h \in StartHeight..Height(c) : Holds(c, At(c, h), k)
<1> DEFINE Bad == {n \in Nat : \E x \in Ground : /\ Len(x) = n /\ k < NumbersOf(x)
                                                 /\ ~\E h \in StartHeight..Height(x) : Holds(x, At(x, h), k)}
<1>1. Bad \in SUBSET Nat /\ Len(c) \in Nat
  BY DEF Ground, Blocks
<1> SUFFICES ASSUME Bad # {} PROVE FALSE
  BY <1>1
<1>2. PICK n \in Bad : \A m \in Bad : n <= m
  BY <1>1, LeastNatural
<1>3. PICK x \in Ground : /\ Len(x) = n /\ k < NumbersOf(x)
                          /\ ~\E h \in StartHeight..Height(x) : Holds(x, At(x, h), k)
  BY <1>2
<1>4. /\ x \in Blocks /\ Height(x) \in Int /\ StartHeight \in Nat /\ StartHeight - 1 <= Height(x)
      /\ Len(x) = Height(x) + 1
      /\ Height(x) >= StartHeight =>
             x \in Chains /\ x # <<>> /\ Front(x) \in Ground /\ Height(Front(x)) = Height(x) - 1
  BY <1>3, GroundIs
<1>5. CASE Height(x) = StartHeight - 1
  <2>1. NumbersOf(x) = 0
    BY <1>3, <1>5, EmptyStore
  <2> QED
    BY <1>3, <2>1
<1>6. CASE Height(x) >= StartHeight
  <2>1. Front(x) \in Ground /\ Len(Front(x)) = n - 1 /\ n - 1 \in Nat
    <3> HIDE DEF Bad
    <3>1. Front(x) \in Ground /\ Height(Front(x)) = Height(x) - 1
      BY <1>4, <1>6
    <3>2. Len(Front(x)) = Height(Front(x)) + 1 /\ Len(Front(x)) \in Nat
      BY <3>1, GroundIs DEF Ground, Blocks
    <3> QED
      BY <1>3, <1>4, <3>1, <3>2
  <2>2. n - 1 \notin Bad
    <3> HIDE DEF Bad
    <3> QED
      BY <1>1, <1>2
  <2>3. PICK m, len, txs : m = NumbersOf(Front(x)) /\ txs = TxsOf(x) /\ len = Len(txs)
    OBVIOUS
  <2>4. /\ m \in Nat /\ len \in Nat /\ NumbersOf(x) = m + len /\ DOMAIN txs = 1..len
        /\ \A i \in 1..m : Indexed(x)[i] = Indexed(Front(x))[i]
        /\ \A i \in 1..len : Indexed(x)[m + i] = txs[i]
    BY <1>3, <1>6, <2>3, IndexedStep
  <2>5. CASE m <= k
    <3>1. PICK i : i = k - m + 1
      OBVIOUS
    <3>2. i \in 1..len /\ m + i = k + 1 /\ k < m + len
      BY <1>3, <2>4, <2>5, <3>1
    <3>3. Holds(x, x, k)
      <4>1. i \in DOMAIN TxsOf(x) /\ TxsOf(x)[i] = Indexed(x)[k + 1]
        BY <2>3, <2>4, <3>2
      <4>2. NumbersOf(Front(x)) <= k /\ k < NumbersOf(Front(x)) + Len(TxsOf(x))
        BY <2>3, <2>5, <3>2
      <4> QED
        BY <4>1, <4>2, Zenon DEF Holds
    <3>4. At(x, Height(x)) = x /\ Height(x) \in StartHeight..Height(x)
      BY <1>4, <1>6, AtTip
    <3> QED
      BY <1>3, <3>3, <3>4
  <2>6. CASE k < m
    <3>1. PICK h \in StartHeight..Height(Front(x)) : Holds(Front(x), At(Front(x), h), k)
      BY <2>1, <2>2, <2>3, <2>6
    <3>2. h \in Int /\ -1 <= h /\ h < Height(x) /\ h \in StartHeight..Height(x)
      BY <1>4, <1>6, <3>1
    <3>3. At(x, h) = At(Front(x), h)
      BY <1>4, <1>6, <3>2, FrontIs
    <3>4. k + 1 \in 1..m
      BY <2>4, <2>6
    <3>5. Indexed(x)[k + 1] = Indexed(Front(x))[k + 1]
      BY <2>4, <3>4
    <3>6. Holds(x, At(x, h), k)
      BY <3>1, <3>3, <3>5 DEF Holds
    <3> QED
      BY <1>3, <3>2, <3>6
  <2> QED
    BY <2>4, <2>5, <2>6
<1> QED
  BY <1>4, <1>5, <1>6

\* The pair a request reads is of one chain: each number in the snapshot has its
\* transaction in the block the table names for it (chainstate.rs, view).
THEOREM ViewsAreOneChain == Spec => []ViewIsOneChain
<1>1. IndexInv => ViewIsOneChain
  <2> SUFFICES ASSUME IndexInv, rd.pc = "view"
               PROVE  /\ rd.table = rd.snap.blocks
                      /\ \A row \in rd.snap.history :
                             \E h \in height_of(rd.table, row[2]) :
                                 \E i \in DOMAIN TxsOf(rd.table[h].hash) :
                                     TxsOf(rd.table[h].hash)[i].id = rd.snap.txids[row[2]]
    BY DEF ViewIsOneChain
  <2>1. PICK t, s : t = rd.table /\ s = rd.snap
    OBVIOUS
  <2>2. PICK c \in Ground : IsIndex(s, c) /\ t = TableOf(c)
    BY <2>1 DEF IndexInv, ReaderInv
  <2>3. s.blocks = TableOf(c) /\ s.history = HistoryOf(c) /\ s.txids = TxidsOf(c)
    BY <2>2, IndexReads
  <2>4. ASSUME NEW row \in s.history
        PROVE  \E h \in height_of(t, row[2]) :
                   \E i \in DOMAIN TxsOf(t[h].hash) : TxsOf(t[h].hash)[i].id = s.txids[row[2]]
    <3>1. PICK k : k = row[2]
      OBVIOUS
    <3>2. NumbersOf(c) \in Nat
      BY NumbersType
    <3>3. k \in 0..NumbersOf(c) - 1 /\ k \in Nat /\ k < NumbersOf(c)
      BY <2>3, <2>4, <3>1, <3>2, RowNumbers
    <3>4. PICK h \in StartHeight..Height(c) : Holds(c, At(c, h), k)
      BY <3>3, NumberedIn
    <3>5. h \in DOMAIN t /\ t[h] = RecordOf(At(c, h))
      BY <2>2, <3>4, TableIs
    <3>6. h \in height_of(t, k) /\ t[h].hash = At(c, h)
      BY <3>4, <3>5 DEF height_of, RecordOf, Holds
    <3>7. s.txids[k] = Indexed(c)[k + 1].id
      BY <2>3, <3>3 DEF TxidsOf
    <3> QED
      BY <3>1, <3>4, <3>6, <3>7 DEF Holds
  <2> QED
    BY <2>1, <2>2, <2>3, <2>4
<1> QED
  BY <1>1, StoreInvariance, PTL

-----------------------------------------------------------------------------
(* Undo records reach as deep as the node may reorganise                   *)

\* Block b is on the node's chain up to MAX_REORG_DEPTH below m.
Agrees(b, m) == \A h \in Nat : h <= Height(b) /\ h <= m - MaxReorgDepth => At(b, h) = At(peak, h)

\* ... and so is the store, which has an undo record for every block above that.
Reaches(d, m) ==
    \A h \in DOMAIN d.blocks :
        /\ h <= m - MaxReorgDepth => d.blocks[h].hash = At(peak, h)
        /\ h >= m - MaxReorgDepth => h \in DOMAIN d.undo

\* The highest tip the blocks written next will have been looked up at.
Top(m) == IF m < nodeTip THEN nodeTip ELSE m

\* What is looked up agrees as well, and what bulk holds is deeper still.
LookupsAgree(m) ==
    /\ \A i \in 1..Len(fetched) :
           fetched[i] # None => Height(fetched[i]) <= nodeTip /\ Agrees(fetched[i], Top(m))
    /\ \A i \in 1..Len(bulk) :
           Height(bulk[i]) < nodeTip - MaxReorgDepth /\ Agrees(bulk[i], Top(m))

\* m is the highest tip the node had when a block of the store was looked up.
DepthInv(m) ==
    /\ m \in Nat /\ m <= Height(peak) /\ Reaches(db, m) /\ LookupsAgree(m)
    /\ pc \in {"unwind", "pub_unwind"} /\ TipHeight(table) > nodeTip /\ nodeTip >= StartHeight
         => nodeTip >= m - MaxReorgDepth
    /\ pc \in {"pub_block", "prune"} => TipHeight(table) <= m

\* Undo records reach, in the store and on the disk, unless the node left more blocks at once;
\* only a pass that found the node below the first indexed block goes beyond them.
UndoInv ==
    /\ left \in Nat /\ nodeTip <= Height(peak)
    /\ left <= MaxReorgDepth =>
           /\ \E m : DepthInv(m)
           /\ \E m \in Nat : m <= Height(peak) /\ Reaches(disk, m)
           /\ pc = "fatal" => nodeTip < StartHeight

\* It holds at the start.
LEMMA InitUndoInv == Init => UndoInv
<1> SUFFICES ASSUME Init PROVE UndoInv
  OBVIOUS
<1>1. IndexInv
  BY InitIndexInv
<1>2. Height(peak) \in Nat
  BY <1>1, NodeIs
<1>3. db.blocks = Empty /\ disk.blocks = Empty /\ DOMAIN Empty = {}
  BY DEF Init, NewDb, Empty
<1>4. Reaches(db, 0) /\ Reaches(disk, 0)
  BY <1>3 DEF Reaches
<1>5. left = 0 /\ nodeTip = 0 /\ bulk = <<>> /\ fetched = <<>> /\ pc = "idle"
  BY DEF Init
<1>6. LookupsAgree(0)
  BY <1>5 DEF LookupsAgree
<1>7. DepthInv(0)
  BY <1>2, <1>4, <1>5, <1>6 DEF DepthInv
<1> QED
  BY <1>2, <1>4, <1>5, <1>7 DEF UndoInv

\* The higher of m and the tip the pass read.
LEMMA TopIs ==
    ASSUME IndexInv, NEW m \in Nat
    PROVE  Top(m) \in Nat /\ m <= Top(m) /\ nodeTip <= Top(m) /\ nodeTip \in Nat /\ MaxReorgDepth \in Nat
           /\ (Top(m) = m \/ Top(m) = nodeTip)
<1>1. nodeTip \in Nat /\ MaxReorgDepth \in Nat
  BY Passive, IndexConstants
<1> QED
  BY <1>1 DEF Top

\* A step that writes no block: what is looked up comes from before or from the node's chain.
LEMMA UndoQuiet ==
    ASSUME IndexInv, UndoInv, UNCHANGED <<peak, left, nodeTip, table>>, db'.blocks = db.blocks, db'.undo = db.undo,
           \/ disk'.blocks = disk.blocks /\ disk'.undo = disk.undo
           \/ disk'.blocks = db.blocks /\ disk'.undo = db.undo,
           left <= MaxReorgDepth => (pc' = "fatal" => nodeTip < StartHeight),
           pc' \in {"unwind", "pub_unwind"} => pc \in {"unwind", "pub_unwind"},
           pc' \in {"pub_block", "prune"} => pc \in {"pub_block", "prune"},
           \A i \in 1..Len(fetched') : fetched'[i] # None =>
               \/ \E j \in 1..Len(fetched) : fetched'[i] = fetched[j]
               \/ /\ Height(fetched'[i]) <= nodeTip
                  /\ \A h \in Nat : h <= Height(fetched'[i]) => At(fetched'[i], h) = At(peak, h),
           \A i \in 1..Len(bulk') :
               \/ \E j \in 1..Len(bulk) : bulk'[i] = bulk[j]
               \/ /\ Height(bulk'[i]) < nodeTip - MaxReorgDepth
                  /\ \E j \in 1..Len(fetched) : fetched[j] # None /\ bulk'[i] = fetched[j]
    PROVE  UndoInv'
<1>1. left' \in Nat /\ nodeTip' <= Height(peak')
  BY DEF UndoInv
<1>2. ASSUME left' <= MaxReorgDepth
      PROVE  (\E m : DepthInv(m)') /\ (\E m \in Nat : m <= Height(peak') /\ Reaches(disk, m)')
             /\ (pc' = "fatal" => nodeTip' < StartHeight)
  <2>1. PICK m : DepthInv(m)
    BY <1>2 DEF UndoInv
  <2>2. PICK n \in Nat : n <= Height(peak) /\ Reaches(disk, n)
    BY <1>2 DEF UndoInv
  <2>3. Reaches(db, m)'
    BY <2>1 DEF DepthInv, Reaches
  <2>4. LookupsAgree(m)'
    <3>1. LookupsAgree(m)
      BY <2>1 DEF DepthInv
    <3>2. Top(m)' = Top(m)
      BY DEF Top
    <3>3. ASSUME NEW b PROVE Agrees(b, Top(m))' <=> Agrees(b, Top(m))
      BY <3>2 DEF Agrees
    <3>4. ASSUME NEW i \in 1..Len(fetched'), fetched'[i] # None
          PROVE  Height(fetched'[i]) <= nodeTip /\ Agrees(fetched'[i], Top(m))
      <4>1. CASE \E j \in 1..Len(fetched) : fetched'[i] = fetched[j]
        BY <3>1, <3>4, <4>1 DEF LookupsAgree
      <4>2. CASE /\ Height(fetched'[i]) <= nodeTip
                 /\ \A h \in Nat : h <= Height(fetched'[i]) => At(fetched'[i], h) = At(peak, h)
        BY <4>2 DEF Agrees
      <4> QED
        BY <3>4, <4>1, <4>2
    <3>5. ASSUME NEW i \in 1..Len(bulk')
          PROVE  Height(bulk'[i]) < nodeTip - MaxReorgDepth /\ Agrees(bulk'[i], Top(m))
      <4>1. CASE \E j \in 1..Len(bulk) : bulk'[i] = bulk[j]
        BY <3>1, <4>1 DEF LookupsAgree
      <4>2. CASE /\ Height(bulk'[i]) < nodeTip - MaxReorgDepth
                 /\ \E j \in 1..Len(fetched) : fetched[j] # None /\ bulk'[i] = fetched[j]
        BY <3>1, <4>2 DEF LookupsAgree
      <4> QED
        BY <3>5, <4>1, <4>2
    <3>6. ASSUME NEW b, Agrees(b, Top(m)) PROVE \A h \in Nat : h <= Height(b) /\ h <= Top(m)' - MaxReorgDepth => At(b, h) = At(peak', h)
      BY <3>2, <3>6 DEF Agrees
    <3> QED
      BY <3>4, <3>5, <3>6 DEF LookupsAgree, Agrees
  <2>5. DepthInv(m)'
    BY <2>1, <2>3, <2>4 DEF DepthInv
  <2>6. Reaches(disk, n)' \/ Reaches(disk, m)'
    BY <2>1, <2>2 DEF DepthInv, Reaches
  <2>7. m \in Nat /\ m <= Height(peak')
    BY <2>1 DEF DepthInv
  <2> QED
    BY <1>2, <2>2, <2>5, <2>6, <2>7
<1> QED
  BY <1>1, <1>2 DEF UndoInv

\* A step that only moves the thread, or ends its range, keeps it.
LEMMA UndoSame ==
    ASSUME IndexInv, UndoInv, UNCHANGED <<peak, left, nodeTip, table, db>>, disk' = disk \/ disk' = db,
           left <= MaxReorgDepth => (pc' = "fatal" => nodeTip < StartHeight),
           pc' \in {"unwind", "pub_unwind"} => pc \in {"unwind", "pub_unwind"},
           pc' \in {"pub_block", "prune"} => pc \in {"pub_block", "prune"},
           fetched' = fetched \/ fetched' = <<>>, bulk' = bulk \/ bulk' = <<>>
    PROVE  UndoInv'
<1>1. \A i \in 1..Len(fetched') : \E j \in 1..Len(fetched) : fetched'[i] = fetched[j]
  <2>1. CASE fetched' = fetched
    BY <2>1
  <2>2. CASE fetched' = <<>>
    BY <2>2
  <2> QED
    BY <2>1, <2>2
<1>2. \A i \in 1..Len(bulk') : \E j \in 1..Len(bulk) : bulk'[i] = bulk[j]
  <2>1. CASE bulk' = bulk
    BY <2>1
  <2>2. CASE bulk' = <<>>
    BY <2>2
  <2> QED
    BY <2>1, <2>2
<1> QED
  BY <1>1, <1>2, UndoQuiet

\* The thread is past a fatal error only if it found the node below our first block.
LEMMA NotFatal ==
    ASSUME UndoInv, left <= MaxReorgDepth
    PROVE  pc = "fatal" => nodeTip < StartHeight
  BY DEF UndoInv

\* Steps of the thread that write nothing keep it.
LEMMA UndoBySync ==
    ASSUME IndexInv, UndoInv, UnwindDone \/ UnwindFails \/ NothingToDo \/ fetch_range \/ ConsumeFails \/ publish
    PROVE  UndoInv'
<1>1. CASE UnwindDone
  <2>1. UNCHANGED <<peak, left, nodeTip, table, db, disk, fetched, bulk>> /\ pc' = "fetch"
    BY <1>1 DEF UnwindDone, nodeVars, storeVars, passVars
  <2> QED
    BY <2>1, UndoSame
<1>2. CASE UnwindFails
  <2>1. UNCHANGED <<peak, left, nodeTip, table, db, disk>> /\ pc' = "idle" /\ fetched' = <<>> /\ bulk' = <<>>
    BY <1>2 DEF UnwindFails, Retry, nodeVars, storeVars
  <2> QED
    BY <2>1, UndoSame
<1>3. CASE NothingToDo
  <2>1. UNCHANGED <<peak, left, nodeTip, table, db, fetched, bulk>> /\ pc' = "idle" /\ (disk' = disk \/ disk' = db)
    BY <1>3 DEF NothingToDo, nodeVars
  <2> QED
    BY <2>1, UndoSame
<1>4. CASE fetch_range
  <2>1. UNCHANGED <<peak, left, nodeTip, table, db, disk>> /\ pc' = "consume" /\ fetched' = <<>> /\ bulk' = <<>>
    BY <1>4 DEF fetch_range, nodeVars, storeVars
  <2> QED
    BY <2>1, UndoSame
<1>5. CASE ConsumeFails
  <2>1. UNCHANGED <<peak, left, nodeTip, table, db, disk>> /\ pc' = "idle" /\ fetched' = <<>> /\ bulk' = <<>>
    BY <1>5 DEF ConsumeFails, Retry, nodeVars, storeVars
  <2> QED
    BY <2>1, UndoSame
<1>6. CASE publish
  <2>1. UNCHANGED <<peak, left, nodeTip, table, db, disk, fetched, bulk>>
    BY <1>6 DEF publish, nodeVars, storeVars, passVars
  <2>2. pc \in {"pub_unwind", "pub_bulk", "pub_block", "pub_last"} /\ pc' = AfterPublish[pc]
    BY <1>6, PubPcs DEF publish
  <2>3. /\ pc = "pub_unwind" => pc' = "unwind"
        /\ pc = "pub_bulk" => pc' = "consume"
        /\ pc = "pub_block" => pc' = "prune"
        /\ pc = "pub_last" => pc' = "idle"
    BY <2>2 DEF AfterPublish
  <2>4. /\ pc' # "fatal" /\ (pc' \in {"unwind", "pub_unwind"} => pc \in {"unwind", "pub_unwind"})
        /\ (pc' \in {"pub_block", "prune"} => pc \in {"pub_block", "prune"})
    BY <2>2, <2>3
  <2> QED
    BY <2>1, <2>4, UndoSame
<1> QED
  BY <1>1, <1>2, <1>3, <1>4, <1>5, <1>6

\* A flush and the reader keep it.
LEMMA UndoByOthers ==
    ASSUME IndexInv, UndoInv, Flush \/ ReadTable \/ view \/ confirmed \/ Respond \/ UNCHANGED vars
    PROVE  UndoInv'
<1>1. UNCHANGED <<peak, left, nodeTip, table, db, fetched, bulk, pc>> /\ (disk' = disk \/ disk' = db)
  <2>1. CASE Flush
    BY <2>1 DEF Flush, nodeVars, passVars
  <2>2. CASE ReadTable \/ view \/ confirmed \/ Respond
    BY <2>2 DEF ReadTable, view, confirmed, Respond, nodeVars, storeVars, passVars
  <2>3. CASE UNCHANGED vars
    BY <2>3 DEF vars, nodeVars, storeVars, passVars
  <2> QED
    BY <2>1, <2>2, <2>3
<1>2. left <= MaxReorgDepth => (pc' = "fatal" => nodeTip < StartHeight)
  BY <1>1, NotFatal
<1> QED
  BY <1>1, <1>2, UndoSame

\* A reindex keeps it: the highest chain is the same.
LEMMA UndoByReindex ==
    ASSUME IndexInv, UndoInv, Reindex
    PROVE  UndoInv'
<1>1. UNCHANGED <<peak, left, nodeTip, table, db, disk, fetched, bulk, pc>>
  BY DEF Reindex, MoveTo, storeVars, passVars
<1>2. left <= MaxReorgDepth => (pc' = "fatal" => nodeTip < StartHeight)
  BY <1>1, NotFatal
<1> QED
  BY <1>1, <1>2, UndoSame

\* A cached body changes no undo record.
LEMMA UndoByRenderPut ==
    ASSUME IndexInv, UndoInv, render_put
    PROVE  UndoInv'
<1>1. UNCHANGED <<peak, left, nodeTip, table, fetched, bulk, pc>>
  BY DEF render_put, nodeVars, passVars
<1>2. left <= MaxReorgDepth => (pc' = "fatal" => nodeTip < StartHeight)
  BY <1>1, NotFatal
<1>3. db'.blocks = db.blocks /\ db'.undo = db.undo /\ disk'.blocks = disk.blocks /\ disk'.undo = disk.undo
  BY Cached
<1>4. \A i \in 1..Len(fetched') : \E j \in 1..Len(fetched) : fetched'[i] = fetched[j]
  BY <1>1
<1>5. \A i \in 1..Len(bulk') : \E j \in 1..Len(bulk) : bulk'[i] = bulk[j]
  BY <1>1
<1> QED
  BY <1>1, <1>2, <1>3, <1>4, <1>5, UndoQuiet

\* A look-up that fails adds no block; one that succeeds adds blocks of the node's chain.
LEMMA UndoByNodeDown ==
    ASSUME IndexInv, UndoInv, NodeDown
    PROVE  UndoInv'
<1>1. UNCHANGED <<peak, left, db, disk>>
  BY DEF NodeDown, storeVars
<1>2. CASE pc \in {"behind", "unwind"} /\ Retry
  <2>1. UNCHANGED <<nodeTip, table>> /\ pc' = "idle" /\ fetched' = <<>> /\ bulk' = <<>>
    BY <1>2 DEF Retry
  <2> QED
    BY <1>1, <2>1, UndoSame
<1>3. CASE /\ pc = "consume" /\ look <= nodeTip
           /\ fetched' = Append(fetched, None) /\ look' = nodeTip + 1
           /\ UNCHANGED <<table, nodeTip, bulk, follow, pc>>
  <2>1. fetched \in Seq(Chains \cup {None})
    BY DEF IndexInv, PassInv
  <2>2. \A i \in 1..Len(fetched') : fetched'[i] # None => \E j \in 1..Len(fetched) : fetched'[i] = fetched[j]
    BY <1>3, <2>1
  <2>3. \A i \in 1..Len(bulk') : \E j \in 1..Len(bulk) : bulk'[i] = bulk[j]
    BY <1>3
  <2> QED
    BY <1>1, <1>3, <2>2, <2>3, UndoQuiet
<1> QED
  BY <1>2, <1>3 DEF NodeDown

\* What hash_stage finds is of the node's chain.
LEMMA HashesFound ==
    ASSUME IndexInv, hash_stage
    PROVE  /\ pc = "consume" /\ UNCHANGED <<pc, peak, left, nodeTip, table, db, disk, bulk, restarts>>
           /\ \A i \in 1..Len(fetched') : fetched'[i] # None =>
                  \/ \E j \in 1..Len(fetched) : fetched'[i] = fetched[j]
                  \/ /\ fetched'[i] \in Chains /\ Height(fetched'[i]) <= nodeTip /\ nodeTip \in Nat
                     /\ Height(fetched'[i]) \in Nat /\ Height(fetched'[i]) <= Height(peak)
                     /\ \A h \in Nat : h <= Height(fetched'[i]) => At(fetched'[i], h) = At(peak, h)
<1>1. PICK to : to = Min({look + HashBatch - 1, nodeTip})
  OBVIOUS
<1>2. /\ pc = "consume" /\ pc' = pc /\ look <= nodeTip
      /\ UNCHANGED <<pc, peak, left, nodeTip, table, db, disk, bulk, restarts>>
  BY DEF hash_stage, nodeVars, storeVars
<1>3. \/ /\ Height(node) >= to
         /\ fetched' = fetched \o [i \in 1..(to - look + 1) |-> At(node, look + i - 1)] /\ look' = to + 1
      \/ fetched' = Append(fetched, None) /\ look' = nodeTip + 1
  BY <1>1 DEF hash_stage
<1>4. fetched \in Seq(Chains \cup {None}) /\ nodeTip \in Nat /\ look \in Nat /\ HashBatch \in Nat \ {0}
  BY IndexConstants DEF IndexInv, PassInv
<1>6. CASE fetched' = Append(fetched, None) /\ look' = nodeTip + 1
  <2>1. \A i \in 1..Len(fetched') : fetched'[i] # None => \E j \in 1..Len(fetched) : fetched'[i] = fetched[j]
    BY <1>4, <1>6
  <2> QED
    BY <1>2, <2>1
<1>7. CASE /\ Height(node) >= to
           /\ fetched' = fetched \o [i \in 1..(to - look + 1) |-> At(node, look + i - 1)] /\ look' = to + 1
  <2>1. to \in Int /\ to <= nodeTip /\ look <= to
    <3>1. PICK x, y : x = look + HashBatch - 1 /\ y = nodeTip
      OBVIOUS
    <3>2. x \in Int /\ y \in Int /\ to = Min({x, y})
      BY <1>1, <1>4, <3>1
    <3>3. to \in Int /\ to <= y /\ to \in {x, y}
      BY <3>2, MinTwo
    <3> QED
      BY <1>2, <1>4, <3>1, <3>3
  <2>2. PICK k, g, n : k = to - look + 1 /\ g = [i \in 1..k |-> At(node, look + i - 1)] /\ n = Len(fetched)
    OBVIOUS
  <2>3. /\ node \in Chains /\ node \in Blocks /\ peak \in Blocks /\ Height(node) \in Nat /\ Height(peak) \in Nat
        /\ Height(node) <= Height(peak) /\ node = At(peak, Height(node))
    BY NodeIs
  <2>4. ASSUME NEW i \in 1..k
        PROVE  /\ At(node, look + i - 1) \in Chains /\ Height(At(node, look + i - 1)) <= nodeTip
               /\ Height(At(node, look + i - 1)) \in Nat /\ Height(At(node, look + i - 1)) <= Height(peak)
               /\ \A h \in Nat : h <= Height(At(node, look + i - 1)) => At(At(node, look + i - 1), h) = At(peak, h)
    <3>1. PICK q : q = look + i - 1
      OBVIOUS
    <3>2. q \in Nat /\ q <= Height(node) /\ -1 <= q /\ q \in Int /\ q <= nodeTip
      BY <1>4, <1>7, <2>1, <2>2, <2>3, <2>4, <3>1
    <3>3. At(node, q) \in Chains /\ Height(At(node, q)) = q
      BY <2>3, <3>2, AtChain, AtIs
    <3>4. ASSUME NEW h \in Nat, h <= q PROVE At(At(node, q), h) = At(peak, h)
      <4>1. h \in Int /\ -1 <= h /\ h <= Height(node) /\ Height(node) \in Int
        BY <2>3, <3>2, <3>4
      <4>2. At(At(node, q), h) = At(node, h)
        BY <2>3, <3>2, <3>4, <4>1, AtAt
      <4>3. At(At(peak, Height(node)), h) = At(peak, h)
        BY <2>3, <4>1, AtAt
      <4> QED
        BY <2>3, <4>2, <4>3
    <3>5. q <= Height(peak)
      BY <2>3, <3>2
    <3> QED
      BY <3>1, <3>2, <3>3, <3>4, <3>5
  <2>5. n \in Nat
    BY <1>4, <2>2
  <2>6. k \in Nat
    BY <1>4, <2>1, <2>2
  <2>7. \A i \in 1..Len(fetched') : fetched'[i] # None =>
            \/ \E j \in 1..Len(fetched) : fetched'[i] = fetched[j]
            \/ /\ fetched'[i] \in Chains /\ Height(fetched'[i]) <= nodeTip
               /\ Height(fetched'[i]) \in Nat /\ Height(fetched'[i]) <= Height(peak)
               /\ \A h \in Nat : h <= Height(fetched'[i]) => At(fetched'[i], h) = At(peak, h)
    <3>1. g \in Seq(Chains \cup {None}) /\ Len(g) = k
      BY <2>2, <2>4, <2>6
    <3>2. PICK f : f = fetched \o g
      OBVIOUS
    <3>3. /\ Len(f) = n + k /\ \A i \in 1..n : f[i] = fetched[i]
          /\ \A i \in n + 1..n + k : f[i] = g[i - n]
      BY <1>4, <2>2, <2>5, <2>6, <3>1, <3>2
    <3>4. ASSUME NEW i \in 1..Len(f)
          PROVE  \/ \E j \in 1..Len(fetched) : f[i] = fetched[j]
                 \/ /\ f[i] \in Chains /\ Height(f[i]) <= nodeTip
                    /\ Height(f[i]) \in Nat /\ Height(f[i]) <= Height(peak)
                    /\ \A h \in Nat : h <= Height(f[i]) => At(f[i], h) = At(peak, h)
      <4>1. CASE i <= n
        <5>1. i \in 1..n
          BY <2>5, <3>4, <4>1
        <5> QED
          BY <2>2, <3>3, <5>1
      <4>2. CASE i > n
        <5>1. i \in n + 1..n + k /\ i - n \in 1..k
          BY <2>5, <2>6, <3>3, <3>4, <4>2
        <5>2. f[i] = At(node, look + (i - n) - 1)
          BY <2>2, <3>3, <5>1
        <5> QED
          BY <2>4, <5>1, <5>2
      <4> QED
        BY <2>5, <2>6, <3>3, <3>4, <4>1, <4>2
    <3>5. fetched' = f
      BY <1>7, <2>2, <3>2
    <3> QED
      BY <3>4, <3>5
  <2> QED
    BY <1>2, <1>4, <2>7
<1> QED
  BY <1>3, <1>6, <1>7

\* hash_stage keeps it.
LEMMA UndoByHashStage ==
    ASSUME IndexInv, UndoInv, hash_stage
    PROVE  UndoInv'
<1>1. /\ pc = "consume" /\ UNCHANGED <<pc, peak, left, nodeTip, table, db, disk, bulk>>
      /\ \A i \in 1..Len(fetched') : fetched'[i] # None =>
             \/ \E j \in 1..Len(fetched) : fetched'[i] = fetched[j]
             \/ /\ Height(fetched'[i]) <= nodeTip
                /\ \A h \in Nat : h <= Height(fetched'[i]) => At(fetched'[i], h) = At(peak, h)
  BY HashesFound
<1>2. \A i \in 1..Len(bulk') : \E j \in 1..Len(bulk) : bulk'[i] = bulk[j]
  BY <1>1
<1> QED
  BY <1>1, <1>2, UndoQuiet

\* The rows of a store that is the index of a chain.
LEMMA RowsAre ==
    ASSUME NEW c \in Ground, NEW d, IsIndex(d, c)
    PROVE  /\ DOMAIN d.blocks = StartHeight..Height(c)
           /\ \A h \in DOMAIN d.blocks : h \in Nat /\ d.blocks[h].hash = At(c, h)
<1>1. d.blocks = TableOf(c)
  BY IndexReads
<1>2. DOMAIN d.blocks = StartHeight..Height(c) /\ \A h \in StartHeight..Height(c) : d.blocks[h] = RecordOf(At(c, h))
  BY <1>1, TableIs
<1>3. Height(c) \in Int /\ StartHeight \in Nat
  BY GroundIs
<1>4. \A b : RecordOf(b).hash = b
  BY DEF RecordOf
<1>5. \A h \in DOMAIN d.blocks : h \in Nat
  BY <1>2, <1>3
<1>6. ASSUME NEW h \in DOMAIN d.blocks PROVE d.blocks[h].hash = At(c, h)
  BY <1>2, <1>4, <1>6
<1> QED
  BY <1>2, <1>5, <1>6

\* Blocks below what undo records reach may be written without one.
LEMMA ReachesDeep ==
    ASSUME NEW m \in Nat, NEW b \in Ground, NEW x, IsIndex(x, b), Height(b) < m - MaxReorgDepth, Agrees(b, m)
    PROVE  Reaches(x, m)
<1>1. DOMAIN x.blocks = StartHeight..Height(b) /\ \A h \in DOMAIN x.blocks : h \in Nat /\ x.blocks[h].hash = At(b, h)
  BY RowsAre
<1>2. Height(b) \in Int /\ StartHeight \in Nat /\ MaxReorgDepth \in Nat
  BY GroundIs, IndexConstants
<1> QED
  BY <1>1, <1>2 DEF Reaches, Agrees

\* ReadTip keeps it: nothing is looked up yet at the new tip.
LEMMA UndoByReadTip ==
    ASSUME IndexInv, UndoInv, ReadTip
    PROVE  UndoInv'
<1>1. table' = table
  <2>1. table' = db.blocks
    BY PubPcs DEF ReadTip, IndexInv, ChainInv
  <2>2. PICK c \in Ground : SyncedTo(c)
    BY DEF IndexInv, Synced
  <2> QED
    BY <2>1, <2>2, IndexReads DEF SyncedTo
<1>2. /\ pc = "idle" /\ pc' = "behind" /\ nodeTip' = Height(node)
      /\ UNCHANGED <<peak, left, db, disk, fetched, bulk>>
  BY DEF ReadTip, nodeVars, storeVars
<1>3. bulk = <<>> /\ fetched = <<>> /\ Height(node) <= Height(peak)
  BY <1>2, Passive, NodeIs DEF ConsumePcs
<1>4. left' \in Nat /\ nodeTip' <= Height(peak')
  BY <1>2, <1>3 DEF UndoInv
<1>5. ASSUME left' <= MaxReorgDepth
      PROVE  (\E m : DepthInv(m)') /\ (\E m \in Nat : m <= Height(peak') /\ Reaches(disk, m)')
  <2>1. PICK m : DepthInv(m)
    BY <1>2, <1>5 DEF UndoInv
  <2>2. PICK n \in Nat : n <= Height(peak) /\ Reaches(disk, n)
    BY <1>2, <1>5 DEF UndoInv
  <2>3. Reaches(db, m)' /\ Reaches(disk, n)'
    BY <1>2, <2>1, <2>2 DEF DepthInv, Reaches
  <2>4. LookupsAgree(m)'
    BY <1>2, <1>3 DEF LookupsAgree
  <2>5. DepthInv(m)'
    BY <1>2, <2>1, <2>3, <2>4 DEF DepthInv
  <2> QED
    BY <1>2, <2>2, <2>3, <2>5
<1> QED
  BY <1>2, <1>4, <1>5 DEF UndoInv

\* The node is on our chain as deep as its own highest chain is.
LEMMA NodeOnPeak ==
    ASSUME IndexInv, NEW h \in Nat, h <= Height(node)
    PROVE  At(node, h) = At(peak, h) /\ On(node, At(peak, h))
<1>1. /\ node \in Blocks /\ peak \in Blocks /\ Height(node) \in Nat /\ Height(peak) \in Nat
      /\ Height(node) <= Height(peak) /\ node = At(peak, Height(node))
  BY NodeIs
<1>2. h \in Int /\ -1 <= h /\ Height(node) \in Int /\ h <= Height(peak)
  BY <1>1
<1>3. At(At(peak, Height(node)), h) = At(peak, h)
  BY <1>1, <1>2, AtAt
<1>4. At(node, h) = At(peak, h)
  BY <1>1, <1>3
<1>5. At(node, h) \in Blocks /\ Height(At(node, h)) = h
  BY <1>1, <1>2, AtIs
<1>6. On(node, At(node, h))
  BY <1>1, <1>5, OnIs
<1> QED
  BY <1>4, <1>6

\* A node below our tip that is on another chain left ours above the depth.
LEMMA UndoByBehind ==
    ASSUME IndexInv, UndoInv, Behind
    PROVE  UndoInv'
<1>1. pc = "behind" /\ UNCHANGED <<peak, left, db, disk>>
  BY DEF Behind, nodeVars, storeVars
<1>2. CASE Retry
  <2>1. UNCHANGED <<nodeTip, table>> /\ pc' = "idle" /\ fetched' = <<>> /\ bulk' = <<>>
    BY <1>2 DEF Retry
  <2> QED
    BY <1>1, <2>1, UndoSame
<1>3. CASE /\ pc' = "unwind" /\ UNCHANGED passVars
           /\ ~(/\ table # Empty /\ TipHeight(table) > nodeTip /\ nodeTip \in DOMAIN table
                /\ (~(Height(node) >= nodeTip) \/ At(node, nodeTip) = table[nodeTip].hash))
  <2>1. UNCHANGED <<table, nodeTip, bulk, fetched>>
    BY <1>3 DEF passVars
  <2>2. ASSUME NEW m, DepthInv(m), TipHeight(table) > nodeTip, nodeTip >= StartHeight
        PROVE  nodeTip >= m - MaxReorgDepth
    <3>1. PICK c \in Ground : SyncedTo(c)
      BY DEF IndexInv, Synced
    <3>2. table = TableOf(c) /\ IsIndex(db, c)
      BY <3>1 DEF SyncedTo
    <3>3. /\ TipHeight(table) = Height(c) /\ (table = Empty <=> Height(c) = StartHeight - 1)
          /\ Height(c) \in Int /\ nodeTip \in Nat /\ Height(node) \in Nat /\ StartHeight \in Nat
      BY <3>2, FromIs, GroundIs, Passive
    <3>4. /\ db.blocks = table /\ DOMAIN table = StartHeight..Height(c)
      BY <3>2, IndexReads, TableIs
    <3>5. nodeTip \in DOMAIN table /\ table # Empty
      BY <2>2, <3>3, <3>4
    <3>6. Height(node) >= nodeTip /\ At(node, nodeTip) # table[nodeTip].hash
      BY <1>3, <2>2, <3>3, <3>5
    <3>7. At(peak, nodeTip) # table[nodeTip].hash
      BY <3>3, <3>6, NodeOnPeak
    <3>8. m \in Nat /\ (nodeTip <= m - MaxReorgDepth => table[nodeTip].hash = At(peak, nodeTip)) /\ MaxReorgDepth \in Nat
      BY <2>2, <3>4, <3>5, IndexConstants DEF DepthInv, Reaches
    <3> QED
      BY <3>3, <3>7, <3>8
  <2>3. left' \in Nat /\ nodeTip' <= Height(peak')
    BY <1>1, <2>1 DEF UndoInv
  <2>4. ASSUME left' <= MaxReorgDepth
        PROVE  (\E m : DepthInv(m)') /\ (\E m \in Nat : m <= Height(peak') /\ Reaches(disk, m)')
    <3>1. PICK m : DepthInv(m)
      BY <1>1, <2>4 DEF UndoInv
    <3>2. PICK n \in Nat : n <= Height(peak) /\ Reaches(disk, n)
      BY <1>1, <2>4 DEF UndoInv
    <3>3. Reaches(db, m)' /\ Reaches(disk, n)'
      BY <1>1, <3>1, <3>2 DEF DepthInv, Reaches
    <3>4. LookupsAgree(m)'
      <4>1. bulk = <<>> /\ fetched = <<>>
        BY <1>1, Passive DEF ConsumePcs
      <4> QED
        BY <2>1, <4>1 DEF LookupsAgree
    <3>5. TipHeight(table)' = TipHeight(table)
      BY <2>1 DEF TipHeight
    <3>6. DepthInv(m)'
      BY <1>1, <1>3, <2>1, <2>2, <3>1, <3>3, <3>4, <3>5 DEF DepthInv
    <3> QED
      BY <1>1, <3>2, <3>3, <3>6
  <2> QED
    BY <1>3, <2>3, <2>4 DEF UndoInv
<1> QED
  BY <1>2, <1>3 DEF Behind

\* A block without an undo record is never met, if no reorganisation was deeper and the
\* node was not below our first block.
LEMMA UndoByNoUndo ==
    ASSUME IndexInv, UndoInv, NoUndo
    PROVE  UndoInv'
<1>1. /\ pc = "unwind" /\ table # Empty /\ MustUnwind(TipHeight(table)) /\ TipHeight(table) \notin DOMAIN db.undo
      /\ UNCHANGED <<peak, left, nodeTip, table, db, disk, fetched, bulk>>
  BY DEF NoUndo, nodeVars, storeVars, passVars
<1>2. ASSUME left <= MaxReorgDepth, nodeTip >= StartHeight PROVE FALSE
  <2>1. PICK m : DepthInv(m)
    BY <1>2 DEF UndoInv
  <2>2. PICK c \in Ground : SyncedTo(c)
    BY DEF IndexInv, Synced
  <2>3. table = TableOf(c) /\ IsIndex(db, c)
    BY <2>2 DEF SyncedTo
  <2>4. PICK H : H = TipHeight(table)
    OBVIOUS
  <2>5. /\ H = Height(c) /\ H # StartHeight - 1 /\ H \in Int /\ StartHeight - 1 <= H /\ StartHeight \in Nat
        /\ nodeTip \in Nat /\ MaxReorgDepth \in Nat
    BY <1>1, <2>3, <2>4, FromIs, GroundIs, Passive, IndexConstants
  <2>6. H \in Nat /\ H \in StartHeight..Height(c)
    BY <2>5
  <2>7. H \in DOMAIN db.blocks /\ db.blocks = table
    BY <2>3, <2>6, RowsAre, IndexReads
  <2>8. m \in Nat /\ H < m - MaxReorgDepth /\ table[H].hash = At(peak, H)
    <3>1. m \in Nat /\ Reaches(db, m)
      BY <2>1 DEF DepthInv
    <3>2. ~(H >= m - MaxReorgDepth)
      BY <1>1, <2>4, <2>7, <3>1 DEF Reaches
    <3>3. H < m - MaxReorgDepth /\ H <= m - MaxReorgDepth
      BY <2>5, <2>6, <3>1, <3>2
    <3> QED
      BY <2>7, <3>1, <3>3 DEF Reaches
  <2>9. CASE H > nodeTip
    <3>1. nodeTip >= m - MaxReorgDepth
      BY <1>1, <1>2, <2>1, <2>4, <2>9 DEF DepthInv
    <3> QED
      BY <2>5, <2>6, <2>8, <2>9, <3>1
  <2>10. CASE Height(node) >= H /\ ~OnNode(H)
    <3>1. Height(node) \in Nat /\ H <= Height(node)
      BY <2>6, <2>10, NodeIs
    <3>2. On(node, At(peak, H))
      BY <2>6, <3>1, NodeOnPeak
    <3> QED
      BY <2>8, <2>10, <3>2 DEF OnNode
  <2> QED
    BY <1>1, <2>4, <2>9, <2>10 DEF MustUnwind
<1>3. left <= MaxReorgDepth => nodeTip < StartHeight
  <2>1. nodeTip \in Nat /\ StartHeight \in Nat
    BY Passive, IndexConstants
  <2> QED
    BY <1>2, <2>1
<1>4. pc' = "fatal"
  BY DEF NoUndo
<1> QED
  BY <1>1, <1>3, <1>4, UndoSame

\* UnwindBlock keeps it: the blocks left have their records.
LEMMA UndoByUnwindBlock ==
    ASSUME IndexInv, UndoInv, UnwindBlock
    PROVE  UndoInv'
<1>1. PICK b \in Ground : /\ Height(b) >= StartHeight /\ SyncedTo(b)
                          /\ Front(b) \in Ground /\ IsIndex(db', Front(b)) /\ disk' = db'
                          /\ db'.undo = Drop(db.undo, {Height(b)})
                          /\ table' = TableOf(Front(b)) /\ Height(b) = TipHeight(table)
  BY Unwound
<1>2. PICK c, d : c = Front(b) /\ d = db'
  OBVIOUS
<1>3. /\ pc = "unwind" /\ pc' = "pub_unwind" /\ UNCHANGED <<peak, left, nodeTip, bulk, fetched>>
  BY DEF UnwindBlock, nodeVars
<1>4. /\ c \in Ground /\ IsIndex(d, c) /\ d.undo = Drop(db.undo, {Height(b)}) /\ IsIndex(db, b)
      /\ Height(c) = Height(b) - 1 /\ Height(b) \in Int /\ StartHeight \in Nat /\ b \in Blocks /\ b # <<>>
  BY <1>1, <1>2, GroundIs DEF SyncedTo
<1>5. ASSUME NEW h \in DOMAIN d.blocks
      PROVE  h \in DOMAIN db.blocks /\ d.blocks[h].hash = db.blocks[h].hash /\ h # Height(b)
  <2>1. h \in Nat /\ h \in StartHeight..Height(c) /\ d.blocks[h].hash = At(c, h)
    BY <1>4, <1>5, RowsAre
  <2>2. h \in StartHeight..Height(b) /\ h < Height(b) /\ -1 <= h /\ h \in Int
    BY <1>4, <2>1
  <2>3. h \in DOMAIN db.blocks /\ db.blocks[h].hash = At(b, h)
    BY <1>4, <2>2, RowsAre
  <2>4. At(b, h) = At(c, h)
    BY <1>2, <1>4, <2>2, FrontIs
  <2> QED
    BY <1>4, <2>1, <2>2, <2>3, <2>4
<1>6. left' \in Nat /\ nodeTip' <= Height(peak')
  BY <1>3 DEF UndoInv
<1>7. ASSUME left' <= MaxReorgDepth
      PROVE  (\E m : DepthInv(m)') /\ (\E m \in Nat : m <= Height(peak') /\ Reaches(disk, m)')
  <2>1. PICK m : DepthInv(m)
    BY <1>3, <1>7 DEF UndoInv
  <2>2. Reaches(d, m)
    <3>1. Reaches(db, m)
      BY <2>1 DEF DepthInv
    <3>2. \A h \in DOMAIN db.undo : h # Height(b) => h \in DOMAIN d.undo
      BY <1>4 DEF Drop
    <3> QED
      BY <1>5, <3>1, <3>2 DEF Reaches
  <2>3. Reaches(db, m)' /\ Reaches(disk, m)'
    BY <1>1, <1>2, <1>3, <2>2 DEF Reaches
  <2>4. LookupsAgree(m)'
    <3>1. bulk = <<>> /\ fetched = <<>>
      BY <1>3, Passive DEF ConsumePcs
    <3> QED
      BY <1>3, <3>1 DEF LookupsAgree
  <2>5. TipHeight(table)' > nodeTip' /\ nodeTip' >= StartHeight => nodeTip' >= m - MaxReorgDepth
    <3>1. TipHeight(TableOf(c)) = Height(c)
      BY <1>4, TableIs
    <3>2. TipHeight(table)' = Height(c)
      BY <1>1, <1>2, <3>1 DEF TipHeight
    <3>3. Height(c) > nodeTip => TipHeight(table) > nodeTip
      BY <1>1, <1>4, Passive
    <3> QED
      BY <1>3, <2>1, <3>2, <3>3 DEF DepthInv
  <2>6. DepthInv(m)'
    BY <1>3, <2>1, <2>3, <2>4, <2>5 DEF DepthInv
  <2> QED
    BY <1>3, <2>1, <2>3, <2>6 DEF DepthInv
<1> QED
  BY <1>3, <1>6, <1>7 DEF UndoInv

\* A batch of blocks below what undo records reach, written without them.
LEMMA UndoByWrite ==
    ASSUME IndexInv, UndoInv, UNCHANGED <<peak, left, nodeTip, disk>>, NEW b \in Ground, IsIndex(db', b),
           bulk' = <<>>, pc' \in {"pub_bulk", "pub_last"},
           Height(b) < nodeTip - MaxReorgDepth, \A m : DepthInv(m) => Agrees(b, Top(m)),
           \A i \in 1..Len(fetched') : \E j \in 1..Len(fetched) : fetched'[i] = fetched[j]
    PROVE  UndoInv'
<1>1. left' \in Nat /\ nodeTip' <= Height(peak')
  BY DEF UndoInv
<1>2. ASSUME left' <= MaxReorgDepth
      PROVE  (\E m : DepthInv(m)') /\ (\E m \in Nat : m <= Height(peak') /\ Reaches(disk, m)')
  <2>1. PICK m : DepthInv(m)
    BY <1>2 DEF UndoInv
  <2>2. PICK n \in Nat : n <= Height(peak) /\ Reaches(disk, n)
    BY <1>2 DEF UndoInv
  <2>3. m \in Nat /\ m <= Height(peak) /\ LookupsAgree(m) /\ nodeTip <= Height(peak)
    BY <2>1 DEF DepthInv, UndoInv
  <2>4. PICK M : M = Top(m)
    OBVIOUS
  <2>5. /\ M \in Nat /\ m <= M /\ nodeTip <= M /\ nodeTip \in Nat /\ MaxReorgDepth \in Nat
        /\ M <= Height(peak) /\ Top(M) = M /\ Top(M)' = M
    <3>1. M \in Nat /\ m <= M /\ nodeTip <= M /\ nodeTip \in Nat /\ MaxReorgDepth \in Nat /\ (M = m \/ M = nodeTip)
      BY <2>3, <2>4, TopIs
    <3> QED
      BY <2>3, <3>1 DEF Top
  <2>6. PICK x : x = db'
    OBVIOUS
  <2>7. Reaches(x, M)
    <3>1. Height(b) \in Int
      BY GroundIs
    <3>2. Height(b) < M - MaxReorgDepth
      BY <2>5, <3>1
    <3>3. Agrees(b, M)
      BY <2>1, <2>4
    <3> QED
      BY <2>5, <2>6, <3>2, <3>3, ReachesDeep
  <2>8. Reaches(db, M)' /\ Reaches(disk, n)'
    BY <2>2, <2>6, <2>7 DEF Reaches
  <2>9. LookupsAgree(M)'
    <3>1. \A i \in 1..Len(fetched) :
              fetched[i] # None => Height(fetched[i]) <= nodeTip /\ Agrees(fetched[i], M)
      BY <2>3, <2>4 DEF LookupsAgree
    <3>2. ASSUME NEW i \in 1..Len(fetched'), fetched'[i] # None
          PROVE  Height(fetched'[i]) <= nodeTip /\ Agrees(fetched'[i], M)
      BY <3>1, <3>2
    <3>3. ASSUME NEW y, Agrees(y, M)
          PROVE  \A h \in Nat : h <= Height(y) /\ h <= Top(M)' - MaxReorgDepth => At(y, h) = At(peak', h)
      BY <2>5, <3>3 DEF Agrees
    <3>4. 1..Len(bulk') = {}
      OBVIOUS
    <3>5. ASSUME NEW y, Agrees(y, M) PROVE Agrees(y, Top(M))'
      BY <3>3, <3>5 DEF Agrees
    <3> QED
      BY <3>2, <3>3, <3>4 DEF LookupsAgree, Agrees
  <2>10. DepthInv(M)'
    BY <2>5, <2>8, <2>9 DEF DepthInv
  <2> QED
    BY <2>2, <2>8, <2>10
<1> QED
  BY <1>1, <1>2 DEF UndoInv

\* What bulk holds last is as deep as all of it.
LEMMA LastOfBulk ==
    ASSUME IndexInv, UndoInv, bulk # <<>>, NEW b, b = bulk[Len(bulk)], NEW m, DepthInv(m)
    PROVE  Height(b) < nodeTip - MaxReorgDepth /\ Agrees(b, Top(m))
<1>1. bulk \in Seq(Chains)
  BY DEF IndexInv, PassInv
<1>2. Len(bulk) \in 1..Len(bulk)
  BY <1>1
<1> QED
  BY <1>2 DEF DepthInv, LookupsAgree

\* Once the node reorganised too deeply nothing is claimed of undo records.
LEMMA TooDeep ==
    ASSUME UndoInv, UNCHANGED <<peak, left, nodeTip>>, ~(left <= MaxReorgDepth)
    PROVE  UndoInv'
  BY DEF UndoInv

\* What bulk holds is written.
LEMMA UndoByRestOfBulk ==
    ASSUME IndexInv, UndoInv, pc = "consume", bulk # <<>>, WriteBulk(bulk), bulk' = <<>>,
           UNCHANGED <<peak, left, nodeTip>>, pc' \in {"pub_bulk", "pub_last"}, fetched' = fetched \/ fetched' = <<>>
    PROVE  UndoInv'
<1>1. CASE ~(left <= MaxReorgDepth)
  BY <1>1, TooDeep
<1>2. CASE left <= MaxReorgDepth
  <2>1. PICK c \in Ground : SyncedTo(c)
    BY DEF IndexInv, Synced
  <2>2. PICK s, x : s = bulk /\ x = Apply(db, s, next_txnum(table), FALSE)
    OBVIOUS
  <2>3. s \in Seq(Chains) /\ s # <<>> /\ Linked(c, s)
    BY <2>1, <2>2 DEF IndexInv, PassInv, SyncedTo
  <2>4. PICK b : b = s[Len(s)]
    OBVIOUS
  <2>5. WroteTo(x, s, b, db.undo)
    BY <2>1, <2>2, <2>3, <2>4, WrittenBulk
  <2>6. b \in Ground /\ IsIndex(db', b) /\ disk' = disk
    BY <2>2, <2>5 DEF WroteTo, WriteBulk
  <2>7. \A m : DepthInv(m) => Height(b) < nodeTip - MaxReorgDepth /\ Agrees(b, Top(m))
    BY <2>2, <2>4, LastOfBulk
  <2>8. \E m : DepthInv(m)
    BY <1>2 DEF UndoInv
  <2>9. \A i \in 1..Len(fetched') : \E j \in 1..Len(fetched) : fetched'[i] = fetched[j]
    <3>1. CASE fetched' = fetched
      BY <3>1
    <3>2. CASE fetched' = <<>>
      BY <3>2
    <3> QED
      BY <3>1, <3>2
  <2> QED
    BY <2>6, <2>7, <2>8, <2>9, UndoByWrite
<1> QED
  BY <1>1, <1>2

\* ConsumeLast keeps it.
LEMMA UndoByConsumeLast ==
    ASSUME IndexInv, UndoInv, ConsumeLast
    PROVE  UndoInv'
<1>1. /\ pc = "consume" /\ bulk # <<>> /\ WriteBulk(bulk) /\ bulk' = <<>>
      /\ UNCHANGED <<peak, left, nodeTip>> /\ pc' = "pub_bulk" /\ fetched' = fetched
  BY DEF ConsumeLast, nodeVars
<1> QED
  BY <1>1, UndoByRestOfBulk

\* EndOfRange keeps it.
LEMMA UndoByEndOfRange ==
    ASSUME IndexInv, UndoInv, EndOfRange
    PROVE  UndoInv'
<1>1. pc = "consume" /\ bulk' = <<>> /\ fetched' = <<>> /\ UNCHANGED <<peak, left, nodeTip>>
  BY DEF EndOfRange, nodeVars
<1>2. CASE bulk = <<>>
  <2>1. pc' = "idle" /\ UNCHANGED <<db, disk, table>>
    BY <1>2 DEF EndOfRange, storeVars
  <2> QED
    BY <1>1, <2>1, UndoSame
<1>3. CASE bulk # <<>>
  <2>1. WriteBulk(bulk) /\ pc' = "pub_last"
    BY <1>3 DEF EndOfRange
  <2> QED
    BY <1>1, <1>3, <2>1, UndoByRestOfBulk
<1> QED
  BY <1>2, <1>3

\* The head and the rest of what is looked up.
LEMMA LookedUpHead ==
    ASSUME IndexInv, fetched # <<>>
    PROVE  /\ 1 \in 1..Len(fetched) /\ Head(fetched) = fetched[1] /\ Len(fetched) \in Nat
           /\ \A i \in 1..Len(Tail(fetched)) : \E j \in 1..Len(fetched) : Tail(fetched)[i] = fetched[j]
<1>1. fetched \in Seq(Chains \cup {None})
  BY DEF IndexInv, PassInv
<1>2. 1 \in 1..Len(fetched) /\ Head(fetched) = fetched[1] /\ Len(fetched) \in Nat
  BY <1>1
<1>3. Len(Tail(fetched)) = Len(fetched) - 1 /\ \A i \in 1..Len(Tail(fetched)) : Tail(fetched)[i] = fetched[i + 1]
  BY <1>1
<1>4. ASSUME NEW i \in 1..Len(Tail(fetched)) PROVE \E j \in 1..Len(fetched) : Tail(fetched)[i] = fetched[j]
  <2>1. i + 1 \in 1..Len(fetched)
    BY <1>2, <1>3, <1>4
  <2> QED
    BY <1>3, <1>4, <2>1
<1> QED
  BY <1>2, <1>4

\* ConsumeBulk keeps it: the block is below what a reorganisation may undo.
LEMMA UndoByConsumeBulk ==
    ASSUME IndexInv, UndoInv, ConsumeBulk
    PROVE  UndoInv'
<1>1. CASE ~(left <= MaxReorgDepth)
  <2>1. UNCHANGED <<peak, left, nodeTip>>
    BY DEF ConsumeBulk, nodeVars
  <2> QED
    BY <1>1, <2>1, TooDeep
<1>2. CASE left <= MaxReorgDepth
  <2>1. PICK b, f, s : b = Head(fetched) /\ f = Tail(fetched) /\ s = Append(bulk, b)
    OBVIOUS
  <2>2. /\ pc = "consume" /\ fetched # <<>> /\ b # None /\ Follows(b) /\ fetched' = f /\ Height(b) < durable_from
        /\ UNCHANGED <<peak, left, nodeTip>>
    BY <2>1 DEF ConsumeBulk, nodeVars
  <2>3. PICK c \in Ground :
                 /\ SyncedTo(c) /\ b \in Ground /\ b \in Chains /\ Height(b) = Height(c) + Len(bulk) + 1
                 /\ Height(b) >= StartHeight /\ Front(b) = TipAfter(c, bulk, Len(bulk))
    BY <2>1, <2>2, NextBlock
  <2>4. bulk \in Seq(Chains) /\ Len(bulk) \in Nat /\ Linked(c, bulk)
    BY <2>3 DEF IndexInv, PassInv, SyncedTo
  <2>5. Height(b) < nodeTip - MaxReorgDepth
    <3>1. Height(b) \in Int /\ StartHeight \in Nat /\ StartHeight <= Height(b)
      BY <2>3, GroundIs
    <3>2. Height(b) \in Nat /\ nodeTip \in Nat /\ MaxReorgDepth \in Nat
      BY <3>1, Passive, IndexConstants
    <3> QED
      BY <2>2, <3>2 DEF durable_from
  <2>6. /\ 1 \in 1..Len(fetched) /\ b = fetched[1]
        /\ \A i \in 1..Len(f) : \E j \in 1..Len(fetched) : f[i] = fetched[j]
    BY <2>1, <2>2, LookedUpHead
  <2>7. CASE ~BatchFull
    <3>1. bulk' = s /\ UNCHANGED <<db, disk, table, pc>>
      BY <2>1, <2>7 DEF ConsumeBulk, storeVars
    <3>2. ASSUME NEW i \in 1..Len(s)
          PROVE  \/ \E j \in 1..Len(bulk) : s[i] = bulk[j]
                 \/ /\ Height(s[i]) < nodeTip - MaxReorgDepth
                    /\ \E j \in 1..Len(fetched) : fetched[j] # None /\ s[i] = fetched[j]
      <4>1. CASE i \in 1..Len(bulk)
        <5>1. s[i] = bulk[i]
          BY <2>1, <2>3, <2>4, <4>1
        <5> QED
          BY <4>1, <5>1
      <4>2. CASE i = Len(bulk) + 1
        <5>1. s[i] = b
          BY <2>1, <2>3, <2>4, <4>2
        <5> QED
          BY <2>2, <2>5, <2>6, <5>1
      <4>3. Len(s) = Len(bulk) + 1
        BY <2>1, <2>3, <2>4
      <4> QED
        BY <2>4, <3>2, <4>1, <4>2, <4>3
    <3> QED
      BY <2>2, <2>6, <3>1, <3>2, UndoQuiet
  <2>8. CASE BatchFull
    <3>1. WriteBulk(s) /\ bulk' = <<>> /\ pc' = "pub_bulk"
      BY <2>1, <2>8 DEF ConsumeBulk
    <3>2. PICK x : x = Apply(db, s, next_txnum(table), FALSE)
      OBVIOUS
    <3>3. db' = x /\ disk' = disk
      BY <3>1, <3>2 DEF WriteBulk
    <3>4. Linked(c, s) /\ Len(s) = Len(bulk) + 1 /\ s \in Seq(Chains) /\ s[Len(s)] = b
      BY <2>1, <2>3, <2>4, LinkedMore
    <3>5. s # <<>>
      BY <2>4, <3>4
    <3>6. WroteTo(x, s, b, db.undo)
      BY <2>3, <3>2, <3>4, <3>5, WrittenBulk
    <3>7. IsIndex(db', b)
      BY <3>3, <3>6 DEF WroteTo
    <3>8. \A m : DepthInv(m) => Agrees(b, Top(m))
      BY <2>2, <2>6 DEF DepthInv, LookupsAgree
    <3> QED
      BY <2>2, <2>3, <2>5, <2>6, <3>1, <3>3, <3>7, <3>8, UndoByWrite
  <2> QED
    BY <2>7, <2>8
<1> QED
  BY <1>1, <1>2

\* A block near the tip, written with its undo record.
LEMMA UndoByConsumeDurable ==
    ASSUME IndexInv, UndoInv, ConsumeDurable
    PROVE  UndoInv'
<1>1. PICK b, f, s, x :
          /\ b = Head(fetched) /\ f = Tail(fetched) /\ s = <<b>>
          /\ x = Apply(db, s, next_txnum(table), TRUE)
  OBVIOUS
<1>2. /\ pc = "consume" /\ fetched # <<>> /\ b # None /\ Follows(b) /\ bulk = <<>> /\ fetched' = f
      /\ UNCHANGED <<peak, left, nodeTip, bulk>> /\ pc' = "pub_block"
  BY <1>1 DEF ConsumeDurable, nodeVars
<1>3. db' = x /\ disk' = x /\ table' = Put(table, [h \in {Height(s[i]) : i \in DOMAIN s} |-> x.blocks[h]])
  <2>1. db' = Apply(db, <<b>>, next_txnum(table), TRUE) /\ disk' = Apply(FollowBase, <<b>>, next_txnum(table), TRUE)
        /\ table' = Put(table, Grown(<<b>>))
    BY <1>1 DEF ConsumeDurable
  <2>2. db' = x /\ disk' = x
    BY <1>1, <2>1, DurableBase
  <2> QED
    BY <1>1, <2>1, <2>2 DEF Grown
<1>4. PICK c \in Ground :
               /\ SyncedTo(c) /\ b \in Ground /\ b \in Chains /\ Height(b) = Height(c) + Len(bulk) + 1
               /\ Height(b) >= StartHeight /\ Front(b) = TipAfter(c, bulk, Len(bulk))
  BY <1>1, <1>2, NextBlock
<1>5. Front(b) = c /\ Height(b) = Height(c) + 1 /\ IsIndex(db, c) /\ Height(c) \in Int /\ StartHeight \in Nat
  BY <1>2, <1>4, LinkedNone, GroundIs DEF SyncedTo
<1>6. Linked(c, s) /\ Len(s) = 1 /\ s[1] = b /\ s \in Seq(Chains) /\ s # <<>>
  BY <1>1, <1>4, <1>5, LinkedOne
<1>7. IsIndex(x, b) /\ table' = TableOf(b) /\ x.undo = Put(db.undo, Row(Height(b), UndoOf(b)))
  <2>1. WroteTo(x, s, b, Put(db.undo, Row(Height(b), UndoOf(b))))
    BY <1>1, <1>4, <1>6, WrittenDurable
  <2> QED
    BY <1>3, <2>1 DEF WroteTo
<1>8. /\ 1 \in 1..Len(fetched) /\ b = fetched[1]
      /\ \A i \in 1..Len(f) : \E j \in 1..Len(fetched) : f[i] = fetched[j]
  BY <1>1, <1>2, LookedUpHead
<1>9. left' \in Nat /\ nodeTip' <= Height(peak')
  BY <1>2 DEF UndoInv
<1>10. ASSUME left' <= MaxReorgDepth
       PROVE  (\E m : DepthInv(m)') /\ (\E m \in Nat : m <= Height(peak') /\ Reaches(disk, m)')
  <2>1. PICK m : DepthInv(m)
    BY <1>2, <1>10 DEF UndoInv
  <2>2. m \in Nat /\ m <= Height(peak) /\ LookupsAgree(m) /\ nodeTip <= Height(peak) /\ Reaches(db, m)
    BY <2>1 DEF DepthInv, UndoInv
  <2>3. PICK M : M = Top(m)
    OBVIOUS
  <2>4. /\ M \in Nat /\ m <= M /\ nodeTip <= M /\ nodeTip \in Nat /\ MaxReorgDepth \in Nat
        /\ M <= Height(peak) /\ Top(M)' = M
    <3>1. M \in Nat /\ m <= M /\ nodeTip <= M /\ nodeTip \in Nat /\ MaxReorgDepth \in Nat /\ (M = m \/ M = nodeTip)
      BY <2>2, <2>3, TopIs
    <3> QED
      BY <1>2, <2>2, <3>1 DEF Top
  <2>5. \A i \in 1..Len(fetched) :
            fetched[i] # None => Height(fetched[i]) <= nodeTip /\ Agrees(fetched[i], M)
    BY <2>2, <2>3 DEF LookupsAgree
  <2>6. Height(b) <= nodeTip /\ Agrees(b, M)
    BY <1>2, <1>8, <2>5
  <2>7. Reaches(x, M)
    <3>1. DOMAIN x.undo = DOMAIN db.undo \cup {Height(b)}
      BY <1>7 DEF Put, Row
    <3>2. ASSUME NEW h \in DOMAIN x.blocks
          PROVE  /\ h <= M - MaxReorgDepth => x.blocks[h].hash = At(peak, h)
                 /\ h >= M - MaxReorgDepth => h \in DOMAIN x.undo
      <4>1. h \in StartHeight..Height(b) /\ h \in Nat /\ x.blocks[h].hash = At(b, h)
        BY <1>4, <1>7, <3>2, RowsAre
      <4>2. h <= M - MaxReorgDepth => x.blocks[h].hash = At(peak, h)
        BY <2>6, <4>1 DEF Agrees
      <4>3. CASE h = Height(b)
        BY <3>1, <4>2, <4>3
      <4>4. CASE h # Height(b)
        <5>1. h \in StartHeight..Height(c)
          BY <1>5, <4>1, <4>4
        <5>2. h \in DOMAIN db.blocks
          BY <1>5, <5>1, RowsAre
        <5>3. h >= M - MaxReorgDepth => h >= m - MaxReorgDepth
          BY <2>2, <2>4, <4>1
        <5> QED
          BY <2>2, <3>1, <4>2, <5>2, <5>3 DEF Reaches
      <4> QED
        BY <4>3, <4>4
    <3> QED
      BY <3>2 DEF Reaches
  <2>8. Reaches(db, M)' /\ Reaches(disk, M)'
    BY <1>2, <1>3, <2>7 DEF Reaches
  <2>9. LookupsAgree(M)'
    <3>1. ASSUME NEW i \in 1..Len(f), f[i] # None
          PROVE  Height(f[i]) <= nodeTip /\ Agrees(f[i], M)
      BY <1>8, <2>5, <3>1
    <3>2. ASSUME NEW y, Agrees(y, M)
          PROVE  \A h \in Nat : h <= Height(y) /\ h <= Top(M)' - MaxReorgDepth => At(y, h) = At(peak', h)
      BY <1>2, <2>4, <3>2 DEF Agrees
    <3> QED
      BY <1>2, <3>1, <3>2 DEF LookupsAgree, Agrees
  <2>10. TipHeight(table)' <= M
    <3>1. TipHeight(TableOf(b)) = Height(b) /\ Height(b) \in Int
      BY <1>4, TableIs, GroundIs
    <3>2. TipHeight(table)' = Height(b)
      BY <1>7, <3>1 DEF TipHeight
    <3> QED
      BY <2>4, <2>6, <3>1, <3>2
  <2>11. DepthInv(M)'
    BY <1>2, <2>4, <2>8, <2>9, <2>10 DEF DepthInv
  <2> QED
    BY <1>2, <2>4, <2>8, <2>11
<1> QED
  BY <1>2, <1>9, <1>10 DEF UndoInv

\* What is pruned is below what undo records must reach.
LEMMA UndoByPruneUndo ==
    ASSUME IndexInv, UndoInv, prune_undo
    PROVE  UndoInv'
<1>1. PICK H, below, d, x : /\ H = TipHeight(table) /\ below = (IF H > MaxReorgDepth THEN H - MaxReorgDepth ELSE 0)
                            /\ d = db /\ x = PruneUndo(d, below)
  OBVIOUS
<1>2. pc = "prune" /\ pc' = "consume" /\ UNCHANGED <<peak, left, table, nodeTip, bulk, fetched>>
  BY DEF prune_undo, nodeVars, passVars
<1>3. disk = db
  BY <1>2 DEF IndexInv, DiskInv
<1>4. db' = x /\ disk' = x
  BY <1>1, <1>3 DEF prune_undo
<1>5. PICK c \in Ground : SyncedTo(c)
  BY DEF IndexInv, Synced
<1>6. IsIndex(d, c) /\ H = Height(c) /\ Height(c) \in Int /\ MaxReorgDepth \in Nat
  BY <1>1, <1>5, FromIs, GroundIs, IndexConstants DEF SyncedTo
<1>7. /\ IsIndex(x, c) /\ x.blocks = d.blocks
      /\ x.undo = Drop(d.undo, {h \in DOMAIN d.undo : h < below})
  BY ONLY <1>1, <1>6, IndexPruned
<1>8. left' \in Nat /\ nodeTip' <= Height(peak')
  BY <1>2 DEF UndoInv
<1>9. ASSUME left' <= MaxReorgDepth
      PROVE  (\E m : DepthInv(m)') /\ (\E m \in Nat : m <= Height(peak') /\ Reaches(disk, m)')
  <2>1. PICK m : DepthInv(m)
    BY <1>2, <1>9 DEF UndoInv
  <2>2. m \in Nat /\ m <= Height(peak) /\ Reaches(d, m) /\ LookupsAgree(m) /\ H <= m
    BY <1>1, <1>2, <2>1 DEF DepthInv
  <2>3. ASSUME NEW h \in DOMAIN x.blocks, h >= m - MaxReorgDepth PROVE h \in DOMAIN x.undo
    <3>1. h \in DOMAIN d.blocks /\ h \in Nat
      BY <1>6, <1>7, <2>3, RowsAre
    <3>2. h \in DOMAIN d.undo
      BY <2>2, <2>3, <3>1 DEF Reaches
    <3>3. ~(h < below)
      BY <1>1, <1>6, <2>2, <2>3, <3>1
    <3> QED
      BY <1>7, <3>2, <3>3 DEF Drop
  <2>4. Reaches(x, m)
    BY <1>7, <2>2, <2>3 DEF Reaches
  <2>5. Reaches(db, m)' /\ Reaches(disk, m)'
    BY <1>2, <1>4, <2>4 DEF Reaches
  <2>6. Top(m)' = Top(m)
    BY <1>2 DEF Top
  <2>7. LookupsAgree(m)'
    BY <1>2, <2>2, <2>6 DEF LookupsAgree, Agrees
  <2>8. DepthInv(m)'
    BY <1>2, <2>2, <2>5, <2>7 DEF DepthInv
  <2> QED
    BY <1>2, <2>2, <2>5, <2>8
<1> QED
  BY <1>2, <1>8, <1>9 DEF UndoInv

\* A store that reaches deep enough is opened.
LEMMA UndoReopened ==
    ASSUME IndexInv, UndoInv, NEW d, Reopen(d),
           left <= MaxReorgDepth => \E n \in Nat : n <= Height(peak) /\ Reaches(d, n)
    PROVE  UndoInv'
<1>1. /\ db' = d /\ disk' = d /\ pc' \in {"idle", "refused"} /\ bulk' = <<>> /\ fetched' = <<>> /\ nodeTip' = 0
      /\ UNCHANGED <<peak, left>>
  BY DEF Reopen, nodeVars
<1>2. Height(peak) \in Nat
  BY NodeIs
<1>3. left' \in Nat /\ nodeTip' <= Height(peak')
  BY <1>1, <1>2 DEF UndoInv
<1>4. ASSUME left' <= MaxReorgDepth
      PROVE  (\E m : DepthInv(m)') /\ (\E m \in Nat : m <= Height(peak') /\ Reaches(disk, m)')
  <2>1. PICK n \in Nat : n <= Height(peak) /\ Reaches(d, n)
    BY <1>1, <1>4
  <2>2. Reaches(db, n)' /\ Reaches(disk, n)'
    BY <1>1, <2>1 DEF Reaches
  <2>3. LookupsAgree(n)'
    BY <1>1 DEF LookupsAgree
  <2>4. DepthInv(n)'
    BY <1>1, <2>1, <2>2, <2>3 DEF DepthInv
  <2> QED
    BY <1>1, <2>1, <2>2, <2>4
<1> QED
  BY <1>1, <1>3, <1>4 DEF UndoInv

\* A crash and a signal keep it.
LEMMA UndoByStops ==
    ASSUME IndexInv, UndoInv, Crash \/ Stop
    PROVE  UndoInv'
<1>1. CASE Crash
  <2>1. PICK d : d = disk
    OBVIOUS
  <2>2. Reopen(d) /\ (left <= MaxReorgDepth => \E n \in Nat : n <= Height(peak) /\ Reaches(d, n))
    BY <1>1, <2>1 DEF Crash, UndoInv
  <2> QED
    BY <2>2, UndoReopened
<1>2. CASE Stop
  <2>1. PICK d : /\ Reopen(d)
                 /\ \/ bulk = <<>> /\ d = db
                    \/ bulk # <<>> /\ bulk[Len(bulk)] \in Ground /\ IsIndex(d, bulk[Len(bulk)])
    BY <1>2, Stopped
  <2>2. ASSUME left <= MaxReorgDepth PROVE \E n \in Nat : n <= Height(peak) /\ Reaches(d, n)
    <3>1. PICK m : DepthInv(m)
      BY <2>2 DEF UndoInv
    <3>2. m \in Nat /\ m <= Height(peak) /\ Reaches(db, m) /\ nodeTip <= Height(peak)
      BY <3>1 DEF DepthInv, UndoInv
    <3>3. CASE d = db
      BY <3>2, <3>3
    <3>4. CASE bulk # <<>> /\ bulk[Len(bulk)] \in Ground /\ IsIndex(d, bulk[Len(bulk)])
      <4>1. PICK b, M : b = bulk[Len(bulk)] /\ M = Top(m)
        OBVIOUS
      <4>2. Height(b) < nodeTip - MaxReorgDepth /\ Agrees(b, M) /\ b \in Ground /\ IsIndex(d, b) /\ Height(b) \in Int
        BY <3>1, <3>4, <4>1, LastOfBulk, GroundIs
      <4>3. M \in Nat /\ nodeTip <= M /\ nodeTip \in Nat /\ MaxReorgDepth \in Nat /\ (M = m \/ M = nodeTip)
        BY <3>2, <4>1, TopIs
      <4>4. Height(b) < M - MaxReorgDepth /\ M <= Height(peak)
        BY <3>2, <4>2, <4>3
      <4>5. Reaches(d, M)
        BY <4>2, <4>3, <4>4, ReachesDeep
      <4> QED
        BY <4>3, <4>4, <4>5
    <3> QED
      BY <2>1, <3>3, <3>4
  <2> QED
    BY <2>1, <2>2, UndoReopened
<1> QED
  BY <1>1, <1>2

\* The node's chain changes, by less than the depth unless left records it.
LEMMA UndoByPeak ==
    ASSUME IndexInv, UndoInv, UNCHANGED <<nodeTip, table, db, disk, fetched, bulk, pc>>,
           left' \in Nat, left <= left', Height(peak') \in Nat, Height(peak) <= Height(peak'),
           left' <= MaxReorgDepth => \A h \in Nat : h <= Height(peak) - MaxReorgDepth => At(peak', h) = At(peak, h)
    PROVE  UndoInv'
<1>1. Height(peak) \in Nat /\ nodeTip \in Nat /\ nodeTip <= Height(peak) /\ left \in Nat /\ MaxReorgDepth \in Nat
  BY NodeIs, Passive, IndexConstants DEF UndoInv
<1>2. left' \in Nat /\ nodeTip' <= Height(peak')
  BY <1>1
<1>3. ASSUME left' <= MaxReorgDepth
      PROVE  (\E m : DepthInv(m)') /\ (\E m \in Nat : m <= Height(peak') /\ Reaches(disk, m)')
             /\ (pc' = "fatal" => nodeTip' < StartHeight)
  <2>0. left <= MaxReorgDepth /\ (pc' = "fatal" => nodeTip' < StartHeight)
    <3>1. left <= MaxReorgDepth
      BY <1>1, <1>3
    <3> QED
      BY <3>1, NotFatal
  <2>1. PICK m : DepthInv(m)
    BY <2>0 DEF UndoInv
  <2>2. PICK n \in Nat : n <= Height(peak) /\ Reaches(disk, n)
    BY <2>0 DEF UndoInv
  <2>3. m \in Nat /\ m <= Height(peak) /\ Reaches(db, m) /\ LookupsAgree(m)
    BY <2>1 DEF DepthInv
  <2>4. PICK D : D = MaxReorgDepth
    OBVIOUS
  <2>5. ASSUME NEW k \in Nat, k <= Height(peak), NEW h \in Nat, h <= k - D PROVE At(peak', h) = At(peak, h)
    <3>1. h <= Height(peak) - MaxReorgDepth
      BY <1>1, <2>4, <2>5
    <3> QED
      BY <1>3, <3>1
  <2>6. ASSUME NEW d, NEW c \in Ground, IsIndex(d, c), NEW k \in Nat, k <= Height(peak), Reaches(d, k)
        PROVE  \A h \in DOMAIN d.blocks :
                   /\ h <= k - MaxReorgDepth => d.blocks[h].hash = At(peak', h)
                   /\ h >= k - MaxReorgDepth => h \in DOMAIN d.undo
    <3>1. \A h \in DOMAIN d.blocks : h \in Nat
      BY <2>6, RowsAre
    <3> QED
      BY <2>4, <2>5, <2>6, <3>1 DEF Reaches
  <2>7. Reaches(db, m)'
    <3>1. PICK c \in Ground : IsIndex(db, c)
      BY DEF IndexInv, Synced, SyncedTo
    <3>2. \A h \in DOMAIN db.blocks :
                   /\ h <= m - MaxReorgDepth => db.blocks[h].hash = At(peak', h)
                   /\ h >= m - MaxReorgDepth => h \in DOMAIN db.undo
      BY <2>3, <2>6, <3>1
    <3> QED
      BY <3>2 DEF Reaches
  <2>8. Reaches(disk, n)'
    <3>1. PICK c \in Ground : IsIndex(disk, c)
      BY DEF IndexInv, DiskInv
    <3>2. \A h \in DOMAIN disk.blocks :
                   /\ h <= n - MaxReorgDepth => disk.blocks[h].hash = At(peak', h)
                   /\ h >= n - MaxReorgDepth => h \in DOMAIN disk.undo
      BY <2>2, <2>6, <3>1
    <3> QED
      BY <3>2 DEF Reaches
  <2>9. LookupsAgree(m)'
    <3>1. Top(m)' = Top(m) /\ Top(m) \in Nat /\ Top(m) <= Height(peak)
      BY <1>1, <2>3 DEF Top
    <3>2. ASSUME NEW b, Agrees(b, Top(m))
          PROVE  \A h \in Nat : h <= Height(b) /\ h <= Top(m)' - MaxReorgDepth => At(b, h) = At(peak', h)
      BY <2>4, <2>5, <3>1, <3>2 DEF Agrees
    <3> QED
      BY <2>3, <3>2 DEF LookupsAgree, Agrees
  <2>10. m <= Height(peak') /\ n <= Height(peak')
    BY <1>1, <2>2, <2>3
  <2>11. DepthInv(m)'
    BY <2>1, <2>3, <2>7, <2>9, <2>10 DEF DepthInv
  <2> QED
    BY <2>0, <2>2, <2>8, <2>10, <2>11
<1> QED
  BY <1>2, <1>3 DEF UndoInv

\* The larger of two.
LEMMA MaxTwo ==
    ASSUME NEW x \in Nat, NEW y \in Nat
    PROVE  Max({x, y}) \in Nat /\ x <= Max({x, y}) /\ y <= Max({x, y})
<1>1. \E m \in {x, y} : \A z \in {x, y} : m >= z
  <2>1. CASE x <= y
    BY <2>1
  <2>2. CASE y <= x
    BY <2>2
  <2> QED
    BY <2>1, <2>2
<1>2. Max({x, y}) \in {x, y} /\ \A z \in {x, y} : Max({x, y}) >= z
  BY <1>1 DEF Max
<1> QED
  BY <1>2

\* Growth and reorganisations keep it.
LEMMA UndoByNode ==
    ASSUME IndexInv, UndoInv, Grow \/ Reorg
    PROVE  UndoInv'
<1>1. UNCHANGED <<nodeTip, table, db, disk, fetched, bulk, pc>>
  BY DEF Grow, Reorg, MoveTo, storeVars, passVars
<1>2. peak \in Blocks /\ Height(peak) \in Nat /\ left \in Nat /\ MaxReorgDepth \in Nat
  BY NodeIs, IndexConstants DEF UndoInv
<1>3. CASE Grow
  <2>1. left' = left /\ (\/ peak' = peak
                         \/ peak' \in Chains /\ Height(peak') = Height(peak) + 1 /\ At(peak', Height(peak)) = peak)
    BY <1>3, Grows
  <2>2. CASE peak' = peak
    BY <1>1, <1>2, <2>1, <2>2, UndoByPeak
  <2>3. CASE peak' \in Chains /\ Height(peak') = Height(peak) + 1 /\ At(peak', Height(peak)) = peak
    <3>1. PICK q : q = peak'
      OBVIOUS
    <3>2. q \in Blocks /\ Height(q) = Height(peak) + 1 /\ At(q, Height(peak)) = peak
      BY <2>3, <3>1, ChainIs
    <3>3. ASSUME NEW h \in Nat, h <= Height(peak) - MaxReorgDepth PROVE At(q, h) = At(peak, h)
      <4>1. h \in Int /\ -1 <= h /\ Height(peak) \in Int /\ h <= Height(peak) /\ Height(peak) <= Height(q)
        BY <1>2, <3>2, <3>3
      <4>2. At(At(q, Height(peak)), h) = At(q, h)
        BY <3>2, <4>1, AtAt
      <4> QED
        BY <3>2, <4>2
    <3>4. Height(peak') \in Nat /\ Height(peak) <= Height(peak') /\ left' \in Nat /\ left <= left'
      BY <1>2, <2>1, <2>3
    <3> QED
      BY <1>1, <3>1, <3>3, <3>4, UndoByPeak
  <2> QED
    BY <2>1, <2>2, <2>3
<1>4. CASE Reorg
  <2>1. PICK k \in 1..Height(peak) : left' = Max({left, k}) /\ At(peak', Height(peak) - k) = At(peak, Height(peak) - k)
    BY <1>4, Reorganises
  <2>2. PICK q, g : q = peak' /\ g = Height(peak) - k
    OBVIOUS
  <2>3. q \in Blocks /\ Height(q) = Height(peak) + 1 /\ At(q, g) = At(peak, g)
    BY <1>4, <2>1, <2>2, Reorganises, ChainIs
  <2>4. k \in Nat /\ g \in Int /\ -1 <= g /\ g <= Height(peak) /\ g <= Height(q)
    BY <1>2, <2>1, <2>2, <2>3
  <2>5. left' \in Nat /\ left <= left' /\ k <= left'
    BY <1>2, <2>1, <2>4, MaxTwo
  <2>6. ASSUME left' <= MaxReorgDepth, NEW h \in Nat, h <= Height(peak) - MaxReorgDepth
        PROVE  At(q, h) = At(peak, h)
    <3>1. h <= g /\ h \in Int /\ -1 <= h
      BY <1>2, <2>2, <2>4, <2>5, <2>6
    <3>2. At(At(q, g), h) = At(q, h)
      BY <2>3, <2>4, <3>1, AtAt
    <3>3. At(At(peak, g), h) = At(peak, h)
      BY <1>2, <2>4, <3>1, AtAt
    <3> QED
      BY <2>3, <3>2, <3>3
  <2>7. Height(peak') \in Nat /\ Height(peak) <= Height(peak')
    BY <1>2, <2>2, <2>3
  <2> QED
    BY <1>1, <2>2, <2>5, <2>6, <2>7, UndoByPeak
<1> QED
  BY <1>3, <1>4

\* Every step keeps it.
LEMMA NextUndoInv == IndexInv /\ UndoInv /\ [Next]_vars => UndoInv'
<1> SUFFICES ASSUME IndexInv, UndoInv, [Next]_vars PROVE UndoInv'
  OBVIOUS
<1>1. CASE UnwindDone \/ UnwindFails \/ NothingToDo \/ fetch_range \/ ConsumeFails \/ publish
  BY <1>1, UndoBySync
<1>2. CASE ReadTip \/ Behind \/ NoUndo \/ UnwindBlock
  BY <1>2, UndoByReadTip, UndoByBehind, UndoByNoUndo, UndoByUnwindBlock
<1>3. CASE hash_stage \/ ConsumeBulk \/ ConsumeLast \/ ConsumeDurable \/ EndOfRange \/ prune_undo
  BY <1>3, UndoByHashStage, UndoByConsumeBulk, UndoByConsumeLast, UndoByConsumeDurable, UndoByEndOfRange, UndoByPruneUndo
<1>4. CASE Crash \/ Stop
  BY <1>4, UndoByStops
<1>5. CASE Grow \/ Reorg \/ Reindex \/ NodeDown
  BY <1>5, UndoByNode, UndoByReindex, UndoByNodeDown
<1>6. CASE Flush \/ ReadTable \/ view \/ confirmed \/ render_put \/ Respond \/ UNCHANGED vars
  BY <1>6, UndoByOthers, UndoByRenderPut
<1> QED
  BY <1>1, <1>2, <1>3, <1>4, <1>5, <1>6 DEF Next, Sync, Node, Request

\* Where the syncer meets a block without an undo record, the node reorganised by more than
\* MAX_REORG_DEPTH at once or was found below the first indexed block: whatever that block,
\* the sizes of the batches, the order of growth, reorganisation, reindex, failure and stop
\* (sync.rs, db.rs).
THEOREM FatalIfDeep == Spec => []FatalOnlyIfDeep
<1>1. Spec => []IndexInv
  BY StoreInvariance
<1>2. Init => UndoInv
  BY InitUndoInv
<1>3. IndexInv /\ UndoInv /\ [Next]_vars => UndoInv'
  BY NextUndoInv
<1>4. UndoInv => FatalOnlyIfDeep
  <2> SUFFICES ASSUME UndoInv, pc = "fatal", ~(nodeTip < StartHeight) PROVE left > MaxReorgDepth
    BY DEF FatalOnlyIfDeep
  <2>1. left \in Nat /\ MaxReorgDepth \in Nat /\ ~(left <= MaxReorgDepth)
    BY IndexConstants DEF UndoInv
  <2> QED
    BY <2>1
<1> QED
  BY <1>1, <1>2, <1>3, <1>4, PTL DEF Spec

-----------------------------------------------------------------------------
(* A node that leaves no block is waited for                               *)

\* Block b is on the highest chain the node has had.
OnPeak(b) == Height(b) \in Nat /\ Height(b) <= Height(peak) /\ b = At(peak, Height(b))

\* The blocks of a store are.
Trails(d) == \A h \in DOMAIN d.blocks : OnPeak(d.blocks[h].hash)

\* A block the range under way has.
Known(b) == \/ \E i \in 1..Len(fetched) : fetched[i] # None /\ b = fetched[i]
            \/ \E i \in 1..Len(bulk) : b = bulk[i]

\* Until the node leaves a block, all that was stored or looked up is on one chain, of
\* which the node has a part: our tip is on it, or above it and waited for, but for a pass
\* that found the node below the first indexed block.
WaitInv ==
    /\ left \in Nat /\ restarts \in Nat
    /\ left = 0 =>
          /\ Trails(db) /\ Trails(disk) /\ \A b : Known(b) => OnPeak(b)
          /\ pc = "unwind" /\ nodeTip >= StartHeight => TipHeight(table) <= nodeTip
          /\ pc = "pub_unwind" => nodeTip < StartHeight

\* It holds at the start.
LEMMA InitWaitInv == Init => WaitInv
<1> SUFFICES ASSUME Init PROVE WaitInv
  OBVIOUS
<1>1. db.blocks = Empty /\ disk.blocks = Empty /\ DOMAIN Empty = {}
  BY DEF Init, NewDb, Empty
<1>2. left = 0 /\ restarts = 0 /\ bulk = <<>> /\ fetched = <<>> /\ pc = "idle"
  BY DEF Init
<1>3. Trails(db) /\ Trails(disk)
  BY <1>1 DEF Trails
<1>4. \A b : ~Known(b)
  BY <1>2 DEF Known
<1> QED
  BY <1>2, <1>3, <1>4 DEF WaitInv

\* The index of a chain that is on the node's highest has only blocks that are.
LEMMA IndexTrails ==
    ASSUME IndexInv, NEW c \in Ground, NEW d, IsIndex(d, c), Height(c) >= StartHeight => OnPeak(c)
    PROVE  Trails(d)
<1>1. /\ DOMAIN d.blocks = StartHeight..Height(c)
      /\ \A h \in DOMAIN d.blocks : h \in Nat /\ d.blocks[h].hash = At(c, h)
  BY RowsAre
<1>2. Height(c) \in Int /\ StartHeight \in Nat /\ c \in Blocks /\ peak \in Blocks /\ Height(peak) \in Nat
  BY GroundIs, NodeIs
<1>3. ASSUME NEW h \in DOMAIN d.blocks PROVE OnPeak(d.blocks[h].hash)
  <2>1. h \in Nat /\ h \in Int /\ -1 <= h /\ h <= Height(c) /\ Height(c) >= StartHeight /\ d.blocks[h].hash = At(c, h)
    BY <1>1, <1>2, <1>3
  <2>2. OnPeak(c)
    BY <2>1
  <2>3. Height(c) <= Height(peak) /\ c = At(peak, Height(c))
    BY <2>2 DEF OnPeak
  <2>4. At(At(peak, Height(c)), h) = At(peak, h) /\ Height(At(c, h)) = h /\ h <= Height(peak)
    BY <1>2, <2>1, <2>3, AtAt, AtIs
  <2> QED
    BY <2>1, <2>3, <2>4 DEF OnPeak
<1> QED
  BY <1>3 DEF Trails

\* A step that writes blocks it knows, and looks up blocks of the node's chain.
LEMMA WaitStep ==
    ASSUME IndexInv, WaitInv, UNCHANGED <<peak, left, restarts>>,
           db'.blocks = db.blocks \/ \E b \in Ground : IsIndex(db', b) /\ Known(b),
           \/ disk'.blocks = disk.blocks \/ disk'.blocks = db.blocks \/ disk'.blocks = db'.blocks,
           \A i \in 1..Len(fetched') : fetched'[i] # None => Known(fetched'[i]) \/ OnPeak(fetched'[i]),
           \A i \in 1..Len(bulk') : Known(bulk'[i]),
           left = 0 => /\ pc' = "pub_unwind" => nodeTip' < StartHeight
                       /\ pc' = "unwind" /\ nodeTip' >= StartHeight => TipHeight(table') <= nodeTip'
    PROVE  WaitInv'
<1>1. ASSUME left = 0
      PROVE  /\ Trails(db)' /\ Trails(disk)' /\ \A b : Known(b)' => OnPeak(b)'
             /\ pc' = "unwind" /\ nodeTip' >= StartHeight => (TipHeight(table) <= nodeTip)'
             /\ pc' = "pub_unwind" => nodeTip' < StartHeight
  <2>1. Trails(db) /\ Trails(disk) /\ \A b : Known(b) => OnPeak(b)
    BY <1>1 DEF WaitInv
  <2>2. ASSUME NEW b PROVE OnPeak(b)' <=> OnPeak(b)
    BY DEF OnPeak
  <2>3. PICK d, e : d = db' /\ e = disk'
    OBVIOUS
  <2>4. Trails(d)
    <3>1. CASE db'.blocks = db.blocks
      BY <2>1, <2>3, <3>1 DEF Trails
    <3>2. CASE \E b \in Ground : IsIndex(db', b) /\ Known(b)
      <4>1. PICK b \in Ground : IsIndex(d, b) /\ OnPeak(b)
        BY <2>1, <2>3, <3>2
      <4> QED
        BY <4>1, IndexTrails
    <3> QED
      BY <3>1, <3>2
  <2>5. Trails(e)
    BY <2>1, <2>3, <2>4 DEF Trails
  <2>6. Trails(db)' /\ Trails(disk)'
    BY <2>3, <2>4, <2>5 DEF Trails, OnPeak
  <2>7. ASSUME NEW b, Known(b)' PROVE OnPeak(b)'
    <3>1. CASE \E i \in 1..Len(fetched') : fetched'[i] # None /\ b = fetched'[i]
      <4>1. Known(b) \/ OnPeak(b)
        BY <3>1
      <4> QED
        BY <2>1, <2>2, <4>1
    <3>2. CASE \E i \in 1..Len(bulk') : b = bulk'[i]
      <4>1. Known(b)
        BY <3>2
      <4> QED
        BY <2>1, <2>2, <4>1
    <3> QED
      BY <2>7, <3>1, <3>2 DEF Known
  <2> QED
    BY <1>1, <2>6, <2>7
<1> QED
  BY <1>1 DEF WaitInv

\* One that writes nothing and looks nothing up.
LEMMA WaitSame ==
    ASSUME IndexInv, WaitInv, UNCHANGED <<peak, left, restarts>>, db'.blocks = db.blocks,
           disk'.blocks = disk.blocks \/ disk'.blocks = db.blocks \/ disk'.blocks = db'.blocks,
           fetched' = fetched \/ fetched' = <<>>, bulk' = bulk \/ bulk' = <<>>,
           left = 0 => /\ pc' = "pub_unwind" => nodeTip' < StartHeight
                       /\ pc' = "unwind" /\ nodeTip' >= StartHeight => TipHeight(table') <= nodeTip'
    PROVE  WaitInv'
<1>1. \A i \in 1..Len(fetched') : fetched'[i] # None => Known(fetched'[i])
  <2>1. CASE fetched' = fetched
    BY <2>1 DEF Known
  <2>2. CASE fetched' = <<>>
    BY <2>2
  <2> QED
    BY <2>1, <2>2
<1>2. \A i \in 1..Len(bulk') : Known(bulk'[i])
  <2>1. CASE bulk' = bulk
    BY <2>1 DEF Known
  <2>2. CASE bulk' = <<>>
    BY <2>2
  <2> QED
    BY <2>1, <2>2
<1> QED
  BY <1>1, <1>2, WaitStep

\* While the node leaves no block, and was not below our first, none has to be undone.
LEMMA NothingToUnwind ==
    ASSUME IndexInv, WaitInv, left = 0, nodeTip >= StartHeight, pc = "unwind", table # Empty
    PROVE  ~MustUnwind(TipHeight(table))
<1>1. PICK c \in Ground : SyncedTo(c)
  BY DEF IndexInv, Synced
<1>2. table = TableOf(c) /\ IsIndex(db, c)
  BY <1>1 DEF SyncedTo
<1>3. PICK H : H = TipHeight(table)
  OBVIOUS
<1>4. /\ H = Height(c) /\ H # StartHeight - 1 /\ H \in Int /\ StartHeight - 1 <= H /\ StartHeight \in Nat
      /\ nodeTip \in Nat
  BY <1>2, <1>3, FromIs, GroundIs, Passive
<1>5. H \in Nat /\ H \in StartHeight..Height(c)
  BY <1>4
<1>6. /\ H \in DOMAIN db.blocks /\ db.blocks = table /\ db.blocks[H].hash = At(c, H)
      /\ c \in Blocks /\ -1 <= H /\ Height(At(c, H)) = H
  <2>1. H \in DOMAIN db.blocks /\ db.blocks = table /\ db.blocks[H].hash = At(c, H) /\ c \in Blocks
    BY <1>2, <1>5, RowsAre, IndexReads, GroundIs
  <2>2. -1 <= H /\ H <= Height(c)
    BY <1>4, <1>5
  <2> QED
    BY <1>4, <2>1, <2>2, AtIs
<1>7. table[H].hash = At(peak, H) /\ H <= nodeTip
  <2>1. OnPeak(table[H].hash) /\ H <= nodeTip
    BY <1>3, <1>6 DEF WaitInv, Trails
  <2> QED
    BY <1>6, <2>1 DEF OnPeak
<1>8. ASSUME Height(node) >= H PROVE OnNode(H)
  <2>1. H <= Height(node)
    BY <1>5, <1>8, NodeIs
  <2>2. On(node, At(peak, H))
    BY <1>5, <2>1, NodeOnPeak
  <2> QED
    BY <1>7, <2>2 DEF OnNode
<1> QED
  BY <1>3, <1>4, <1>7, <1>8 DEF MustUnwind

\* What is written is above what was there, and was looked up: a block, or what bulk holds
\* and maybe one more.
Extended(c) ==
    \/ db' = db
    \/ \E b \in Ground : /\ IsIndex(db', b) /\ Known(b) /\ Height(b) \in Int /\ Height(c) \in Int
                         /\ Height(b) > Height(c) /\ Height(b) >= StartHeight

\* What bulk holds, written.
LEMMA RestExtends ==
    ASSUME IndexInv, bulk # <<>>, WriteBulk(bulk), NEW c \in Ground, SyncedTo(c)
    PROVE  Extended(c)
<1>1. PICK s, x : s = bulk /\ x = Apply(db, s, next_txnum(table), FALSE)
  OBVIOUS
<1>2. s \in Seq(Chains) /\ s # <<>> /\ Linked(c, s)
  BY <1>1 DEF IndexInv, PassInv, SyncedTo
<1>3. PICK b : b = s[Len(s)]
  OBVIOUS
<1>4. WroteTo(x, s, b, db.undo)
  BY <1>1, <1>2, <1>3, WrittenBulk
<1>5. b \in Ground /\ IsIndex(db', b)
  BY <1>1, <1>4 DEF WroteTo, WriteBulk
<1>6. Len(s) \in 1..Len(s) /\ Len(s) \in Nat
  BY <1>2
<1>7. Height(b) = Height(c) + Len(s) /\ Height(c) \in Int /\ StartHeight - 1 <= Height(c) /\ StartHeight \in Nat
  BY <1>2, <1>3, <1>6, GroundIs DEF Linked
<1>8. Known(b)
  BY <1>1, <1>3, <1>6 DEF Known
<1>9. Height(b) \in Int /\ Height(b) > Height(c) /\ Height(b) >= StartHeight
  BY <1>6, <1>7
<1> QED
  BY <1>5, <1>7, <1>8, <1>9 DEF Extended

\* The four steps that consume what was looked up.
LEMMA BlocksWritten ==
    ASSUME IndexInv, ConsumeBulk \/ ConsumeLast \/ ConsumeDurable \/ EndOfRange
    PROVE  /\ UNCHANGED <<peak, left, restarts>> /\ pc' \notin {"unwind", "pub_unwind"}
           /\ \E c \in Ground : SyncedTo(c) /\ Extended(c)
           /\ disk' = disk \/ disk' = db'
           /\ \A i \in 1..Len(fetched') : \E j \in 1..Len(fetched) : fetched'[i] = fetched[j]
           /\ \A i \in 1..Len(bulk') : Known(bulk'[i])
<1>1. PICK c0 \in Ground : SyncedTo(c0)
  BY DEF IndexInv, Synced
<1>2. CASE EndOfRange
  <2>1. pc = "consume" /\ bulk' = <<>> /\ fetched' = <<>> /\ UNCHANGED <<peak, left, restarts>>
    BY <1>2 DEF EndOfRange, nodeVars
  <2>2. CASE bulk = <<>>
    <3>1. pc' = "idle" /\ UNCHANGED <<db, disk>>
      BY <1>2, <2>2 DEF EndOfRange, storeVars
    <3> QED
      BY <1>1, <2>1, <3>1 DEF Extended
  <2>3. CASE bulk # <<>>
    <3>1. WriteBulk(bulk) /\ pc' = "pub_last"
      BY <1>2, <2>3 DEF EndOfRange
    <3>2. Extended(c0) /\ disk' = disk
      BY <1>1, <2>3, <3>1, RestExtends DEF WriteBulk
    <3> QED
      BY <1>1, <2>1, <3>1, <3>2
  <2> QED
    BY <2>2, <2>3
<1>3. CASE ConsumeLast
  <2>1. /\ bulk # <<>> /\ WriteBulk(bulk) /\ bulk' = <<>> /\ fetched' = fetched /\ pc' = "pub_bulk"
        /\ UNCHANGED <<peak, left, restarts>>
    BY <1>3 DEF ConsumeLast, nodeVars
  <2>2. Extended(c0) /\ disk' = disk
    BY <1>1, <2>1, RestExtends DEF WriteBulk
  <2> QED
    BY <1>1, <2>1, <2>2
<1>4. CASE ConsumeDurable
  <2>1. PICK b, f, s, x :
            /\ b = Head(fetched) /\ f = Tail(fetched) /\ s = <<b>>
            /\ x = Apply(db, s, next_txnum(table), TRUE)
    OBVIOUS
  <2>2. /\ pc = "consume" /\ fetched # <<>> /\ b # None /\ Follows(b) /\ bulk = <<>> /\ fetched' = f
        /\ UNCHANGED <<peak, left, restarts, bulk>> /\ pc' = "pub_block"
    BY <1>4, <2>1 DEF ConsumeDurable, nodeVars
  <2>3. db' = x /\ disk' = x
    BY <1>4, <2>1, DurableBase DEF ConsumeDurable
  <2>4. PICK c \in Ground :
                 /\ SyncedTo(c) /\ b \in Ground /\ b \in Chains /\ Height(b) = Height(c) + Len(bulk) + 1
                 /\ Height(b) >= StartHeight /\ Front(b) = TipAfter(c, bulk, Len(bulk))
    BY <2>1, <2>2, NextBlock
  <2>5. Front(b) = c /\ Height(b) = Height(c) + 1 /\ Height(c) \in Int
    BY <2>2, <2>4, LinkedNone, GroundIs
  <2>6. Linked(c, s) /\ Len(s) = 1 /\ s[1] = b /\ s \in Seq(Chains)
    BY <2>1, <2>4, <2>5, LinkedOne
  <2>7. IsIndex(x, b)
    <3>1. WroteTo(x, s, b, Put(db.undo, Row(Height(b), UndoOf(b))))
      BY <2>1, <2>4, <2>6, WrittenDurable
    <3> QED
      BY <3>1 DEF WroteTo
  <2>8. /\ 1 \in 1..Len(fetched) /\ b = fetched[1]
        /\ \A i \in 1..Len(f) : \E j \in 1..Len(fetched) : f[i] = fetched[j]
    BY <2>1, <2>2, LookedUpHead
  <2>9. Known(b)
    BY <2>2, <2>8 DEF Known
  <2>10. Height(b) \in Int /\ Height(b) > Height(c)
    BY <2>5
  <2>11. Extended(c)
    BY <2>3, <2>4, <2>5, <2>7, <2>9, <2>10 DEF Extended
  <2>12. \A i \in 1..Len(bulk') : Known(bulk'[i])
    BY <2>2
  <2> QED
    BY <2>2, <2>3, <2>4, <2>8, <2>11, <2>12
<1>5. CASE ConsumeBulk
  <2>1. PICK b, f, s : b = Head(fetched) /\ f = Tail(fetched) /\ s = Append(bulk, b)
    OBVIOUS
  <2>2. /\ pc = "consume" /\ fetched # <<>> /\ b # None /\ Follows(b) /\ fetched' = f
        /\ UNCHANGED <<peak, left, restarts>>
    BY <1>5, <2>1 DEF ConsumeBulk, nodeVars
  <2>3. PICK c \in Ground :
                 /\ SyncedTo(c) /\ b \in Ground /\ b \in Chains /\ Height(b) = Height(c) + Len(bulk) + 1
                 /\ Height(b) >= StartHeight /\ Front(b) = TipAfter(c, bulk, Len(bulk))
    BY <2>1, <2>2, NextBlock
  <2>4. bulk \in Seq(Chains) /\ Len(bulk) \in Nat /\ Linked(c, bulk)
    BY <2>3 DEF IndexInv, PassInv, SyncedTo
  <2>5. /\ 1 \in 1..Len(fetched) /\ b = fetched[1]
        /\ \A i \in 1..Len(f) : \E j \in 1..Len(fetched) : f[i] = fetched[j]
    BY <2>1, <2>2, LookedUpHead
  <2>6. Known(b)
    BY <2>2, <2>5 DEF Known
  <2>7. CASE ~BatchFull
    <3>1. bulk' = s /\ UNCHANGED <<db, disk, pc>>
      BY <1>5, <2>1, <2>7 DEF ConsumeBulk, storeVars
    <3>2. ASSUME NEW i \in 1..Len(s) PROVE Known(s[i])
      <4>1. CASE i \in 1..Len(bulk)
        <5>1. s[i] = bulk[i]
          BY <2>1, <2>3, <2>4, <4>1
        <5> QED
          BY <4>1, <5>1 DEF Known
      <4>2. CASE i = Len(bulk) + 1
        <5>1. s[i] = b
          BY <2>1, <2>3, <2>4, <4>2
        <5> QED
          BY <2>6, <5>1
      <4>3. Len(s) = Len(bulk) + 1
        BY <2>1, <2>3, <2>4
      <4> QED
        BY <2>4, <3>2, <4>1, <4>2, <4>3
    <3>3. Extended(c)
      BY <3>1 DEF Extended
    <3> QED
      BY <2>2, <2>3, <2>5, <3>1, <3>2, <3>3
  <2>8. CASE BatchFull
    <3>1. WriteBulk(s) /\ bulk' = <<>> /\ pc' = "pub_bulk"
      BY <1>5, <2>1, <2>8 DEF ConsumeBulk
    <3>2. PICK x : x = Apply(db, s, next_txnum(table), FALSE)
      OBVIOUS
    <3>3. db' = x /\ disk' = disk
      BY <3>1, <3>2 DEF WriteBulk
    <3>4. Linked(c, s) /\ Len(s) = Len(bulk) + 1 /\ s \in Seq(Chains) /\ s[Len(s)] = b
      BY <2>1, <2>3, <2>4, LinkedMore
    <3>5. s # <<>>
      BY <2>4, <3>4
    <3>6. WroteTo(x, s, b, db.undo)
      BY <2>3, <3>2, <3>4, <3>5, WrittenBulk
    <3>7. IsIndex(db', b)
      BY <3>3, <3>6 DEF WroteTo
    <3>8. Height(c) \in Int /\ Height(b) \in Int /\ Height(b) > Height(c)
      BY <2>3, <2>4, GroundIs
    <3>9. Extended(c)
      BY <2>3, <2>6, <3>7, <3>8 DEF Extended
    <3>10. \A i \in 1..Len(bulk') : Known(bulk'[i])
      BY <3>1
    <3> QED
      BY <2>2, <2>3, <2>5, <3>1, <3>3, <3>9, <3>10
  <2> QED
    BY <2>7, <2>8
<1> QED
  BY <1>2, <1>3, <1>4, <1>5

\* Consuming keeps it: only blocks that were looked up are written.
LEMMA WaitByConsume ==
    ASSUME IndexInv, WaitInv, ConsumeBulk \/ ConsumeLast \/ ConsumeDurable \/ EndOfRange
    PROVE  WaitInv'
<1>1. /\ UNCHANGED <<peak, left, restarts>> /\ pc' \notin {"unwind", "pub_unwind"}
      /\ \E c \in Ground : SyncedTo(c) /\ Extended(c)
      /\ disk' = disk \/ disk' = db'
      /\ \A i \in 1..Len(fetched') : \E j \in 1..Len(fetched) : fetched'[i] = fetched[j]
      /\ \A i \in 1..Len(bulk') : Known(bulk'[i])
  BY BlocksWritten
<1>2. db'.blocks = db.blocks \/ \E b \in Ground : IsIndex(db', b) /\ Known(b)
  BY <1>1 DEF Extended
<1>3. \A i \in 1..Len(fetched') : fetched'[i] # None => Known(fetched'[i])
  BY <1>1 DEF Known
<1>4. disk'.blocks = disk.blocks \/ disk'.blocks = db'.blocks
  BY <1>1
<1> QED
  BY <1>1, <1>2, <1>3, <1>4, WaitStep

\* hash_stage keeps it: what it finds is of the node's chain.
LEMMA WaitByHashStage ==
    ASSUME IndexInv, WaitInv, hash_stage
    PROVE  WaitInv'
<1>1. /\ pc = "consume" /\ UNCHANGED <<pc, peak, left, nodeTip, table, db, disk, bulk, restarts>>
      /\ \A i \in 1..Len(fetched') : fetched'[i] # None =>
             \/ \E j \in 1..Len(fetched) : fetched'[i] = fetched[j]
             \/ /\ fetched'[i] \in Chains
                /\ Height(fetched'[i]) \in Nat /\ Height(fetched'[i]) <= Height(peak)
                /\ \A h \in Nat : h <= Height(fetched'[i]) => At(fetched'[i], h) = At(peak, h)
  BY HashesFound
<1>2. ASSUME NEW i \in 1..Len(fetched'), fetched'[i] # None
      PROVE  Known(fetched'[i]) \/ OnPeak(fetched'[i])
  <2>1. CASE \E j \in 1..Len(fetched) : fetched'[i] = fetched[j]
    BY <1>2, <2>1 DEF Known
  <2>2. CASE /\ fetched'[i] \in Chains
             /\ Height(fetched'[i]) \in Nat /\ Height(fetched'[i]) <= Height(peak)
             /\ \A h \in Nat : h <= Height(fetched'[i]) => At(fetched'[i], h) = At(peak, h)
    <3>1. PICK b : b = fetched'[i]
      OBVIOUS
    <3>2. b \in Blocks /\ Height(b) \in Nat /\ Height(b) <= Height(peak) /\ At(b, Height(b)) = At(peak, Height(b))
      BY <2>2, <3>1, ChainIs
    <3>3. At(b, Height(b)) = b
      BY <3>2 DEF At, Height, Blocks
    <3> QED
      BY <3>1, <3>2, <3>3 DEF OnPeak
  <2> QED
    BY <1>1, <1>2, <2>1, <2>2
<1>3. \A i \in 1..Len(bulk') : Known(bulk'[i])
  BY <1>1 DEF Known
<1> QED
  BY <1>1, <1>2, <1>3, WaitStep

\* Behind keeps it: a node below our tip is on our chain, or below our first block.
LEMMA WaitByBehind ==
    ASSUME IndexInv, WaitInv, Behind
    PROVE  WaitInv'
<1>1. pc = "behind" /\ UNCHANGED <<peak, left, db, disk, restarts>>
  BY DEF Behind, nodeVars, storeVars
<1>2. CASE Retry
  <2>1. pc' = "idle" /\ fetched' = <<>> /\ bulk' = <<>>
    BY <1>2 DEF Retry
  <2> QED
    BY <1>1, <2>1, WaitSame
<1>3. CASE /\ pc' = "unwind" /\ UNCHANGED passVars
           /\ ~(/\ table # Empty /\ TipHeight(table) > nodeTip /\ nodeTip \in DOMAIN table
                /\ (~(Height(node) >= nodeTip) \/ At(node, nodeTip) = table[nodeTip].hash))
  <2>1. UNCHANGED <<table, nodeTip, bulk, fetched>>
    BY <1>3 DEF passVars
  <2>2. ASSUME left = 0, nodeTip >= StartHeight, ~(TipHeight(table) <= nodeTip) PROVE FALSE
    <3>1. PICK c \in Ground : SyncedTo(c)
      BY DEF IndexInv, Synced
    <3>2. table = TableOf(c) /\ IsIndex(db, c)
      BY <3>1 DEF SyncedTo
    <3>3. /\ TipHeight(table) = Height(c) /\ (table = Empty <=> Height(c) = StartHeight - 1)
          /\ Height(c) \in Int /\ nodeTip \in Nat /\ Height(node) \in Nat /\ c \in Blocks /\ StartHeight \in Nat
      BY <3>2, FromIs, GroundIs, Passive
    <3>4. db.blocks = table /\ DOMAIN table = StartHeight..Height(c)
      BY <3>2, IndexReads, TableIs
    <3>5. TipHeight(table) > nodeTip /\ nodeTip \in DOMAIN table /\ table # Empty
      BY <2>2, <3>3, <3>4
    <3>6. Height(node) >= nodeTip /\ At(node, nodeTip) # table[nodeTip].hash
      BY <1>3, <3>5
    <3>7. table[nodeTip].hash = At(c, nodeTip) /\ Height(At(c, nodeTip)) = nodeTip
      <4>1. -1 <= nodeTip /\ nodeTip <= Height(c) /\ nodeTip \in Int
        BY <3>3, <3>5
      <4>2. \A h \in DOMAIN db.blocks : db.blocks[h].hash = At(c, h)
        BY <3>2, RowsAre
      <4>3. Height(At(c, nodeTip)) = nodeTip
        BY <3>3, <4>1, AtIs
      <4> QED
        BY <3>4, <3>5, <4>2, <4>3
    <3>8. OnPeak(table[nodeTip].hash)
      BY <2>2, <3>4, <3>5 DEF WaitInv, Trails
    <3>9. table[nodeTip].hash = At(peak, nodeTip)
      BY <3>7, <3>8 DEF OnPeak
    <3>10. At(node, nodeTip) = At(peak, nodeTip)
      BY <3>3, <3>6, NodeOnPeak
    <3> QED
      BY <3>6, <3>9, <3>10
  <2>3. left = 0 => (nodeTip' >= StartHeight => TipHeight(table') <= nodeTip')
    BY <2>1, <2>2
  <2> QED
    BY <1>1, <1>3, <2>1, <2>3, WaitSame
<1> QED
  BY <1>2, <1>3 DEF Behind

\* The rows left when a block is undone were there before.
LEMMA RowsLeft ==
    ASSUME IndexInv, UnwindBlock
    PROVE  /\ disk' = db'
           /\ \A h \in DOMAIN db'.blocks : h \in DOMAIN db.blocks /\ db'.blocks[h].hash = db.blocks[h].hash
<1>1. PICK b \in Ground : /\ Height(b) >= StartHeight /\ SyncedTo(b) /\ disk' = db'
                          /\ Front(b) \in Ground /\ IsIndex(db', Front(b))
  BY Unwound
<1>2. PICK c, d : c = Front(b) /\ d = db'
  OBVIOUS
<1>3. /\ c \in Ground /\ IsIndex(d, c) /\ IsIndex(db, b) /\ Height(c) = Height(b) - 1
      /\ Height(b) \in Int /\ StartHeight \in Nat /\ b \in Blocks /\ b # <<>>
  BY <1>1, <1>2, GroundIs DEF SyncedTo
<1>4. ASSUME NEW h \in DOMAIN d.blocks PROVE h \in DOMAIN db.blocks /\ d.blocks[h].hash = db.blocks[h].hash
  <2>1. h \in Nat /\ h \in StartHeight..Height(c) /\ d.blocks[h].hash = At(c, h)
    BY <1>3, <1>4, RowsAre
  <2>2. h \in StartHeight..Height(b) /\ h < Height(b) /\ -1 <= h /\ h \in Int
    BY <1>3, <2>1
  <2>3. h \in DOMAIN db.blocks /\ db.blocks[h].hash = At(b, h)
    BY <1>3, <2>2, RowsAre
  <2>4. At(b, h) = At(c, h)
    BY <1>2, <1>3, <2>2, FrontIs
  <2> QED
    BY <2>1, <2>3, <2>4
<1> QED
  BY <1>1, <1>2, <1>4

\* Undoing a block says that the node left one, or was found below our first.
LEMMA WaitByUnwind ==
    ASSUME IndexInv, WaitInv, UnwindBlock \/ NoUndo
    PROVE  WaitInv'
<1>1. /\ pc = "unwind" /\ table # Empty /\ MustUnwind(TipHeight(table))
      /\ UNCHANGED <<peak, left, restarts, nodeTip, bulk, fetched>>
  BY DEF UnwindBlock, NoUndo, nodeVars, passVars
<1>2. ASSUME left = 0 PROVE nodeTip < StartHeight
  <2>1. nodeTip \in Nat /\ StartHeight \in Nat
    BY Passive, IndexConstants
  <2>2. ~(nodeTip >= StartHeight)
    BY <1>1, <1>2, NothingToUnwind
  <2> QED
    BY <2>1, <2>2
<1>3. CASE NoUndo
  <2>1. pc' = "fatal" /\ UNCHANGED <<db, disk>>
    BY <1>3 DEF NoUndo, storeVars
  <2> QED
    BY <1>1, <2>1, WaitSame
<1>4. CASE UnwindBlock
  <2>1. pc' = "pub_unwind"
    BY <1>4 DEF UnwindBlock
  <2>2. PICK x, y : x = db' /\ y = disk'
    OBVIOUS
  <2>3. /\ y = x
        /\ \A h \in DOMAIN x.blocks : h \in DOMAIN db.blocks /\ x.blocks[h].hash = db.blocks[h].hash
    BY <1>4, <2>2, RowsLeft
  <2>4. left = 0 => Trails(x) /\ Trails(y)
    BY <2>3 DEF WaitInv, Trails
  <2>5. left = 0 => Trails(db)' /\ Trails(disk)'
    BY <1>1, <2>2, <2>4 DEF Trails, OnPeak
  <2>6. left = 0 => \A b : Known(b)' => OnPeak(b)'
    BY <1>1 DEF WaitInv, Known, OnPeak
  <2> QED
    BY <1>1, <1>2, <2>1, <2>5, <2>6 DEF WaitInv
<1> QED
  BY <1>3, <1>4

\* ReadTip keeps it.
LEMMA WaitByReadTip ==
    ASSUME IndexInv, WaitInv, ReadTip
    PROVE  WaitInv'
<1>1. pc' = "behind" /\ UNCHANGED <<peak, left, db, disk, fetched, bulk, restarts>>
  BY DEF ReadTip, nodeVars, storeVars
<1> QED
  BY <1>1, WaitSame

\* Pruning leaves the blocks.
LEMMA PrunedBlocks ==
    ASSUME NEW c, NEW d, IsIndex(d, c), NEW below, NEW x, x = PruneUndo(d, below)
    PROVE  IsIndex(x, c) /\ x.blocks = d.blocks
<1>1. /\ IsIndex(x, c) /\ x.blocks = d.blocks
      /\ x.undo = Drop(d.undo, {h \in DOMAIN d.undo : h < below})
  BY IndexPruned
<1> QED
  BY <1>1

\* Steps of the thread that write no block keep it.
LEMMA WaitBySync ==
    ASSUME IndexInv, WaitInv,
           UnwindDone \/ UnwindFails \/ NothingToDo \/ fetch_range \/ ConsumeFails \/ publish \/ prune_undo
    PROVE  WaitInv'
<1>1. CASE UnwindDone
  <2>1. UNCHANGED <<peak, left, restarts, db, disk, fetched, bulk>> /\ pc' = "fetch"
    BY <1>1 DEF UnwindDone, nodeVars, storeVars, passVars
  <2> QED
    BY <2>1, WaitSame
<1>2. CASE UnwindFails \/ ConsumeFails
  <2>1. UNCHANGED <<peak, left, restarts, db, disk>> /\ pc' = "idle" /\ fetched' = <<>> /\ bulk' = <<>>
    BY <1>2 DEF UnwindFails, ConsumeFails, Retry, nodeVars, storeVars
  <2> QED
    BY <2>1, WaitSame
<1>3. CASE NothingToDo
  <2>1. UNCHANGED <<peak, left, restarts, db, fetched, bulk>> /\ pc' = "idle" /\ (disk' = disk \/ disk' = db)
    BY <1>3 DEF NothingToDo, nodeVars
  <2> QED
    BY <2>1, WaitSame
<1>4. CASE fetch_range
  <2>1. UNCHANGED <<peak, left, restarts, db, disk>> /\ pc' = "consume" /\ fetched' = <<>> /\ bulk' = <<>>
    BY <1>4 DEF fetch_range, nodeVars, storeVars
  <2> QED
    BY <2>1, WaitSame
<1>5. CASE publish
  <2>1. UNCHANGED <<peak, left, restarts, db, disk, fetched, bulk>>
    BY <1>5 DEF publish, nodeVars, storeVars, passVars
  <2>2. pc \in {"pub_unwind", "pub_bulk", "pub_block", "pub_last"} /\ pc' = AfterPublish[pc]
    BY <1>5, PubPcs DEF publish
  <2>3. /\ pc = "pub_unwind" => pc' = "unwind"
        /\ pc = "pub_bulk" => pc' = "consume"
        /\ pc = "pub_block" => pc' = "prune"
        /\ pc = "pub_last" => pc' = "idle"
    BY <2>2 DEF AfterPublish
  <2>4. left = 0 => (pc = "pub_unwind" => nodeTip < StartHeight)
    BY DEF WaitInv
  <2>5. nodeTip' = nodeTip /\ nodeTip \in Nat /\ StartHeight \in Nat
    BY <1>5, Passive, IndexConstants DEF publish, passVars
  <2>6. left = 0 => (pc' = "unwind" => ~(nodeTip' >= StartHeight)) /\ pc' # "pub_unwind"
    BY <2>2, <2>3, <2>4, <2>5
  <2> QED
    BY <2>1, <2>6, WaitSame
<1>6. CASE prune_undo
  <2>1. PICK below, d, e : /\ d = db /\ e = disk
                           /\ below = (IF TipHeight(table) > MaxReorgDepth THEN TipHeight(table) - MaxReorgDepth ELSE 0)
    OBVIOUS
  <2>2. pc' = "consume" /\ UNCHANGED <<peak, left, restarts, bulk, fetched>>
        /\ db' = PruneUndo(d, below) /\ disk' = PruneUndo(e, below)
    BY <1>6, <2>1 DEF prune_undo, nodeVars, passVars
  <2>3. PICK c : IsIndex(d, c)
    BY <2>1 DEF IndexInv, Synced, SyncedTo
  <2>4. PICK a : IsIndex(e, a)
    BY <2>1 DEF IndexInv, DiskInv
  <2>5. PICK x, y : x = PruneUndo(d, below) /\ y = PruneUndo(e, below)
    OBVIOUS
  <2>6. x.blocks = d.blocks
    BY ONLY <2>3, <2>5, PrunedBlocks
  <2>7. y.blocks = e.blocks
    BY ONLY <2>4, <2>5, PrunedBlocks
  <2>8. db'.blocks = db.blocks /\ disk'.blocks = disk.blocks
    BY <2>1, <2>2, <2>5, <2>6, <2>7
  <2> QED
    BY <2>2, <2>8, WaitSame
<1> QED
  BY <1>1, <1>2, <1>3, <1>4, <1>5, <1>6

\* A flush, the reader, a reindex and a call that fails keep it.
LEMMA WaitByOthers ==
    ASSUME IndexInv, WaitInv,
           Flush \/ ReadTable \/ view \/ confirmed \/ render_put \/ Respond \/ Reindex \/ NodeDown \/ UNCHANGED vars
    PROVE  WaitInv'
<1>1. left = 0 => /\ pc = "pub_unwind" => nodeTip < StartHeight
                  /\ pc = "unwind" /\ nodeTip >= StartHeight => TipHeight(table) <= nodeTip
  BY DEF WaitInv
<1>2. CASE Flush \/ ReadTable \/ view \/ confirmed \/ Respond \/ Reindex \/ UNCHANGED vars
  <2>1. /\ UNCHANGED <<peak, left, restarts, nodeTip, table, db, fetched, bulk, pc>>
        /\ disk' = disk \/ disk' = db
    <3>1. CASE Flush
      BY <3>1 DEF Flush, nodeVars, passVars
    <3>2. CASE ReadTable \/ view \/ confirmed \/ Respond
      BY <3>2 DEF ReadTable, view, confirmed, Respond, nodeVars, storeVars, passVars
    <3>3. CASE UNCHANGED vars
      BY <3>3 DEF vars, nodeVars, storeVars, passVars
    <3>4. CASE Reindex
      BY <3>4 DEF Reindex, MoveTo, storeVars, passVars
    <3> QED
      BY <1>2, <3>1, <3>2, <3>3, <3>4
  <2> QED
    BY <1>1, <2>1, WaitSame
<1>3. CASE render_put
  <2>1. UNCHANGED <<peak, left, restarts, nodeTip, table, fetched, bulk, pc>>
    BY <1>3 DEF render_put, nodeVars, passVars
  <2>2. db'.blocks = db.blocks /\ disk'.blocks = disk.blocks
    BY <1>3, Cached
  <2> QED
    BY <1>1, <2>1, <2>2, WaitSame
<1>4. CASE NodeDown
  <2>1. UNCHANGED <<peak, left, restarts, db, disk>>
    BY <1>4 DEF NodeDown, storeVars
  <2>2. CASE pc \in {"behind", "unwind"} /\ Retry
    <3>1. pc' = "idle" /\ fetched' = <<>> /\ bulk' = <<>>
      BY <2>2 DEF Retry
    <3> QED
      BY <2>1, <3>1, WaitSame
  <2>3. CASE /\ pc = "consume" /\ look <= nodeTip
             /\ fetched' = Append(fetched, None) /\ look' = nodeTip + 1
             /\ UNCHANGED <<table, nodeTip, bulk, follow, pc>>
    <3>1. fetched \in Seq(Chains \cup {None})
      BY DEF IndexInv, PassInv
    <3>2. \A i \in 1..Len(fetched') : fetched'[i] # None => \E j \in 1..Len(fetched) : fetched'[i] = fetched[j]
      BY <2>3, <3>1
    <3>3. \A i \in 1..Len(fetched') : fetched'[i] # None => Known(fetched'[i])
      BY <3>2 DEF Known
    <3>4. \A i \in 1..Len(bulk') : Known(bulk'[i])
      BY <2>3 DEF Known
    <3> QED
      BY <2>1, <2>3, <3>3, <3>4, WaitStep
  <2> QED
    BY <1>4, <2>2, <2>3 DEF NodeDown
<1> QED
  BY <1>2, <1>3, <1>4

\* A stop keeps it: what is on disk trails, and what bulk holds is on the node's chain.
LEMMA WaitByStops ==
    ASSUME IndexInv, WaitInv, Crash \/ Stop
    PROVE  WaitInv'
<1>1. PICK d : Reopen(d) /\ (left = 0 => Trails(d))
  <2>1. CASE Crash
    BY <2>1 DEF Crash, WaitInv
  <2>2. CASE Stop
    <3>1. PICK d : /\ Reopen(d)
                   /\ \/ bulk = <<>> /\ d = db
                      \/ bulk # <<>> /\ bulk[Len(bulk)] \in Ground /\ IsIndex(d, bulk[Len(bulk)])
      BY <2>2, Stopped
    <3>2. ASSUME left = 0, bulk # <<>>, bulk[Len(bulk)] \in Ground, IsIndex(d, bulk[Len(bulk)]) PROVE Trails(d)
      <4>1. PICK b : b = bulk[Len(bulk)]
        OBVIOUS
      <4>2. bulk \in Seq(Chains)
        BY DEF IndexInv, PassInv
      <4>3. Len(bulk) \in 1..Len(bulk)
        BY <3>2, <4>2
      <4>4. Known(b)
        BY <4>1, <4>3 DEF Known
      <4>5. OnPeak(b)
        BY <3>2, <4>4 DEF WaitInv
      <4> QED
        BY <3>2, <4>1, <4>5, IndexTrails
    <3>3. left = 0 => Trails(db)
      BY DEF WaitInv
    <3> QED
      BY <3>1, <3>2, <3>3
  <2> QED
    BY <2>1, <2>2
<1>2. /\ db' = d /\ disk' = d /\ pc' \in {"idle", "refused"} /\ bulk' = <<>> /\ fetched' = <<>>
      /\ UNCHANGED <<peak, left>> /\ restarts' = restarts + 1
  BY <1>1 DEF Reopen, nodeVars
<1>3. left = 0 => Trails(db)' /\ Trails(disk)'
  BY <1>1, <1>2 DEF Trails, OnPeak
<1>4. \A b : ~Known(b)'
  BY <1>2 DEF Known
<1> QED
  BY <1>2, <1>3, <1>4 DEF WaitInv

\* The node grows on its highest chain, or leaves a block and nothing is claimed.
LEMMA WaitByNode ==
    ASSUME IndexInv, WaitInv, Grow \/ Reorg
    PROVE  WaitInv'
<1>1. UNCHANGED <<nodeTip, table, db, disk, fetched, bulk, pc, restarts>>
  BY DEF Grow, Reorg, MoveTo, storeVars, passVars
<1>2. peak \in Blocks /\ Height(peak) \in Nat /\ left \in Nat
  BY NodeIs DEF WaitInv
<1>3. CASE Grow
  <2>1. left' = left /\ (\/ peak' = peak
                         \/ peak' \in Chains /\ Height(peak') = Height(peak) + 1 /\ At(peak', Height(peak)) = peak)
    BY <1>3, Grows
  <2>2. CASE peak' = peak
    BY <1>1, <2>1, <2>2, WaitSame DEF WaitInv
  <2>3. CASE peak' \in Chains /\ Height(peak') = Height(peak) + 1 /\ At(peak', Height(peak)) = peak
    <3>1. PICK q : q = peak'
      OBVIOUS
    <3>2. q \in Blocks /\ Height(q) = Height(peak) + 1 /\ At(q, Height(peak)) = peak
      BY <2>3, <3>1, ChainIs
    <3>3. ASSUME NEW b, OnPeak(b) PROVE OnPeak(b)'
      <4>1. PICK h : h = Height(b)
        OBVIOUS
      <4>2. h \in Nat /\ h <= Height(peak) /\ b = At(peak, h)
        BY <3>3, <4>1 DEF OnPeak
      <4>3. h \in Int /\ -1 <= h /\ Height(peak) \in Int /\ Height(peak) <= Height(q) /\ h <= Height(q)
        BY <1>2, <3>2, <4>2
      <4>4. At(At(q, Height(peak)), h) = At(q, h)
        BY <3>2, <4>2, <4>3, AtAt
      <4>5. h <= Height(peak') /\ b = At(peak', h)
        BY <3>1, <3>2, <4>2, <4>3, <4>4
      <4> QED
        BY <4>1, <4>2, <4>5 DEF OnPeak
    <3>4. left = 0 => Trails(db)' /\ Trails(disk)' /\ \A b : Known(b)' => OnPeak(b)'
      <4>1. \A b : Known(b)' <=> Known(b)
        BY <1>1 DEF Known
      <4>2. left = 0 => Trails(db) /\ Trails(disk) /\ \A b : Known(b) => OnPeak(b)
        BY DEF WaitInv
      <4>3. ASSUME NEW d, Trails(d) PROVE \A h \in DOMAIN d.blocks : OnPeak(d.blocks[h].hash)'
        <5>1. ASSUME NEW h \in DOMAIN d.blocks PROVE OnPeak(d.blocks[h].hash)'
          <6>1. PICK b : b = d.blocks[h].hash
            OBVIOUS
          <6>2. OnPeak(b)
            BY <4>3, <5>1, <6>1 DEF Trails
          <6>3. OnPeak(b)'
            BY <3>3, <6>2
          <6> QED
            BY <6>1, <6>3
        <5> QED
          BY <5>1
      <4>4. PICK d, e : d = db /\ e = disk
        OBVIOUS
      <4>5. left = 0 => Trails(db)' /\ Trails(disk)'
        BY <1>1, <4>2, <4>3, <4>4 DEF Trails
      <4> QED
        BY <3>3, <4>1, <4>2, <4>5
    <3> QED
      BY <1>1, <2>1, <3>4 DEF WaitInv
  <2> QED
    BY <2>1, <2>2, <2>3
<1>4. CASE Reorg
  <2>1. PICK k \in 1..Height(peak) : left' = Max({left, k})
    BY <1>4, Reorganises
  <2>2. left' \in Nat /\ k <= left' /\ k \in Nat /\ 1 <= k
    BY <1>2, <2>1, MaxTwo
  <2>3. left' # 0 /\ restarts' \in Nat
    BY <1>1, <2>2 DEF WaitInv
  <2> QED
    BY <2>2, <2>3 DEF WaitInv
<1> QED
  BY <1>3, <1>4

\* Every step keeps it.
LEMMA NextWaitInv == IndexInv /\ WaitInv /\ [Next]_vars => WaitInv'
<1> SUFFICES ASSUME IndexInv, WaitInv, [Next]_vars PROVE WaitInv'
  OBVIOUS
<1>1. CASE UnwindDone \/ UnwindFails \/ NothingToDo \/ fetch_range \/ ConsumeFails \/ publish \/ prune_undo
  BY <1>1, WaitBySync
<1>2. CASE ReadTip \/ Behind \/ NoUndo \/ UnwindBlock \/ hash_stage
  BY <1>2, WaitByReadTip, WaitByBehind, WaitByUnwind, WaitByHashStage
<1>3. CASE ConsumeBulk \/ ConsumeLast \/ ConsumeDurable \/ EndOfRange
  BY <1>3, WaitByConsume
<1>4. CASE Crash \/ Stop \/ Grow \/ Reorg
  BY <1>4, WaitByStops, WaitByNode
<1>5. CASE Flush \/ ReadTable \/ view \/ confirmed \/ render_put \/ Respond \/ Reindex \/ NodeDown \/ UNCHANGED vars
  BY <1>5, WaitByOthers
<1> QED
  BY <1>1, <1>2, <1>3, <1>4, <1>5 DEF Next, Sync, Node, Request

\* A step that leaves the index of the same chain leaves its tip.
LEMMA SameTip ==
    ASSUME NEW c, IsIndex(db, c), IsIndex(db', c)
    PROVE  db'.tip = db.tip
<1>1. PICK d : d = db'
  OBVIOUS
<1> QED
  BY <1>1, IndexReads

\* No step of the thread takes a block away until the node left one.
LEMMA TipStays ==
    ASSUME IndexInv, WaitInv, [Next]_vars, left = 0, nodeTip >= StartHeight, restarts' = restarts, db.tip # None
    PROVE  db'.tip # None /\ Len(db'.tip) >= Len(db.tip)
<1>1. PICK c \in Ground : IsIndex(db, c)
  BY DEF IndexInv, Synced, SyncedTo
<1>2. db.tip = c /\ Len(c) \in Int
  BY <1>1, IndexReads, GroundIs DEF TipOf
<1>3. SUFFICES ASSUME db'.tip # db.tip PROVE db'.tip # None /\ Len(db'.tip) >= Len(db.tip)
  BY <1>2
<1>4. ~(Crash \/ Stop)
  <2>1. restarts \in Nat
    BY DEF WaitInv
  <2>2. restarts' # restarts + 1
    BY <2>1
  <2> QED
    BY <2>2 DEF Crash, Stop, Reopen
<1>5. ~UnwindBlock
  BY NothingToUnwind DEF UnwindBlock
<1>6. ~render_put
  BY <1>1, <1>3, Cached, SameTip
<1>7. ~prune_undo
  <2> SUFFICES ASSUME prune_undo PROVE FALSE
    OBVIOUS
  <2>1. PICK below, d : d = db /\ db' = PruneUndo(d, below)
    BY DEF prune_undo
  <2>2. IsIndex(db', c)
    BY <1>1, <2>1, IndexPruned
  <2> QED
    BY <1>1, <1>3, <2>2, SameTip
<1>8. CASE ConsumeBulk \/ ConsumeLast \/ ConsumeDurable \/ EndOfRange
  <2>1. PICK a \in Ground : SyncedTo(a) /\ Extended(a)
    BY <1>8, BlocksWritten
  <2>2. IsIndex(db, a)
    BY <2>1 DEF SyncedTo
  <2>3. db.tip = a
    BY <1>2, <2>2, IndexReads DEF TipOf
  <2>4. PICK b \in Ground : /\ IsIndex(db', b) /\ Height(b) \in Int /\ Height(a) \in Int
                            /\ Height(b) > Height(a) /\ Height(b) >= StartHeight
    BY <1>3, <2>1 DEF Extended
  <2>5. PICK d : d = db'
    OBVIOUS
  <2>6. d.tip = b /\ b \in Chains
    BY <2>4, <2>5, IndexReads, GroundIs DEF TipOf
  <2>7. b # None
    BY <2>6, ValidChains
  <2>8. Len(b) = Height(b) + 1 /\ Len(a) = Height(a) + 1
    BY <2>4, GroundIs
  <2> QED
    BY <2>3, <2>4, <2>5, <2>6, <2>7, <2>8
<1>9. CASE UNCHANGED db
  BY <1>3, <1>9
<1>10. \/ UNCHANGED db
       \/ ConsumeBulk \/ ConsumeLast \/ ConsumeDurable \/ EndOfRange
  <2>1. CASE UnwindDone \/ UnwindFails \/ NothingToDo \/ fetch_range \/ ConsumeFails \/ publish \/ NoUndo
    BY <2>1 DEF UnwindDone, UnwindFails, NothingToDo, fetch_range, ConsumeFails, publish, NoUndo, storeVars
  <2>2. CASE ReadTip \/ Behind \/ hash_stage
    BY <2>2 DEF ReadTip, Behind, hash_stage, storeVars
  <2>3. CASE Flush \/ ReadTable \/ view \/ confirmed \/ Respond
    <3>1. CASE Flush
      BY <3>1 DEF Flush
    <3>2. CASE ReadTable \/ Respond
      BY <3>2 DEF ReadTable, Respond, storeVars
    <3>3. CASE view
      BY <3>3 DEF view, storeVars
    <3>4. CASE confirmed
      BY <3>4 DEF confirmed, storeVars
    <3> QED
      BY <2>3, <3>1, <3>2, <3>3, <3>4
  <2>4. CASE Grow \/ Reorg \/ Reindex \/ NodeDown
    BY <2>4 DEF Grow, Reorg, Reindex, NodeDown, MoveTo, storeVars
  <2>5. CASE UNCHANGED vars
    BY <2>5 DEF vars, storeVars
  <2> QED
    BY <1>4, <1>5, <1>6, <1>7, <2>1, <2>2, <2>3, <2>4, <2>5 DEF Next, Sync, Node, Request
<1> QED
  BY <1>8, <1>9, <1>10

\* No block is undone while the node only grows, restarts or reindexes, in a pass that did
\* not find it below the first indexed block: it is waited for (sync.rs, unwind: "wait
\* rather than discard valid blocks").
THEOREM NodeIsWaitedFor == Spec => WaitsForNode
<1>1. Spec => []IndexInv
  BY StoreInvariance
<1>2. Init => WaitInv
  BY InitWaitInv
<1>3. IndexInv /\ WaitInv /\ [Next]_vars => WaitInv'
  BY NextWaitInv
<1>4. IndexInv /\ WaitInv /\ [Next]_vars =>
          [left = 0 /\ nodeTip >= StartHeight /\ restarts' = restarts /\ db.tip # None
             => db'.tip # None /\ Len(db'.tip) >= Len(db.tip)]_vars
  BY TipStays
<1> QED
  BY <1>1, <1>2, <1>3, <1>4, PTL DEF Spec, WaitsForNode

=============================================================================

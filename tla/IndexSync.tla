----------------------------- MODULE IndexSync -----------------------------
(***************************************************************************)
(* The address index (crates/fortis-index): the syncer that follows the    *)
(* node (sync.rs), the block fetcher (fetch.rs), the RocksDB store (db.rs),*)
(* the published block table (chainstate.rs) and a reader that answers a   *)
(* request from one view of both and caches what it rendered (render.rs).  *)
(*                                                                         *)
(* The store is what the process sees (db) and what a stop leaves (disk).  *)
(* A bulk batch skips the write-ahead log and reaches the disk at the next *)
(* flush; a durable batch is replayed on whatever the disk holds.          *)
(***************************************************************************)
EXTENDS NodeChain

CONSTANTS
    TxsOf(_),       \* block -> its indexed transactions: [id, funded, spent]
    Forks,          \* branch labels
    StartHeight,    \* start_height
    MaxReorgDepth,  \* MAX_REORG_DEPTH, 288
    BulkBatch,      \* BULK_BATCH, 64
    HashBatch,      \* HASH_BATCH, 1000
    MaxEvents,      \* bound: changes and failures of the node and stops of the process
    MaxRequests     \* bound: requests of the reader

ASSUME IndexConstants ==
    /\ {StartHeight, MaxReorgDepth, MaxHeight, MaxEvents, MaxRequests} \subseteq Nat
    /\ BulkBatch \in Nat \ {0} /\ HashBatch \in Nat \ {0}
    /\ FirstChain \in Seq(Forks) /\ FirstChain # <<>> /\ Len(FirstChain) <= MaxHeight + 1
    /\ StartHeight <= MaxHeight

VARIABLES
    peak,      \* the highest chain the node has had; the node is below it while it reindexes
    moves,
    left,      \* the most blocks the node has left behind at once
    db, disk,  \* the column families, as the process sees them and as a stop leaves them
    chain,     \* SharedChain: the block table readers load
    table,     \* step's own table
    dirty,     \* bulk_dirty
    follow,    \* status.follow
    pc,        \* where the sync thread is
    nodeTip,   \* step's node_tip
    bulk,      \* blocks parsed and not yet applied
    fetched,   \* fetch_range: blocks looked up and not yet consumed; a failure ends it
    look,      \* ... the next height its hash stage looks up
    restarts,
    rd         \* the reader: [pc, table, snap, row, answer, todo]

nodeVars == <<node, peak, moves, left>>
storeVars == <<db, disk, dirty>>
passVars == <<table, nodeTip, bulk, fetched, look, follow>>
vars == <<nodeVars, storeVars, chain, passVars, pc, restarts, rd>>

-----------------------------------------------------------------------------
(* Chains and the rows of the store *)

Chains == UNION {[1..n -> Forks] : n \in 1..MaxHeight + 1}

Put(f, g) == [x \in DOMAIN f \cup DOMAIN g |-> IF x \in DOMAIN g THEN g[x] ELSE f[x]]
Drop(f, S) == [x \in DOMAIN f \ S |-> f[x]]
Row(k, v) == [x \in {k} |-> v]
Empty == [x \in {} |-> None]

\* BlockTable: height -> [hash, first, n], its tip computed from its start and length.
TipHeight(t) == StartHeight + Cardinality(DOMAIN t) - 1
TableTip(t) == IF t = Empty THEN None ELSE t[TipHeight(t)].hash
next_txnum(t) == IF t = Empty THEN 0 ELSE t[TipHeight(t)].first + t[TipHeight(t)].n
height_of(t, n) == {h \in DOMAIN t : t[h].first <= n /\ n < t[h].first + t[h].n}

NewDb == [blocks |-> Empty, txids |-> Empty, history |-> {}, utxo |-> Empty,
          undo |-> Empty, render |-> Empty, tip |-> None]

FundedKeys(tx) == {<<f[1], <<tx.id, f[2]>>>> : f \in tx.funded}
Touched(tx) == {f[1] : f \in tx.funded} \cup {s[1] : s \in tx.spent}

\* The transactions a chain's index numbers, in order.
Indexed(c) == FlattenSeq([i \in 1..Height(c) - StartHeight + 1 |-> TxsOf(At(c, StartHeight + i - 1))])

\* What the node's validation guarantees of a chain: an output is created once, and spent
\* only by a transaction after the one that creates it.
ASSUME ValidChains ==
    /\ None \notin Chains
    /\ \A c \in Chains : TxsOf(c) \in Seq(Range(TxsOf(c)))
    /\ \A c \in Chains :
           LET txs == Indexed(c)
           IN  \A i, j \in DOMAIN txs :
                   /\ FundedKeys(txs[i]) \cap FundedKeys(txs[j]) # {} => i = j
                   /\ FundedKeys(txs[i]) \cap txs[j].spent # {} => i < j

\* One transaction of Db::apply; u is the undo record so far, n its number.
ApplyTx(acc, tx, h) ==
    LET d == acc.db
        added == acc.undo.added \cup FundedKeys(tx)
        again == tx.spent \cap added            \* created and spent within this block
        rows == {<<p, acc.n>> : p \in Touched(tx)}
    IN  [n |-> acc.n + 1,
         undo |-> [acc.undo EXCEPT !.history = @ \cup rows,
                                   !.added = added \ again,
                                   !.deleted = Drop(@, again)],
         db |-> [d EXCEPT !.txids = Put(@, Row(acc.n, tx.id)),
                          !.history = @ \cup rows,
                          !.utxo = Drop(Put(@, [k \in FundedKeys(tx) |-> h]), tx.spent)]]

\* spent_values: every output the block spends that exists before it.
spent_values(d, txs) ==
    LET keys == UNION {txs[i].spent : i \in DOMAIN txs}
    IN  [k \in keys \cap DOMAIN d.utxo |-> d.utxo[k]]

ApplyBlock(d, b, first, keep_undo) ==
    LET txs == TxsOf(b)
        none == [first |-> first, n |-> Len(txs), history |-> {}, added |-> {},
                 deleted |-> spent_values(d, txs)]
        upto[i \in 0..Len(txs)] ==
            IF i = 0 THEN [db |-> d, undo |-> none, n |-> first]
                     ELSE ApplyTx(upto[i - 1], txs[i], Height(b))
        end == upto[Len(txs)]
        rec == [hash |-> b, first |-> first, n |-> Len(txs)]
    IN  [end.db EXCEPT !.blocks = Put(@, Row(Height(b), rec)),
                       !.undo = IF keep_undo THEN Put(@, Row(Height(b), end.undo)) ELSE @,
                       !.tip = b]

\* Db::apply: consecutive blocks in one batch, numbered from the table's next.
Apply(d, blocks, first, keep_undo) ==
    LET upto[i \in 0..Len(blocks)] ==
            IF i = 0 THEN [db |-> d, n |-> first]
            ELSE LET sofar == upto[i - 1]
                 IN  [db |-> ApplyBlock(sofar.db, blocks[i], sofar.n, keep_undo),
                      n |-> sofar.n + Len(TxsOf(blocks[i]))]
    IN  upto[Len(blocks)].db

\* Db::rollback's batch: what the undo record u of block h says, and the new tip.
Rollback(d, h, u, newTip) ==
    LET nums == u.first .. u.first + u.n - 1
    IN  [d EXCEPT !.history = @ \ u.history,
                  !.utxo = Put(Drop(@, u.added), u.deleted),
                  !.txids = Drop(@, nums),
                  !.render = Drop(@, nums),
                  !.blocks = Drop(@, {h}),
                  !.undo = Drop(@, {h}),
                  !.tip = newTip]

PruneUndo(d, below) == [d EXCEPT !.undo = Drop(@, {h \in DOMAIN @ : h < below})]

-----------------------------------------------------------------------------
(* Writes: a durable one first flushes what bulk writes left in memory *)

\* Syncer::apply with Durability::Durable, and unwind: flush if bulk_dirty.
FlushedDisk == IF dirty THEN db ELSE disk

WriteBulk(blocks) ==
    /\ db' = Apply(db, blocks, next_txnum(table), FALSE)
    /\ dirty' = TRUE
    /\ UNCHANGED disk

\* RocksDB flushes its memtables, all of them atomically, whenever it likes.
Flush ==
    /\ disk # db
    /\ disk' = db
    /\ UNCHANGED <<nodeVars, db, dirty, chain, passVars, pc, restarts, rd>>

-----------------------------------------------------------------------------
(* The sync thread: Syncer::step, one action per call of the node or the store *)

\* A call of the node, or a pass, failed: run backs off and begins again.
Retry == pc' = "idle" /\ bulk' = <<>> /\ fetched' = <<>> /\ UNCHANGED <<table, nodeTip, look, follow>>

\* A fresh pass: the node's height, and the published table.
ReadTip ==
    /\ pc = "idle"
    /\ pc' = "behind"
    /\ nodeTip' = Height(node)
    /\ table' = chain
    /\ UNCHANGED <<nodeVars, storeVars, chain, bulk, fetched, look, follow, restarts, rd>>

\* unwind, before its loop: a node below our tip and on our chain is waited for.
Behind ==
    LET ours == table # Empty /\ TipHeight(table) > nodeTip /\ nodeTip \in DOMAIN table
        asked == Height(node) >= nodeTip
    IN  /\ pc = "behind"
        /\ IF ours /\ (~asked \/ At(node, nodeTip) = table[nodeTip].hash)
           THEN Retry
           ELSE pc' = "unwind" /\ UNCHANGED passVars
        /\ UNCHANGED <<nodeVars, storeVars, chain, restarts, rd>>

\* Mutant: only heights are compared.
FaultOnNode(h) == TRUE

\* The hash the node has at our tip's height is our tip's.
OnNode(h) == On(node, table[h].hash)

\* unwind's loop ends: nothing is left, or our tip is on the node's chain.
UnwindDone ==
    /\ pc = "unwind"
    /\ \/ table = Empty
       \/ /\ table # Empty /\ TipHeight(table) <= nodeTip
          /\ OnNode(TipHeight(table))
    /\ pc' = "fetch"
    /\ UNCHANGED <<nodeVars, storeVars, chain, passVars, restarts, rd>>

\* ... the node no longer has a block at our height.
UnwindFails ==
    /\ pc = "unwind" /\ table # Empty
    /\ TipHeight(table) <= nodeTip /\ Height(node) < TipHeight(table)
    /\ Retry
    /\ UNCHANGED <<nodeVars, storeVars, chain, restarts, rd>>

MustUnwind(h) == \/ h > nodeTip
                 \/ Height(node) >= h /\ ~OnNode(h)

\* ... our tip is not on the node's chain: undo it in one durable batch.
UnwindBlock ==
    LET h == TipHeight(table)
        below == IF h - 1 \in DOMAIN table THEN table[h - 1].hash ELSE None
    IN  /\ pc = "unwind" /\ table # Empty
        /\ MustUnwind(h)
        /\ h \in DOMAIN db.undo
        /\ db' = Rollback(db, h, db.undo[h], below)
        /\ disk' = Rollback(FlushedDisk, h, db.undo[h], below)
        /\ dirty' = FALSE
        /\ table' = Drop(table, {h})
        /\ pc' = "pub_unwind"
        /\ UNCHANGED <<nodeVars, chain, nodeTip, bulk, fetched, look, follow, restarts, rd>>

\* NoUndo is fatal: run returns it and the process ends.
NoUndo ==
    LET h == TipHeight(table)
    IN  /\ pc = "unwind" /\ table # Empty
        /\ MustUnwind(h)
        /\ h \notin DOMAIN db.undo
        /\ pc' = "fatal"
        /\ UNCHANGED <<nodeVars, storeVars, chain, passVars, restarts, rd>>

from == IF table = Empty THEN StartHeight ELSE TipHeight(table) + 1
\* Mutant: only the tip keeps an undo record.
FaultDurableFrom == nodeTip
durable_from == IF nodeTip > MaxReorgDepth THEN nodeTip - MaxReorgDepth ELSE 0

\* Mutant: the first durable block is written over what bulk mode left in memory.
FaultFollowBase == disk

\* enter_follow: the first time, flush; later apply flushes if bulk_dirty.
FollowBase == IF follow THEN FlushedDisk ELSE db

NothingToDo ==
    /\ pc = "fetch" /\ from > nodeTip
    /\ IF from >= durable_from /\ ~follow
       THEN follow' = TRUE /\ disk' = db /\ dirty' = FALSE
       ELSE UNCHANGED <<follow, disk, dirty>>
    /\ pc' = "idle"
    /\ UNCHANGED <<nodeVars, db, chain, table, nodeTip, bulk, fetched, look, restarts, rd>>

fetch_range ==
    /\ pc = "fetch" /\ from <= nodeTip
    /\ pc' = "consume"
    /\ look' = from /\ fetched' = <<>> /\ bulk' = <<>>
    /\ UNCHANGED <<nodeVars, storeVars, chain, table, nodeTip, follow, restarts, rd>>

\* hash_stage: one batch of hashes of the node's chain of the moment.
hash_stage ==
    LET to == Min({look + HashBatch - 1, nodeTip})
    IN  /\ pc = "consume" /\ look <= nodeTip
        /\ IF Height(node) >= to
           THEN /\ fetched' = fetched \o [i \in 1..(to - look + 1) |-> At(node, look + i - 1)]
                /\ look' = to + 1
           ELSE /\ fetched' = Append(fetched, None)
                /\ look' = nodeTip + 1
        /\ UNCHANGED <<nodeVars, storeVars, chain, table, nodeTip, bulk, follow, pc, restarts, rd>>

Grown(blocks) == [h \in {Height(blocks[i]) : i \in DOMAIN blocks} |-> db'.blocks[h]]

Prev == IF bulk # <<>> THEN Last(bulk) ELSE TableTip(table)
Follows(b) == Prev \in {None, Front(b)}

\* The range failed: the pass ends with what is already applied.
ConsumeFails ==
    /\ pc = "consume" /\ fetched # <<>> /\ Head(fetched) = None
    /\ Retry
    /\ UNCHANGED <<nodeVars, storeVars, chain, restarts, rd>>

BatchFull == Len(bulk) + 1 = BulkBatch

\* A block deep below the node's tip waits for its batch to fill.
ConsumeBulk ==
    LET b == Head(fetched)
    IN  /\ pc = "consume" /\ fetched # <<>> /\ b # None
        /\ Follows(b) /\ Height(b) < durable_from
        /\ fetched' = Tail(fetched)
        /\ IF ~BatchFull
           THEN bulk' = Append(bulk, b) /\ UNCHANGED <<storeVars, table, pc>>
           ELSE /\ WriteBulk(Append(bulk, b))
                /\ table' = Put(table, Grown(Append(bulk, b)))
                /\ bulk' = <<>> /\ pc' = "pub_bulk"
        /\ UNCHANGED <<nodeVars, chain, nodeTip, look, follow, restarts, rd>>

\* A block near the tip: first what bulk holds ...
ConsumeLast ==
    LET b == Head(fetched)
    IN  /\ pc = "consume" /\ fetched # <<>> /\ b # None
        /\ Follows(b) /\ Height(b) >= durable_from /\ bulk # <<>>
        /\ WriteBulk(bulk) /\ table' = Put(table, Grown(bulk))
        /\ bulk' = <<>> /\ pc' = "pub_bulk"
        /\ UNCHANGED <<nodeVars, chain, nodeTip, fetched, look, follow, restarts, rd>>

\* ... then the block itself, durably and with its undo record.
ConsumeDurable ==
    LET b == Head(fetched)
    IN  /\ pc = "consume" /\ fetched # <<>> /\ b # None
        /\ Follows(b) /\ Height(b) >= durable_from /\ bulk = <<>>
        /\ db' = Apply(db, <<b>>, next_txnum(table), TRUE)
        /\ disk' = Apply(FollowBase, <<b>>, next_txnum(table), TRUE)
        /\ follow' = TRUE /\ dirty' = FALSE
        /\ table' = Put(table, Grown(<<b>>))
        /\ fetched' = Tail(fetched)
        /\ pc' = "pub_block"
        /\ UNCHANGED <<nodeVars, chain, nodeTip, bulk, look, restarts, rd>>

\* The range is consumed, or the node reorganised under it: apply the rest.
EndOfRange ==
    /\ pc = "consume"
    /\ \/ fetched = <<>> /\ look > nodeTip
       \/ fetched # <<>> /\ Head(fetched) # None /\ ~Follows(Head(fetched))
    /\ IF bulk = <<>>
       THEN pc' = "idle" /\ UNCHANGED <<storeVars, table>>
       ELSE WriteBulk(bulk) /\ table' = Put(table, Grown(bulk)) /\ pc' = "pub_last"
    /\ bulk' = <<>> /\ fetched' = <<>>
    /\ UNCHANGED <<nodeVars, chain, nodeTip, look, follow, restarts, rd>>

\* Always commit, then publish.
AfterPublish == [pub_unwind |-> "unwind", pub_bulk |-> "consume",
                 pub_block |-> "prune", pub_last |-> "idle"]
publish ==
    /\ pc \in DOMAIN AfterPublish
    /\ chain' = table
    /\ pc' = AfterPublish[pc]
    /\ UNCHANGED <<nodeVars, storeVars, passVars, restarts, rd>>

prune_undo ==
    LET h == TipHeight(table)
        below == IF h > MaxReorgDepth THEN h - MaxReorgDepth ELSE 0
    IN  /\ pc = "prune"
        /\ db' = PruneUndo(db, below) /\ disk' = PruneUndo(disk, below)
        /\ pc' = "consume"
        /\ UNCHANGED <<nodeVars, dirty, chain, passVars, restarts, rd>>

-----------------------------------------------------------------------------
(* Stops of the process *)

IdleReader(todo) == [pc |-> "idle", table |-> Empty, snap |-> NewDb, row |-> None,
                     answer |-> None, todo |-> todo]

\* main::run: the rows must be without a gap and end at meta.tip.
Opens(d) ==
    /\ \A h, g \in DOMAIN d.blocks : h..g \subseteq DOMAIN d.blocks
    /\ IF d.blocks = Empty THEN d.tip = None
                           ELSE \E h \in DOMAIN d.blocks : /\ h + 1 \notin DOMAIN d.blocks
                                                           /\ d.tip = d.blocks[h].hash

\* Open the store with what is on disk and start over.
Reopen(d) ==
    /\ moves + restarts < MaxEvents /\ restarts' = restarts + 1
    /\ disk' = d /\ db' = d
    /\ pc' = IF Opens(d) THEN "idle" ELSE "refused"
    /\ table' = d.blocks /\ chain' = d.blocks
    /\ dirty' = FALSE /\ follow' = FALSE
    /\ bulk' = <<>> /\ fetched' = <<>> /\ look' = 0 /\ nodeTip' = 0
    /\ rd' = IdleReader(rd.todo)
    /\ UNCHANGED nodeVars

Crash == pc # "refused" /\ Reopen(disk)

\* A signal: the pass ends at the next block and run flushes before it returns.
Stop ==
    /\ pc \in {"idle", "consume"}
    /\ LET rest == Apply(db, bulk, next_txnum(table), FALSE)
       IN  Reopen(IF bulk = <<>> THEN db ELSE rest)

-----------------------------------------------------------------------------
(* The node *)

MoveTo(c) ==
    /\ moves + restarts < MaxEvents /\ moves' = moves + 1
    /\ c # node /\ Height(c) <= MaxHeight
    /\ node' = c
    /\ UNCHANGED <<storeVars, chain, passVars, pc, restarts, rd>>

\* Labels tell siblings apart; a block without one may have any.
AnyFork == CHOOSE f \in Forks : TRUE

\* It grows, back along its chain when it reindexed, else by a new block.
Grow ==
    /\ IF node # peak THEN MoveTo(At(peak, Height(node) + 1))
                      ELSE MoveTo(Append(node, AnyFork))
    /\ peak' = IF Len(node') > Len(peak) THEN node' ELSE peak
    /\ UNCHANGED left

\* It leaves k blocks for a branch one longer.
Reorg ==
    \E k \in 1..Height(node), f \in Forks :
        LET stem == At(node, Height(node) - k)
        IN  /\ node = peak
            /\ f # node[Len(stem) + 1]
            /\ MoveTo(Append(stem, f) \o [i \in 1..k |-> AnyFork])
            /\ peak' = node'
            /\ left' = Max({left, k})

\* A call of the sync thread to it fails, the look-up of hashes included.
NodeDown ==
    /\ moves + restarts < MaxEvents /\ moves' = moves + 1
    /\ \/ pc \in {"behind", "unwind"} /\ Retry
       \/ /\ pc = "consume" /\ look <= nodeTip
          /\ fetched' = Append(fetched, None) /\ look' = nodeTip + 1
          /\ UNCHANGED <<table, nodeTip, bulk, follow, pc>>
    /\ UNCHANGED <<node, peak, left, storeVars, chain, restarts, rd>>

\* It restarts with -reindex: the same chain, a lower tip.
Reindex ==
    \E h \in 0..Height(node) - 1 :
        /\ node = peak /\ MoveTo(At(node, h))
        /\ UNCHANGED <<peak, left>>

-----------------------------------------------------------------------------
(* A request: a view of the index, then one transaction of its history *)

\* view: load the published table ...
ReadTable ==
    /\ rd.pc = "idle" /\ rd.todo > 0 /\ pc \notin {"fatal", "refused"}
    /\ rd' = [rd EXCEPT !.pc = "loaded", !.table = chain, !.todo = @ - 1]
    /\ UNCHANGED <<nodeVars, storeVars, chain, passVars, pc, restarts>>

\* Mutant: the snapshot is taken without comparing the tips.
FaultView ==
    /\ rd.pc = "loaded"
    /\ rd' = [rd EXCEPT !.pc = "view", !.snap = db]
    /\ UNCHANGED <<nodeVars, storeVars, chain, passVars, pc, restarts>>

\* ... then a snapshot, until both name the same tip (or the tries run out).
view ==
    /\ rd.pc = "loaded"
    /\ rd' = IF db.tip = TableTip(rd.table)
             THEN [rd EXCEPT !.pc = "view", !.snap = db]
             ELSE [rd EXCEPT !.table = chain]
    /\ UNCHANGED <<nodeVars, storeVars, chain, passVars, pc, restarts>>

\* Reader::history, newest first and limited to one row.
newest(d) == {row \in d.history : \A other \in d.history : other[1] = row[1] => other[2] <= row[2]}

\* Mutant: a cached body is used for whatever has its number.
FaultRenderHit(d, n, id) == n \in DOMAIN d.render

\* A cached body begins with its txid and is used only for that transaction.
render_hit(d, n, id) == n \in DOMAIN d.render /\ d.render[n] = id

\* Renderer::confirmed for one row.
confirmed ==
    /\ rd.pc = "view"
    /\ \E row \in newest(rd.snap) :
           LET n == row[2]
               id == rd.snap.txids[n]
               hit == render_hit(rd.snap, n, id)
           IN  rd' = [IdleReader(rd.todo) EXCEPT
                        !.pc = IF hit THEN "answered" ELSE "fetched",
                        !.row = [n |-> n, id |-> id],
                        !.answer = IF hit THEN rd.snap.render[n] ELSE id]
    /\ UNCHANGED <<nodeVars, storeVars, chain, passVars, pc, restarts>>

\* The miss was fetched from the node by its txid; cache it, in the live store.
\* The row count is an estimate, so any put may trim the oldest rows.
render_put ==
    /\ rd.pc = "fetched"
    /\ \E keep \in {0, rd.row.n} :
           LET put(d) == [d EXCEPT !.render =
                              Drop(Put(@, Row(rd.row.n, rd.answer)),
                                   {n \in DOMAIN d.render : n < keep})]
           IN  db' = put(db) /\ disk' = put(disk)
    /\ rd' = [rd EXCEPT !.pc = "answered"]
    /\ UNCHANGED <<nodeVars, dirty, chain, passVars, pc, restarts>>

\* The answer is sent, or an error: the tries ran out, the node did not answer.
Respond ==
    /\ rd.pc # "idle"
    /\ rd' = IdleReader(rd.todo)
    /\ UNCHANGED <<nodeVars, storeVars, chain, passVars, pc, restarts>>

-----------------------------------------------------------------------------
Init ==
    /\ node = FirstChain /\ peak = FirstChain /\ moves = 0 /\ left = 0
    /\ db = NewDb /\ disk = NewDb /\ dirty = FALSE
    /\ chain = Empty /\ table = Empty /\ follow = FALSE
    /\ pc = "idle" /\ nodeTip = 0 /\ bulk = <<>> /\ fetched = <<>> /\ look = 0
    /\ restarts = 0 /\ rd = IdleReader(MaxRequests)

Sync == \/ ReadTip \/ Behind \/ UnwindDone \/ UnwindFails \/ UnwindBlock \/ NoUndo
        \/ NothingToDo \/ fetch_range \/ hash_stage \/ ConsumeFails \/ ConsumeBulk
        \/ ConsumeLast \/ ConsumeDurable \/ EndOfRange \/ publish \/ prune_undo
Node == Grow \/ Reorg \/ Reindex \/ NodeDown
Request == ReadTable \/ view \/ confirmed \/ render_put \/ Respond
Next == Sync \/ Flush \/ Crash \/ Stop \/ Node \/ Request

Spec == Init /\ [][Next]_vars

\* The sync thread runs until a fatal error; nothing else need ever happen.  This is
\* WF_vars(Sync) with ENABLED spelled out: only those two states stop the thread, and each
\* of its steps moves pc or consumes what a step before it made.
FairSpec ==
    /\ Spec
    /\ \/ []<>(pc \in {"fatal", "refused"})
       \/ []<><<Sync>>_<<pc, look, fetched>>

-----------------------------------------------------------------------------
(* Properties *)

Pcs == {"idle", "behind", "unwind", "fetch", "consume", "prune", "fatal", "refused"}
       \cup DOMAIN AfterPublish

\* Every variable has its type; the store of the process always opens.
TypeOK ==
    /\ node \in Chains /\ peak \in Chains /\ moves \in 0..MaxEvents /\ left \in Nat
    /\ Opens(db) /\ dirty \in BOOLEAN /\ follow \in BOOLEAN
    /\ DOMAIN chain \subseteq 0..MaxHeight /\ DOMAIN table \subseteq 0..MaxHeight
    /\ pc \in Pcs /\ nodeTip \in 0..MaxHeight /\ look \in 0..MaxHeight + 1
    /\ bulk \in Seq(Chains) /\ Len(bulk) < BulkBatch
    /\ fetched \in Seq(Chains \cup {None}) /\ restarts \in 0..MaxEvents
    /\ rd.pc \in {"idle", "loaded", "view", "fetched", "answered"}

\* What the rows of a store whose tip is chain c must say, whatever the order in which
\* they were written.
IndexOf ==
    [c \in {x \in Chains : Height(x) >= StartHeight} |->
        LET txs == Indexed(c)
            made == UNION {FundedKeys(txs[i]) : i \in DOMAIN txs}
            gone == UNION {txs[i].spent : i \in DOMAIN txs}
            makes(h, k) == \E i \in DOMAIN TxsOf(At(c, h)) : k \in FundedKeys(TxsOf(At(c, h))[i])
        IN  [txids |-> [n \in 0..Len(txs) - 1 |-> txs[n + 1].id],
             history |-> UNION {{<<p, i - 1>> : p \in Touched(txs[i])} : i \in DOMAIN txs},
             utxo |-> [k \in made \ gone |-> CHOOSE h \in StartHeight..Height(c) : makes(h, k)],
             hashes |-> [h \in StartHeight..Height(c) |-> At(c, h)]]]

Describes(d, c) ==
    /\ [txids |-> d.txids, history |-> d.history, utxo |-> d.utxo,
        hashes |-> [h \in DOMAIN d.blocks |-> d.blocks[h].hash]] = IndexOf[c]

\* What the process sees and what a stop would leave are both, at every moment, the
\* exact index of the one chain their tip names: through bulk batches lost with the
\* memtables, blocks undone, transactions mined again on another branch, and a node
\* that reorganises between the look-up of two hashes (sync.rs, db.rs).
StoreIsChain ==
    \A d \in {db, disk} :
        /\ Opens(d)
        /\ IF d.tip = None THEN d.history = {} /\ d.utxo = Empty /\ d.txids = Empty
                           ELSE Describes(d, d.tip)

\* A block without an undo record is met only after a reorganisation deeper than
\* MAX_REORG_DEPTH, the bulk mode's boundary and the pruning leaving no gap, or in a pass
\* that found the node below the first indexed block, as a reindex begins: that one has no
\* block of ours to compare, takes none of them for the node's, and undoes until the
\* records end (sync.rs, unwind; db.rs, rollback).
FatalOnlyIfDeep == pc = "fatal" => left > MaxReorgDepth \/ nodeTip < StartHeight

\* The pair a request reads, taken in two steps beside a writer that commits and then
\* publishes, is of one chain: each number in the snapshot has its transaction in the
\* block the table names for it (chainstate.rs, view).
ViewIsOneChain ==
    rd.pc = "view" =>
        /\ rd.table = rd.snap.blocks
        /\ \A row \in rd.snap.history :
               \E h \in height_of(rd.table, row[2]) :
                   \E i \in DOMAIN TxsOf(rd.table[h].hash) :
                       TxsOf(rd.table[h].hash)[i].id = rd.snap.txids[row[2]]

\* The body served for a number is that number's transaction, although rows rendered
\* for a chain since rolled back, or lost in a stop, stay under reused numbers
\* (render.rs, confirmed).
ServedIsIndexed ==
    rd.pc = "answered" => rd.answer = rd.row.id

\* While the node only grows, restarts or reindexes, no block is ever undone (sync.rs,
\* unwind: "wait rather than discard valid blocks"), unless the pass found the node below
\* the first indexed block.
WaitsForNode ==
    [][left = 0 /\ nodeTip >= StartHeight /\ restarts' = restarts /\ db.tip # None
         => db'.tip # None /\ Len(db'.tip) >= Len(db.tip)]_vars

\* Once the node and the process are left alone, readers are shown the node's chain,
\* or a chain the node is still behind on, or the syncer has given up (sync.rs, run).
CatchesUp ==
    <>[](\/ TableTip(chain) = node
         \/ pc = "fatal"
         \/ TableTip(chain) # None /\ On(TableTip(chain), node)
         \/ chain = Empty /\ Height(node) < StartHeight)

=============================================================================

# Fortis: a TLA+ verification project

Fortis is a wallet for Bitcoin (BTC) and XBT with an edge server, a Lightning
service provider (LSP) and an address index. This project models the parts
where money can be lost, doubled or left stuck without anybody having broken a
key: the **atomic swap service** of `fortis-edge` (offer book, match,
watchtower) and the **phone's swap engine** on the other side of it, the
**LSP's accounts** and held payments, the **address index** with its spend
search, and the **device lock** that keeps one wallet's Lightning node on one
phone. TLC checks the models on small instances; TLAPS proves most of their
safety properties, and that the LSP implements its abstract account, for every
number of threads, phones, offers, payments, clock values and faults.

Paths below are relative to `src/`; `swap/` is `crates/fortis-edge/src/swap/`.

## 1. The system

A swap has two sides. The **initiator** sells XBT: it holds the preimage,
funds an XBT HTLC first and redeems the BTC one. The **participant** sells
BTC: it funds second and redeems the XBT leg with the preimage the initiator's
redeem publishes. The XBT leg has the longer locktime. The edge never holds
coins: it matches offers, relays messages between the two phones, enforces
deadlines with strikes, and broadcasts transactions the phones signed in
advance.

    phone (SwapEngine.kt, wallet-core/swap.rs)          phone
        | create/take/cancel offer, accept, keys, hashlock,   |
        | funded, release, watch (HTTP, retried)              |
        v                                                     v
    fortis-edge worker threads  ----- swap/mod.rs handlers ----
        |        matching lock (Store::matching)
        v
    Store (RocksDB): offers, matches, tags, strikes, relay, watch jobs
        ^
        |        tick / rematch / clock / close / run_jobs / purge
    watchtower thread (swap/watchtower.rs, once a minute)
        |
        v
    XBT node, address index (fortis-index), BTC node / Esplora

    phone's Lightning node (fortis-lightning) <--> LSP (fortis-lsp)
        |  device lock                              |  ledger (SQLite)
        v                                           v
    VSS store, written at expected versions      LDK node: events, payments

Worker threads of the edge serve requests concurrently. A handler checks
without the matching lock, often asks a chain, and then takes the lock, checks
again (or does not) and writes. The watchtower thread does the same in passes.
Every write is one RocksDB put; there are no multi-key transactions, so an
operation of several puts can stop halfway. The LSP has two threads, one that
serves the accounts' API and one that handles LDK's events, over a ledger whose
calls are transactions. The index has one writer and many readers over one
RocksDB. Two phones of one wallet know of each other only through one record
in VSS.

### Inventory

| part | state | operations | what is hard | what makes it correct |
|---|---|---|---|---|
| offer book, matcher (`swap/mod.rs`, `matcher.rs`, `store.rs`) | offers, matches, tags, client ids | post, take, take by code, cancel, match, rematch, decline, release, tick | checks outside the lock, retries, partial fills, three writes per match, integer rounding | nothing is sold twice, limits are kept, a cancelled match gives back what it held, crossing offers meet |
| match (`swap/mod.rs`, `matcher.rs`) | `Match`, strikes, relay log | accept, decline, keys, hashlock, funded, late funded, release, watch, tick, clock, close | reads before the lock, reinstatement against release, deadlines against late chain reads, crashes between writes | status stands on evidence, a released match stays cancelled, strikes are exact, a funded match ends |
| watchtower jobs (`swap/watchtower.rs`) | `WatchJob` (done, sent_prevout) | run_jobs, run_job, phone_sent_redeem | races with the phones' own spends, fee rises, evictions, a crash between broadcast and write, answers that mean "spent or unknown" | nobody who handed its jobs over loses both legs; coins do not stay locked |
| phone swap engine (`SwapEngine.kt`, `wallet-core/src/swap.rs`, `htlc.rs`) | the saved record, the session's keys | step: review, poll, fund, re-send, redeem, refund, release, close | a phone cut off between a send and its save, an edge that answers wrongly, fundings given up that still land | never two fundings, no key wiped early, every coin comes out |
| relay and long poll (`swap/relay.rs`) | message log, waiters | push, after, PollGate | order of store and push, wake-ups | what is relayed is stored, and once |
| recovery, purge (`swap/mod.rs`, `store.rs`) | secrets, tags, old records | recover, purge | a record deleted while a job for it is posted | nothing live is dropped |
| LSP accounts (`crates/fortis-lsp`) | ledger, holds, held payments, conversions | credit, hold, settle, transfer, deliver held, convert | LDK events replayed after a crash, two threads, a plan made from a stale snapshot | a payment is credited once, nothing is reserved that is not free, what is debited is what left |
| address index (`crates/fortis-index`) | block table, rows, undo, render cache | bulk and durable apply, rollback, publish, reads | unlogged bulk writes, reorganisations under a fetch, readers beside the writer, reused numbers | store and view are the index of one chain; it catches up |
| spend search (`crates/fortis-index/src/spends.rs`) | cache of spenders and progress, scanning slots | outspend | every call sees the chain of its own moment | an answer was true while the request ran; a mined spend is found |
| Lightning node start and device lock (`crates/fortis-lightning/src/node.rs`, `device.rs`) | generation, claim, lock slot, VSS record | start, takeover, stop, check | start workers that outlive their callers, lost answers, versions that start again | one node per process, no node without the lock, the old phone stops |
| rest of the Lightning wallet (`pay.rs`, `channel.rs`, `recover.rs`, ...) | LDK state in VSS | pay, receive, channels, recover | drives a library | — |
| edge proxy, cache, prices, limits, tokens | caches, buckets | fetch, merge, limit | mostly I/O | — |
| wallet core | keys, PSBTs | derive, sign, select | cryptography over bytes | — |
| node daemon, CLI, FFI, web, Android screens | — | glue | — | — |

`PROJECT.json` lists every part with its status, and under "hazards" the
places where this code can go wrong in ways a test would hardly reach, with
the properties that watch them.

## 2. The modules

| module | models | extends |
|---|---|---|
| `SwapMatch` | one match: handlers, watchtower pass, crashes, chains | — |
| `Watchtower` | the watch jobs of one funded swap on two chains | — |
| `OfferBook` | offers and the matches made of them | — |
| `SwapEngine` | the two phones of one swap, with edge and chains around them | — |
| `Account` | what an account promises its owner: the abstract specification | — |
| `LspAccounts` | ledger, API thread, event thread, LDK; implements `Account` | — (`Acct == INSTANCE Account WITH ...`) |
| `NodeChain` | the node's best chain as the index reads it | — |
| `IndexSync` | the syncer, the store, the published table, a reader | `NodeChain` |
| `Outspend` | the search for the spender of one output | `NodeChain` |
| `DeviceLock` | the Lightning nodes of one wallet on several phones | — |
| `MC_...` | the instances of each of them | the module |
| `SwapMatchProofs`, `WatchtowerProofs`, `OfferBookProofs`, `SwapEngineProofs`, `LspAccountsProofs`, `DeviceLockProofs`, and `IndexProofs` for `IndexSync` and `Outspend` | the inductive invariants and the theorems | the module, TLAPS, `Sums` where it adds up |
| `Sums` | lemmas about sums over finite sets and about least and greatest numbers | TLAPS |

The swap models meet at the match. `OfferBook` treats what happens inside a
match as steps that may come at any time (`Progress`, `Reinstate`,
`on_decline`, a lapsed deadline), each of which `SwapMatch` has in detail;
`SwapMatch` stores watch jobs and `Watchtower` runs them. `Watchtower` takes
from `SwapMatch` that a job spends the recorded funding of its leg
(`JobsSpendRecorded`) and that the participant's funding is recorded.
`SwapEngine` composes the two phones with a coarse match (`Declare`,
`EdgeTick`) and a coarse watchtower (`Tower`); what those two do in detail is
the other modules' business. `Outspend` and `IndexSync` read the same node, the
variable of `NodeChain`, and share nothing else: the search asks the node, not
the index. Each has its own specification (`Spec` and `LookupSpec`); they are
not composed.

Definitions named `Fault...` are variants of the definition below them with
one plausible mistake in it (a dropped guard, a missing re-check, a swapped
order). No specification uses them; put in place of the original, each makes
the property it was written for fail, which is how we know the property
depends on that code.

### SwapMatch

State: `m` is the stored `Match` record (accepted, keys, hashlock, funding of
each leg by the role that owns it, `participant_fund_by`, missed, closed_at,
release); `strikes` a bag per token and time; `relayed` counts per sender and
type; `jobs` the watch jobs; `lock` the holder of `Store::matching`; `th` the
worker threads with a program counter between a handler's unlocked checks, its
locked write and its relay push; `tower` the watchtower's pass with the clock
value and the copy of the match it read; `chain` and `mined_at` what the
chains know of each outpoint.

| code | actions |
|---|---|
| `post_message`: accept, decline, keys, hashlock, release_request, release | `Accept`, `Decline`, `Keys`, `Hashlock`, `ReleaseRequest`, `Release`: check and `put_match` under the lock; the push is a second step (`Push`), under the lock or, for decline, after it |
| `post_message`: funded | `FundedCheck` (unlocked, with the chain read), `FundedCommit` |
| `late_participant_funded` | `LateFundedCheck`, `RecordCommit`, `Reinstate*`, `Push` |
| `watch`, `record_leg_funding` | `WatchRefund`, `WatchRedeem`, `RecordCommit`, `PutWatch` |
| `reinstate_if_funded_in_time` | `ReinstateRead`, `ReinstateLift` (remove_strike), `ReinstateCommit` (put_match) |
| `tick_match` | `TickUnaccepted`, `TickStrike` (add_strike), `TickCancel` (put_match), `TickNothing` |
| `start_participant_clock` | `ClockRead`, `ClockWrite`, `ClockRelay` |
| `close_if_spent` | `CloseRead`, `CloseWrite` |
| a stop of the process; a failed put or chain read | `Crash`, `ThreadFails`, `TowerFails` |
| the chains | `Broadcast`, `Mine`, `Bury`, `Spend`, and, bounded, `Evict`, `Reorg`, `EvictSpend` |

Outpoints are model values; whether one pays a leg's script and amount is
which set it is in (`XbtOut`, `BtcOut`, `BadOut`).

### Watchtower

State: each leg's HTLC output (absent, mempool, mined, deep) and its spend
(kind, feerate, mined), the going feerate, the four jobs a swap can have, the
pass in progress with the snapshot of jobs it read at its start, which phones
are gone, and whether the preimage is public. `JobLook` is `run_job` up to its
broadcast (txout, spend_confirmed, adoption by `phone_sent_redeem`, what is
due), `JobSend` the broadcast of `pick_variant`'s choice, `JobStore` the write
of `sent_prevout` or done from the pass's copy. Phones follow
`SwapEngine.kt`: fund, hand jobs over, redeem within `REDEEM_MARGIN_SECS`,
refund past the locktime. With `honest` false the initiator may redeem at any
time and at any fee. A node takes a conflicting spend only if it pays more; a
miner takes what pays the rate.

Assumptions on time, in `Tick`: a unit of time is long enough for a pass of
the watchtower (its period is a minute, locktimes are hours apart), for a
phone that runs to hand over what it signed, and for a miner to take what pays
the going rate. This is what the code's margins are for, and without it no
HTLC swap is safe. `SpendConfirmed("xbt")` is TRUE for an outpoint the
confirmed set does not know, as in the code.

### OfferBook

State: `offers` (amounts, price, direction, owner, client id, tag, status,
match, and, for the properties only, what was posted), `matches` (amounts,
price, status, pre-match amounts), the threads between their unlocked checks
and the locked sections, the watchtower's tick and rematch passes with what
they read, and the lock.

| code | actions |
|---|---|
| `create_offer` | `CreateCheck`, `CreateInsert` (looked up again under the lock), `CreateMatch` (one `match_offer` per step, until nothing is left) |
| `take_offer`, `take` | `TakeCheck` / `CodeCheck`, `TakePair` (`take_public`, `take_private`), `TakeClean` |
| `match_locked`, `pair`, `settle` | `MatchLocked`, `Candidates`, `Before`, `Price`, `Fill`, `Pair`, `Settled` |
| `rematch` | `RematchStart`, `RematchOne` |
| `cancel`, `release`, `on_decline`, `tick` | `Cancel`, `Released`, `on_decline`, `TickStart`, `tick_match`, `TickExpire` |
| `cancel_offer` | `cancel_offer` |

`Pair` and `Cancel` are several puts; `WritesDone` says after how many of
them a refused or failed put stops. Amounts are small integers with `Unit`
satoshi in one XBT, so that both conversions round as the code's do. An id is
fresh when nothing stored has or names it, as the random ids of `new_id` are. A
pass of the watchtower keeps the *set* of what is left to do and takes its
members in the order of the store's keys.

### SwapEngine

State: per phone the saved record `rec` (step, pending and recorded funding,
fundings given up, marks of what was posted) and `run`, where a step of the
engine is; per leg the fundings ever signed and their fate, and the spend; the
edge's match as the phones read it, and the jobs its watchtower holds.

A step of the engine is cut where it sends something out: what it sent and
what it saves next are two actions, and `Abandon` (the process stops, the step
limit of `launchActive` ends it) in between loses the second.

| code | actions |
|---|---|
| `advance` up to its branch | `ReadMatch`, `AfterRead`, `Walked` |
| `review`, `pollRelay`, `theirFunding` | the same names; `Accepted` is the save after the accept was posted |
| `fund`, `resendPending`, `recordFunding`, `swapFunder` | `FindFunding`, `resendPending`, `FundOrLeave`, `Send`, `NotSeen`, `Recorded` |
| `afterFunding`, `initiatorRedeem`, `participantRedeem`, `watchRedeem`, `doneCheck` | the same names; `Redeemed` saves after the redeem was sent |
| `refundIfDue`, `refundProgress`, `release`, `releaseBack` | the same names; `Refunded`, `Signed`, `Released` save |
| `closeUnfunded`, `resumeClose`, `matchEnded` | the same names |
| edge and chains | `Declare`, `EdgeTick`, `Tower`; `Bury`, `MineSpend`, and as faults `Conflict`, `Evict` |

The edge may answer wrongly about a chain; an independent explorer is right or
absent (`Agreed` is `ChainCheck`). Wrong answers, refused calls, stops,
evictions and double-spent coins share the one budget `faults`.

### Account and LspAccounts

`Account` has three variables per owner: balance, what is reserved of it, and
the payments credited. A payment is credited once and in full; a send, a
withdrawal or a move reserves out of what is free; what leaves was reserved; a
transfer moves free money and loses none.

`LspAccounts` keeps the ledger's tables (`balance`, `holds`, `entries`,
`issued`, `held`, `nonces`, `revenue`), LDK's side (`inbound`, `out`, and the
`queue` of events it hands out until they are acknowledged) and the program
counters of the two threads. A ledger call is one transaction under one mutex
and so one step; between two of them, and between a call of the node and the
call that records it, the other thread runs or the process stops.

| code | actions |
|---|---|
| `account_api.rs` `handle`: invoice, offer, fee and channel invoice, pay, withdraw | `handle(r)`, then `send_bolt11`, `send_onchain`, `ApiSettle` |
| `main.rs` `account_event` and its hooks | `account_event` (`on_payment_received`, `on_offer_payment_received`, `on_payment_resolved`, `on_claimable`, `on_forward_result`, `on_delivery_result`, `PaymentForwarded`), `event_handled` |
| `held.rs` `tick` | `deliver`, `HeldRecord`, `settle_into_account`, `deliver_balances` |
| `main.rs` `run_conversions`, `conversion.rs` `plan` | `run_conversions`, `start_conversion`, `MoveSend`, `MoveRename` |
| LDK, the network, time | `PayIn`, `Resolve`, `Forwarded`, `Block`, `Second`, `Crash` |

The refinement mapping takes the account's reserve as the sum of its holds and
its credited payments as the credit entries.

### IndexSync

A block's hash commits to its ancestors, so a block is the sequence of branch
labels from the genesis block to it. The store is what the process sees (`db`)
and what a stop would leave (`disk`): a bulk batch skips the write-ahead log
and reaches the disk with the next flush, which the code asks for before its
first durable write and RocksDB may do at any time.

| code | actions |
|---|---|
| `sync.rs` `step`, first half | `ReadTip`, `Behind`, `UnwindBlock`, `UnwindDone`, `UnwindFails`, `NoUndo`, `NothingToDo` |
| `fetch.rs` `fetch_range`, `hash_stage` | the same names: hashes are looked up in batches while blocks are consumed, each at the node's chain of the moment |
| `step`, second half, `db.rs` `apply` | `ConsumeBulk`, `ConsumeLast`, `ConsumeDurable`, `ConsumeFails`, `EndOfRange`, `publish`, `prune_undo` |
| `run`, a stop | `Retry`, `Reopen`, `Stop`, `Crash`, `Flush` |
| `chainstate.rs` `view`, `render.rs` | `ReadTable`, `view`, `confirmed`, `render_put`, `Respond` |
| the node | `Grow`, `Reorg`, `Reindex`, `NodeDown` |

### Outspend

`Ask`, `known_spender`, `Named`, `CacheRead`, `Claim`, `ScanBlock`,
`ScanEnds` and `Reply` are `outspend` cut at its calls of the node; `cache`
holds one of the four kinds (spender, found, scanned, exhausted), `scanning`
the request that holds the output's slot. The node's steps are `Mine` and
`Reorganise`. `Evict` is `remember` for other
outputs filling the cache.

### DeviceLock

State: per phone the generation of `start`/`stop`, the installed node
(`inner`), the lock slot, the process-wide claim, the start workers, the lock
operation in progress (`op`, which holds the slot's mutex over its round
trips), the background checker; and the record in VSS with its version.

| code | actions |
|---|---|
| `start_impl` | `start_impl`, `StartTimeout` |
| `run` of the start worker | `TakeClaim`, `Probe`, `TakeLock`, `Build`, `Install`, `spawn_lock_checker`, `release_lock`, `Unclaim` |
| `device.rs` `acquire`, `takeover`, `refresh`, `release` | `LockGet`, `LockPut`, `refresh`, `ReleaseDelete` |
| `stop`, `check_lock_at`, `refresh_lock`, `lose_lock` | `stop`, `EndRun`, `refresh_lock`, `lose_lock` |
| VSS and the system | `Put`, `PutUnanswered` (the write done or not, the answer lost), `Die` |

A version is the store's own count for a key: 1 for a record just inserted,
one more at each write, and 1 again after it was deleted and inserted.

## 3. The runs

All but the last end with no error, each in under four minutes on two cores.

| run | properties | instance, and why it is enough |
|---|---|---|
| `swap_match_life` | `OnRecord`, `StrikesExact`, `SetOnce`, `ForwardOnly` | from the proposal, one worker thread against the watchtower, redeem watches, two BTC outpoints that pay the leg (so that a second one can try to replace the first), one eviction or reorganisation; deadlines at 0 with the clock at 0 and 1, so every deadline is both met and missed. 1.3 million states |
| `swap_match_race` | `TypeOK`, `ReleasedStaysCancelled`, `RelayedOnce`, `ClosesOnlySpent` | from an accepted match, two worker threads and the watchtower, refund watches, one crash or failed write: every pair of handlers between check and write. 1.6 million states |
| `swap_match_live` | `FundedMatchEnds`, `InTimeFundingKeepsSwap` | the same with fairness, no faults, three instants: a deadline before, at and after the mining time. 154,000 states |
| `watchtower_whole` | `NobodyLosesBoth`, `DoneMeansSpent` | locktimes 3 and 7, a margin of 3 (`EnoughTime` of section 4 holds), two feerates, one rise or fall, one eviction of a spend, one crash (before a broadcast) or phone lost, honest initiator and not. 2.2 million states |
| `watchtower_settles` | `LegsSettle` | with fairness; a BTC funding may also be evicted. 174,000 states |
| `offer_book_trades` | `NeverOversold`, `WithinLimits`, `HeldByLiveMatch`, `PostedOnce`, `BookClears` | with fairness; two threads, three requests out of six (a listed offer larger than one fill, a private one, crossing and non-crossing bids, a partial take, a take by code), three offers, three matches, a price at which fills round. 391,000 states |
| `swap_engine_settles` | `FundedOnce`, `LeftWithNothing`, `FundsWhatIsThere`, `ReleasedAlone`, `SettledForGood`, `CoinsSettle`, `RefundsRecorded` | with fairness; two fundings per phone, so that one given up and one planned again can both land; clock 0 to 3 with the deadlines at 0 and 1 and the locktimes at 2 and 3; two faults. 269,000 states |
| `lsp_accounts_kept` | `ServedOnce`, `ChargedExactly`, `HeldOnce`, `AccountKept` | two owners and six scenarios (accounts paying each other; a payment beside a withdrawal; a held payment and what it turns into; custody filling up; a payment asked for again; fees and a routed payment), two outgoing payments, one stop anywhere, the seconds around a request's expiry. 636,000 states |
| `index_follows` | `StoreIsChain`, `FatalOnlyIfDeep`, `ViewIsOneChain`, `ServedIsIndexed`, `CatchesUp` | with fairness; a chain of four blocks with branches, `MAX_REORG_DEPTH` 2, batches of 2 blocks and 3 hashes, heights to 5: bulk, the boundary to durable writes, and a reorganisation deeper than is undone; two events (growth, reorganisation, reindex, failure, stop), two requests of a reader. 762,000 states |
| `outspend_finds` | `SpentWasMined`, `SpendIsFound` | with fairness; two requests, a window of 3 blocks and 2 per request, so that a search is resumed and a window ends; one reorganisation, one emptied cache, two competing spends. 843,000 states |
| `device_lock_held` | `OneNode`, `HeldUnlessTaken`, `NothingLeftHeld`, `OldDeviceStops` | with fairness; two phones, two start workers on each (one that outlives its caller), three calls, one lost answer or death. 264,000 states |
| `device_lock_unnoticed` | `TakeoverNoticed` | violated (section 5); two phones, four calls, no fault |

The runs of `OfferBook`, `SwapEngine`, `LspAccounts`, `IndexSync`, `Outspend`
and `DeviceLock` do not check for deadlock: the work of an instance is bounded
and a system with nothing left to do is a proper end. In the other runs the
watchtower always has a next pass.

Bounds are named in the modules (`\* bound:`). Counters, clock and budgets
stop at them in the guards; they do not restrict what a step does. Every
module has a `TypeOK`; it holds on these instances, and the configurations
other than `SwapMatchRace.cfg` leave it out in favour of properties that say
more. `NeverOverdrawn` of `LspAccounts` follows from `AccountKept`, because an
account reserves only out of what is free.

**Fairness.** The watchtower thread is a loop that ends with the process
(`spawn`), so its next step is weakly fair; in `OfferBook`, where it competes
with requests for the lock, starting a pass is strongly fair: a mutex held for
short sections is obtained in the end. A request in service runs to its end.
Miners take what pays. Time passes; `Tick` of `Watchtower` waits for the
others and is strongly fair for that reason. `PhoneRetries` is the engine's
loop, which posts `funded` at every step until it is answered; it is used for
`InTimeFundingKeepsSwap`, whose statement is about that phone. No other action
of a phone is assumed to happen in `SwapMatch`; `Watchtower` assumes that a
phone that was not lost hands its jobs over. In `SwapEngine` the phone's
worker steps every active swap again and again (`SwapRunner.kt`,
`launchActive`), and blocks, deadlines and the watchtower go on; these last
steps are finitely many, so one weak fairness of them together is fairness of
each. In `IndexSync` the sync thread runs until a fatal error (`run`); the
formula is its weak fairness with ENABLED written out, and says nothing of the
node or of readers. In `Outspend` phones and the watchtower keep asking. In
`DeviceLock` threads run to their end and the background check comes round
again (once a minute); no call of the user is assumed.

What the runs rely on beyond that, each of it lifted in the recipes of
section 5:

- `watchtower_whole` and `watchtower_settles` have `PhoneFees = {2}`: a phone
  that broadcasts its own later spend pays the top rate. In both, a crash comes
  before a broadcast or before a job is looked at, not between broadcast and
  store, and an XBT funding is never evicted from the mempool.
- `offer_book_trades` has no failed writes and its requests carry no recovery
  tag. It lets a take be sent twice, but does not ask that it match once.
- `StrikesExact` speaks about behaviours without faults; `ClosesOnlySpent`
  about chains that have taken nothing back; `HeldOnce` about an LSP that does
  not stop; `ChargedExactly` leaves out a stop together with a phone that pays
  the same invoice again; `SpendIsFound` is said of a chain that only grows;
  `NothingLeftHeld` of round trips that are answered.
- `HeldUnlessTaken` and `OldDeviceStops` leave out what follows when a
  version number comes back (`reset`), which is the finding.
- `index_follows` starts at height 0 (`StartHeight = 0`).
- Two refund watches of different outpoints at once, or with crashes, are
  beyond the bounds of the match's runs (8 million states and more); for
  `SetOnce`, `OnRecord` and the other proved properties they are covered by
  the theorems.

## 4. What is proved

Every theorem is about the `Spec` that the runs check, for every value of the
constants that satisfies the module's named assumption (`SwapMatchConstants`,
`WatchtowerConstants`, ...): sets of any size, natural numbers for times,
amounts and bounds, model values that differ from what they must not be mistaken
for. The assumptions beyond types are those the code enforces: prices and units
above zero, `BtcLock < XbtLock` in `SwapEngine`, an invoice is asked for a
payment of its kind, outpoints that pay one leg do not pay the other. `IndexSync`
has a second assumption, `ValidChains`: the blocks of a chain are valid to the
node, which accepts no output twice and no spend before its output. Counters and budgets (faults,
calls, crashes, reorganisations) are any number, so the theorems cover as many
stops, lost answers and failed writes as one likes.

| theorem | statement |
|---|---|
| `SwapMatchProofs` `TypeCorrect` | `Spec => []TypeOK` |
| `MatchSafe` | `Spec => []ReleasedStaysCancelled` |
| `MatchOnRecord` | `Spec => []OnRecord` (`FundedOnEvidence`, `RelayedIsStored`, `JobsSpendRecorded`) |
| `RecordedOnce` | `Spec => SetOnce` |
| `MovesForward` | `Spec => ForwardOnly` |
| `RelayedAtMostOnce` | `Spec => []RelayedOnce` |
| `ClosedWhenSpent` | `Spec => ClosesOnlySpent` |
| `StrikesAreExact` | `Spec => []StrikesExact` |
| `WatchtowerProofs` `NoJobGivenUp` | `ASSUME XbtFundingStands PROVE Spec => []DoneMeansSpent` |
| `BothLegsNeverLost` | `ASSUME EnoughTime PROVE Spec => []NobodyLosesBoth` |
| `OfferBookProofs` `TypeCorrect` | `Spec => []TypeOK`: no amount goes below zero |
| `PostedAtMostOnce` | `Spec => []PostedOnce` |
| `LimitsRespected` | `Spec => []WithinLimits`, with failed and refused writes |
| `OffBookForLiveMatch` | `Spec => [](budget.faults = 0 => HeldByLiveMatch)` |
| `NothingOversold` | `Spec => [](budget.faults = 0 /\ Written => NeverOversold)` |
| `SwapEngineProofs` `NeverFundedTwice` | `Spec => []FundedOnce` |
| `NothingLeftBehind` | `Spec => []LeftWithNothing` |
| `FundedAgainst` | `Spec => []FundsWhatIsThere` |
| `ReleaseIsSafe` | `Spec => []ReleasedAlone` |
| `KeysWipedLast` | `Spec => []SettledForGood` |
| `LspAccountsProofs` `LedgerKeepsAccount` | `Spec => AccountKept`: the refinement of `Account` |
| `NothingOverdrawn` | `Spec => []NeverOverdrawn` |
| `RequestsActOnce` | `Spec => []ServedOnce` |
| `EveryChargeExact` | `Spec => []ChargedExactly` |
| `HeldGoesOneWay` | `Spec => [](height < Deadline => HeldOnce)` |
| `IndexProofs` `StoreAlwaysChain` | `Spec => []StoreIsChain`, whatever stops lose of the unlogged writes |
| `ViewsAreOneChain` | `Spec => []ViewIsOneChain` |
| `AnswersAreIndexed` | `Spec => []ServedIsIndexed` |
| `FatalIfDeep` | `StartHeight = 0 => (Spec => []FatalOnlyIfDeep)` |
| `NodeIsWaitedFor` | `StartHeight = 0 => (Spec => WaitsForNode)` |
| `AnswersAreMined` | `LookupSpec => []SpentWasMined` |
| `DeviceLockProofs` `NodeIsOne` | `Spec => []OneNode` |
| `LockHeld` | `Spec => []HeldUnlessTaken` |
| `LockGivenBack` | `Spec => []NothingLeftHeld` |
| `TakeoverRespected` | `Spec => [][NoticedUnlessReset]_vars`: `TakeoverNoticed` up to the case that refutes it |

Each module also has `Invariance`, `Spec => []IInv`, from which the others
follow (in `IndexProofs` they are `StoreInvariance` and `LookupInvariance`), and
all but `Watchtower` and `IndexSync` a theorem for `TypeOK` (in `Outspend` it is
`OneScanAtATime`, since its type invariant says who holds the output's slot).

The hypotheses need a word. `XbtFundingStands` (an XBT funding once
broadcast is not evicted, the XBT locktime is not 0) is what the watchtower
relies on when an XBT node cannot tell a spent output from an unknown one;
section 5 has what happens without it. `Written` says that every match names
two stored offers: the state after a write of a pair was refused for a recovery
tag in use falsifies it, and section 5 has that case too; `budget.faults = 0`
excludes failed writes, as the run does by `MaxFaults = 0`. `height < Deadline`
is the height up to which the payer of a held payment cannot have it back; the
run stays below it. `StartHeight = 0` says that the index starts at the genesis
block; it is necessary, and section 5 has the case without it.

`EnoughTime` is the answer to how far apart the locktimes have to be. An *upset*
is a change of the going feerate or an eviction of a spend; there are at most
`MaxRates + MaxEvictions`. The hypothesis asks that

- `RedeemMargin` exceeds the number of upsets: an initiator that shows the
  preimage at the last moment still gets the BTC leg before its locktime, since
  every unit of time without an upset mines what pays the rate;
- `XbtLock >= BtcLock + upsets + 2`: from the BTC locktime on one unit settles
  the BTC leg, by the refund or by a late redeem that shows the preimage; one
  more mines the participant's XBT redeem; each upset costs one unit;
- the BTC leg is funded before its locktime, fundings are not evicted;
- no stop falls between a broadcast and the write of `sent_prevout`, and a phone
  that broadcasts its own spend pays the dearest rate. Both are findings of
  section 5, not properties of the code.

The unit of time is that of `Tick`: a pass of the watchtower and a block. The
code's margins are hours (`REDEEM_MARGIN_SECS`, the difference of the locktimes)
and a pass is a minute, so the inequalities leave room for many upsets. They
suffice; they are not claimed to be the weakest.

### The inductive invariants

No safety property above is inductive: each is about a stored record, and what
writes the record is an actor whose checks were made some steps before. An
`IInv` says what each actor still knows when it writes. TLC checked every `IInv`
as an invariant of its module's run before it was proved, that of `OfferBook`
with a failed write and with refused tags as well, that of `LspAccounts` past
the deadline too.

**SwapMatch.**

- `ThreadInv`: past its check a `funded` or a `record` still names an outpoint
  that pays the leg (the chain cannot change what a transaction pays); past
  `record_leg_funding` the recorded funding *is* the thread's outpoint, which
  is what makes `PutWatch` safe without the lock; before a push, what the
  message says is stored.
- `LockHeld` and the `lifted` conjunct of `ThreadInv`: between `remove_strike`
  and `put_match` of a reinstatement the lock is held, so the match is still
  eligible — not released — when its status goes back to participant_funded.
  This is the step `ReleasedStaysCancelled` depends on; without re-checking
  `eligible` under the lock it fails. The watchtower's `cancel` between its
  two writes is the mirror image (`TowerInv`).
- `MatchInv`: a missed match is cancelled and was accepted and funded by the
  initiator, so its reinstatement has the evidence `FundedOnEvidence` asks for.
- `TowerInv`: the copy `close_if_spent` compares with has a funded status, so
  closing is a step forward.

A lemma `KeptStep` (what is stored stays stored: keys, accepts, fundings,
deadline, release) carries the invariants of the *other* threads.

Three properties have an invariant of their own beside `IInv`:

- `OnceInv`, for `RelayedOnce`: what was relayed, or is about to be, was decided
  (`Said`: the guard of the handler that would relay it again is false), and of
  all threads only one is about to push it. What was decided stays decided
  (`KeptStep`, `OnwardStep`), so a second handler cannot begin; a crash before
  the push loses the message, it never repeats it.
- `CloseInv`, for `ClosesOnlySpent`: while nothing was taken back, a recorded
  funding, and one a thread is about to record, exists, so "not unspent" means
  spent; what `close_if_spent` read is still spent when it writes, and its
  comparison of the fundings under the lock covers the rest.
- `StrikeInv`, for `StrikesExact`: the strikes are those of the match as it is
  stored, or as the holder of the lock is about to store it (`Struck`): struck
  and not yet cancelled, or lifted and not yet reinstated.

**Watchtower.** A job ends only on "spend confirmed", and the XBT answer is
also given for an output that is unknown. So the invariant is about when the
XBT output is known: `XbtInv` (it is broadcast, mined before the first unit of
time is over, and buried when the BTC one is broadcast), `XbtSpentMined` (it is
spent only past its locktime or with a preimage that the BTC leg showed, also
when a pass saw it some steps ago), and `DoneInv`, which extends the property to
the snapshot the pass works from and to the copy it is about to store.

`WholeInv`, for `NobodyLosesBoth`, is a race against the clock written as an
invariant. `InitiatorInv`: once an honest initiator showed the preimage
(`Committed`), its redeem is mined or `now` is at most the last moment plus the
upsets so far, and at exactly that moment the redeem is minable or its job lies
ahead in a pass that has not begun (`RedeemDue`). An upset moves `now`'s bound
by one; `Tick` cannot pass it without one, because it waits for the pass and for
the miner. `ParticipantInv` is the same for a participant that handed both jobs
over (`Handed`): resolved, or the BTC leg is due (`SettleDue`), or the XBT claim
is, one unit later (`ClaimDue`). `PassInv` (a pass is of one instant and its
copies are the stored jobs), `LegsInv` (refunds only past the locktime, redeems
only with a public preimage) and `SentInv` (a spend that waits pays the dearest
rate, or its job knows it for its own and will raise the fee) are what makes a
job that lies ahead do what is needed when the pass comes to it. `SentInv` is
where a stop between broadcast and write would break the argument. TLC checked
`WholeInv` on three instances that satisfy `EnoughTime`.

**OfferBook.** What happens to the book is one of five kinds of step (an offer
is stored; a match is made and its offers settled; a match goes on; it is
cancelled and its offers released; open offers leave), and each action is shown
to be of a kind. `WithinLimits` and `PostedOnce` are kept by every kind because
prices, limits and client ids never change once stored; the first also needs
that rounding down twice, amount to amount at a price and back, stays on the
right side of both limits (`RoundTrip`, `PriceOrder`). `NeverOversold` needs the
stronger balance `BooksBalance`: `Owed` counts not only the live matches of an
offer but also those cancelled for a missed funding that may still be
*reinstated*, and `Rest` counts what a matched offer would get back on release.
Their sum never exceeds what was posted.

**SwapEngine.** What a phone's record says of the chains: a funding that can
still land is the one saved as pending (`FundInv`), so a stop between signing,
sending and saving leaves nothing the record does not know; what the record
calls the other's funding is buried (`TheirInv`); whatever may reveal the
preimage stands on a buried BTC leg (`PreimageInv`); signatures for a release
come from a participant that left (`SigsInv`), and a swap that was left is never
taken up again (`StepInv`).

**LspAccounts.** `Money` (no two holds share an id, no account reserves more
than it has), what each of the two threads remembers between two ledger calls
(`ApiInv`, `MainInv`), that an event about a payment says how it ended
(`QueueInv`), and that a served request is remembered while it could be served
again (`NonceInv`). Money moves in five ways (a hold is made, ended or renamed,
a payment is credited, a transfer is made); each is a step of `Account` or a
stutter, and each action is one of the five or moves nothing, which is the
refinement. `HeldInv`, for `HeldGoesOneWay`, ties the state of a held payment in
the ledger to the one forward that may deliver it, to the credit and to the
payer's money, in each window of the main thread between the call and the row
that records it. `ChargeInv`, for `EveryChargeExact`, is a second balance beside
`Money`: what an account was debited is what its settled payments and its
withdrawals cost, unless one of its holds is nobody's (its thread stopped before
it could end it). It follows every hold to its payment
(`HoldInv`), every pending payment to its hold (`SendInv`), and has that an
invoice not asked for again is sent at most once (`OnceInv`).

**IndexSync.** The store is compared with what it should be: `IsIndex(d, c)`
says that the tables of `d` are those that applying the blocks of chain `c` one
after the other gives, and the lemmas about `apply` and `rollback` show that
one leads from the index of a chain to that of the next block's, and the other
back, undo record by undo record; this is where `ValidChains` is used. `IndexInv`
then has that the store and the thread's table are of one chain and that what
bulk holds follows it (`Synced`), that a stop leaves the index of *some* chain
and exactly the store unless `bulk_dirty` (`DiskInv`), that the published table
lags only between a write and its publication (`ChainInv`), and that a view is
of one chain (`ReaderInv`). `UndoInv`, for `FatalIfDeep`, says how deep the undo
records reach: there is a height `m`, the highest tip the node had when a block
of the store was looked up, such that the store agrees with the node's highest
chain up to `MAX_REORG_DEPTH` below `m` and has an undo record for every block
above; the same of what is fetched and of the disk. Unless the node leaves more
blocks at once, the rollback then meets the node's chain before the records end.
`WaitInv`, for `NodeIsWaitedFor`, is the case of a node that leaves none: all
that was stored or looked up is on the highest chain the node has had, so our
tip is on the node's chain or above it, and above it `unwind` waits. No run
keeps `WaitsForNode`; TLC checked it and `WaitInv` on the instance of
`index_follows`.

**Outspend.** A request under way has seen the node's present chain
(`SeesNode`) and what is remembered as found holds the spend (`FoundHolds`).

**DeviceLock.** On one phone: who owns the claim, which lock operation works for
whom, which generation a run has, and who will give the version in the slot back
(`ClaimInv`, `OpInv`, `GenInv`, `SlotInv`). Between phones: a version that a
phone still `Knows` is that of its own record, or smaller than the record's once
it was ousted (`KnowsInv`) — until a reset, which is the finding.

**Sums.** The balances are sums over sets of rows (`SumFunctionOnSet` of the
community modules, defined by recursion on the set). `Sums` proves what the
other modules use of them: a sum does not depend on the order, adding, removing
or changing an element changes it by that element, sums are monotone. Induction
on the size of the set is done as a least-counterexample argument from the
well-foundedness of the natural numbers, because the library's induction
theorems, which take an operator, cannot be instantiated here.

### Only model-checked

Every invariant and every action property of a passing run is a theorem.

- Liveness is outside the prover's reach: `FundedMatchEnds`,
  `InTimeFundingKeepsSwap`, `LegsSettle`, `BookClears`, `CoinsSettle`,
  `RefundsRecorded`, `CatchesUp`, `SpendIsFound`, `OldDeviceStops`.
## 5. Findings

`device_lock_unnoticed`: the device lock is written at the version last seen,
and a version says nothing of who wrote it. Phone A holds version 1 and is
asleep; phone B takes over (version 2), is stopped (the record is deleted) and
is started again (version 1). A's next check rewrites version 1: it succeeds,
A runs on, and B, whose record it replaced, is the one that stops; a stop of A
instead deletes B's record. The comments say that the old phone notices the
takeover at its next check and leaves a record alone that is not its own; the
lines are quoted in `PROJECT.json`.

Further cases that no run is kept for, and how to see each with TLC. In the
swap service:

- *The initiator walks away.* When a refund watch recorded the XBT funding and
  the initiator's `funded` never comes, the match stays accepted for ever: the
  deadline wants `xbt_funding` to be none, closing wants a funded status.
  `SwapMatchLive.cfg` with `AcceptedMovesOn`.
- *The watchtower forgets its refund.* A stop between broadcast and the write
  of `sent_prevout` makes it take its own refund for somebody else's; it does
  not raise the fee any more. `WatchtowerSettles.cfg` with `"store"` in
  `CrashAt` and `MaxFaults = 1`: `LegsSettle`.
- *A stalled redeem.* Nobody raises the fee of the XBT redeem the participant's
  phone sent itself, although the waiting job holds dearer variants; after the
  XBT locktime the refund can replace it. `WatchtowerWhole.cfg` with
  `PhoneFees = {1, 2}`: `ParticipantWhole`.
- *An evicted XBT funding ends its refund job.* "Spent or unknown" reads as
  spent. `WatchtowerWhole.cfg` with `EvictableFunding = {"xbt"}`:
  `DoneMeansSpent`. The funding has to be mined later for coins to be at stake.
- *A take matches twice.* Two copies of one take served at once both pass the
  client_id lookup, which `take_public` does not repeat under the lock.
  `OfferBookTrades.cfg` with `Requests <- RetryRequests`: `TakenOnce`.
- *A recovery tag in use.* The second of two such takes is refused after its
  match was stored; the match is cancelled later and gives back an amount that
  was never taken off the offer. `Requests <- TagRequests`: `NeverOversold`.
- *Double strike.* `add_strike` and the cancelled match are two puts: a crash
  between them strikes twice, and a reinstatement lifts one. Remove
  `faults = 0` from `StrikesExact` and set `MaxFaults = 1`.
- *Offers held by a dead match.* A failure between the puts of `cancel` or of
  `pair` leaves an offer matched to a cancelled match, or to none that knows
  it. `OfferBookTrades.cfg` with `MaxFaults = 1`: `HeldByLiveMatch`.
- *MAX_OPEN_OFFERS.* It is checked before the lock: two concurrent posts pass
  it together.
- *Purge* holds no matching lock (not modelled): a match reinstated, or a job
  stored, between its snapshot and its delete loses its record, and a
  handler's later `put_match` brings a purged record back.

On the phone (`SwapEngineSettles.cfg`):

- `SwapDone` with `MaxFaults = 1`: the redeem is sent, its save is lost, and
  the phone is idle until the XBT locktime; it then takes the participant's
  redeem for its own refund and stays in REFUNDING. The coins are safe.
- By reading: the participant's `doneCheck` does not ask whose spend it sees;
  its XBT redeem is not sent again by the phone after an eviction, and neither
  is a funding evicted after `recordFunding` (the watchtower holds redeem and
  refund); while the edge cannot be asked, a refund waits.

In the LSP (`LspAccountsKept.cfg`; each is a definition of `LspAccounts`):

- `ConvertedExactly` with `Scenarios <- MoveScenarios`: a move is planned from
  a snapshot; what the hold debits and what is sent differ by a fee computed
  from other amounts.
- `RoutingFeeOnce`: the reference of a routing fee is the time of handling, so
  an event handed out again after a stop earns twice.
- `ClaimedNotFailed`, `DeliveredOnce`: a stop between `claim_for_hash` and the
  credit, or between the keysend to the phone and the row that says so, writes
  off a payment that was taken, or delivers it twice.
- `ForwardInTime` with `MaxHeight = 3`: a keysend in flight past the payer's
  deadline reaches the phone after the payer was refunded.
- `ChargedExactly` without its first line: after a stop, a phone that pays the
  same invoice again while the replayed event is due is debited twice.

In the index:

- `IndexSyncFollows.cfg` with `StartHeight = 1` and the properties
  `WaitsForNode` and `FatalOnlyIfDeep`: a node that reindexes from below
  `start_height` is not waited for (`nodeTip` is not in the table, so
  `t.get(node_tip)` is none at `sync.rs:107`), and blocks are undone that are
  still valid; once the undo records end, the syncer stops for good with "reorg
  deeper than MAX_REORG_DEPTH" although the node left nothing behind. The
  default of `start_height` on mainnet is 481 824 (`main.rs`), so this is the
  usual case there. The proofs of `FatalIfDeep` and `NodeIsWaitedFor` need
  `StartHeight = 0` at this step (`Behind`) and nowhere else.
- `ScannedHoldNoSpend` added to `OutspendFinds.cfg`: the blocks of one search
  are read one by one; a reorganisation between two makes the remembered
  progress vouch for blocks that were never read.

In the device lock, with one lost answer: a refresh whose answer is lost
leaves the slot one version behind, the conditional delete of the next `stop`
conflicts, and the record stays (`NothingLeftHeld` without `faults = 0`), so
the next phone needs a takeover. The timeout of an old start cancels whichever
start runs by then.

## 6. What is not modelled

The project covers the parts with state that several actors share; most of the
repository's lines are byte formats, cryptography, I/O, user interface and
calls into libraries, about which a state machine has little to say.

Within the modelled parts:

- Swap service: `recover` and `purge`; re-posting a watch job with other
  variants; the token's strike limit (`struck_out`) and the long poll with
  `PollGate`; the reference price. Authentication is taken as given: an action
  of a role is a request that `authed_match` let through. Scripts, signatures
  and transactions are what `LegPaid` and the spend kinds say of them.
- Phone engine: everything before the match (`postOffer`, provisional records,
  `closeBeforeMatch`, `cancelRemainder`), `restoreSession`, a match the edge
  no longer knows, fees and their rises, traces; the grace before a release is
  zero.
- LSP: push notices, balance and history reads (they change nothing); LDK is
  external and modelled by the calls and events the code uses.
- Index: `stop_height`, the schema check, the mempool overlay, the listing
  pages, the secondary reader.
- Device lock: a record that does not parse, `since`, writes that land after
  their caller gave up; the ldk-node is only there or not.

Outside them: Lightning payments, channels, receive, recovery and addresses
(`pay.rs`, `channel.rs`, `recover.rs`, `lnurl.rs`: mostly one call of ldk-node
each, whose semantics would be invented rather than translated); proxies,
caches, prices and tokens of the edge (I/O); wallet core (cryptography and
coin selection over bytes); daemons, bindings and user interfaces.

## 7. Plan

In this order, the most valuable first:

1. *Proofs.* Every invariant and action property the runs check is proved.
   Left are weaker hypotheses: a smaller distance of the locktimes than
   `EnoughTime` asks for, and `HeldOnce` past the payer's deadline in the cases
   where it still holds.
2. *The rest of the swap service.* `recover`, `purge`, re-posted jobs, the long
   poll with `PollGate`, in one module over the store's tables.
3. *An abstract swap.* Two coins and who owns them in the end ("both or
   neither"), which `Watchtower` and `SwapEngine` implement.
4. *Small pieces.* The guard against paying an invoice twice in `pay.rs`, the
   token bucket, the edge's cache.

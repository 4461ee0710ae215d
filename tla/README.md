# Venice Capacity Broker: a TLA+ verification project

The broker sells Venice inference capacity. A public storefront (a FastAPI
application) quotes a price, takes payment on Base and issues a scoped Venice
key; an agent loop, in a process of its own, stakes VVV, trades DIEM and
watches utilisation. This directory models the parts of that program whose
correctness depends on the order of events: requests in a thread pool (or in
several processes) that read, wait on a chain or on Venice, and commit to
shared tables; and a loop of agents that sends transactions whose fate it learns
later or never, in a process that may die between any two of them.

## Inventory

| Component | State it keeps | Operations | Hard behaviours | What makes it correct |
|---|---|---|---|---|
| Payment verification (`routers/purchases.py`) | `purchase`, `quote`, `bid` rows; tenant store; challenge nonces in memory | `verify`, `recover`, `challenge`, `get_purchase` | reads and commits in separate transactions around two RPC calls and a Venice call; two requests for one payment; a key whose answer is lost; a crash after the mint; a reorganisation between receipt and head; a quote that lapses or is re-priced mid-way | one payment pays one wallet; every key is paid for; keys reach only their payer; a recorded payment ends in a key |
| Limit bids (`routers/bids.py`, `services/bids.py`) | `bid` rows | create, list, get, stream | lookup then insert; a poll that writes what it classified earlier | a nonce makes one bid; a status tells the truth |
| Settlement (`routers/settlement.py`) | `bid.quote_id`, `quote` rows | settle | reads, prices, persists and links in separate transactions | a link is sound and stable |
| Spot quotes (`routers/quotes.py`, `services/pricing`) | `quote` rows, price cache | quote, persist | the row is written after the reply, or not at all; ids collide within a second, and the later price replaces the earlier | what is paid is a price that was on record |
| Inventory policy (`services/broker/inventory.py`) | a JSON file, a copy per process | save, load, gate | two processes, a torn file, a copy never reloaded | `hot` pauses intake |
| Capacity broker (`agents/capacity_broker`) | usage history, pricing advice | run once | runs beside the API | writes the policy |
| Tenant store (`tenant_store_sql.py`) | `tenant`, `key` rows; a cache per process | upsert, get, all | refresh read outside the lock and published later; objects shared with the cache; other processes' writes | a subkey belongs to its tenant; a process reads its own writes; an old key returns only by a revocation; a revoked tenant is refused |
| Tenant API (`routers/tenants.py`) | limits and idempotency keys in KV | create, rotate, revoke, chat, limits | get-then-set around upstream calls | one upstream call per idempotency key; no lost update |
| Rate limiter (`libs/ratelimit`) | windows in memory or KV | allow | two admission rules, changing limits | no more than the limit in a window |
| StakeMaster (`agents/stake_master`, `services/vvv/staking.py`) | attempts, last claim, last good snapshot (memory); claim and heartbeat times (KV) | `run_once`: automatic first stake, claim, idle stake, heartbeat | restart; a KV write that fails silently; a nonce lookup that fails; a sent transaction whose answer is lost | no second stake over one that waits; one automatic stake; claims an interval apart |
| DIEM client (`services/diem/client.py`, `agentkit_ext/actions.py`) | the `mintDiem` latch; route mutes, circuits, offence counters | mint, burn, wallet-first sell and burn, buy and burn, swap and stake | snapshots older than the transactions sent on them; mint retries after a timed-out confirmation; one part of a call that fails | one mint per decision; what is minted is sold; what is bought is staked or noted |
| ArbiDIEM agent (`agents/arbi_diem/agent.py`) | campaign, pacing, planned step, unstaked VVV | simulate, trade, recover | a step planned in one cycle and run in a later one; decisions that overlap in the pool | a campaign stops at its target; locked sVVV comes under its cap |
| Orchestrator (`graph/workflows/orchestrator.py`) | progressive counter, sticky halt, streak, pending recovery, stake recommendation | `run_cycle`, `run_loop` | a cycle that raises, or times out; a restart | live only after good cycles in a row; a failure halts trading; a trade has a price |
| Guardian, reflection (`agents/reflex`, `services/memory`) | two streaks; cycle records in SQL, a file, a buffer | evaluate; record, recall, reflect | records lost or stale | the price guard's bypass is earned and bounded |
| Quorum (`agents/quorum`) | none | four models and a weighted vote | a refusal outvoted by the others | no recovery in a halted cycle without everyone else |

The rest (market data, DEX encoding, wallet plumbing, the admin and
diagnostic routers, the CLI, configuration, telemetry) is arithmetic over
external data or pure input and output; `PROJECT.json` lists each part with
the reason it is left out.

How they interact. The storefront's handlers call each other only through the
database: settlement writes the quote that verification reads, verification
fills the bid that the stream polls, purchases upsert the tenant that the
tenant API authorises. The capacity broker reaches the storefront only
through the policy file. The agents reach each other only through the
orchestrator, which calls them in turn: StakeMaster's outcome feeds the
guardian, the vote and the progressive counter, the guardian's halt decides
whether ArbiDIEM trades or only runs the recovery it planned, ArbiDIEM asks for
a stake through a recommendation handed to StakeMaster in the next cycle, and
the record of a cycle is what the next one's price guard and guardian read.

## Modules

| Module | Models | Extends |
|---|---|---|
| `Purchases` | payment verification and key issue, its environment (chain, clock) | standard modules |
| `KeySale` | what the storefront promises of a sale: the abstract specification | standard modules |
| `BidBook` | bids, the stream, settlement, spot quotes, the inventory policy | standard modules |
| `BuyFlow` | `BidBook` and `Purchases` composed over one bid and one quote table | `BidBook`, `Purchases` by `INSTANCE` |
| `TenantStore` | the SQL tenant store, its cache per process, and create, rotate, revoke and purchase as they use it | standard modules |
| `KeyService` | what the tenant store promises of subkeys; `TenantStore` is shown to implement it | standard modules |
| `StakeMaster` | one `run_once` over the staking contract, the wallet and the KV store | standard modules |
| `Reflex` | the guardian and the reflection, as functions | standard modules |
| `AgentQuorum` | the four models and the weighted vote, as functions | standard modules |
| `AgentLoop` | the orchestrator's cycle around the three | `StakeMaster`, `Reflex`, `AgentQuorum` |
| `DiemDesk` | the DIEM client and the chain actions under it: mint, sell, burn, buy, swap, stake | standard modules |
| `Recovery` | the ArbiDIEM agent over the desk: pacing, campaigns, planned steps, trades | `DiemDesk` |
| `MCPurchases`, `MCBidBook`, `MCBuyFlow`, `MCTenantStore`, `MCAgentLoop`, `MCRecovery` | the small instances TLC checks | the module each names |
| `PurchasesProofs` | invariants of `Purchases` for every value of the constants | `Purchases`, `TLAPS` |
| `KeySaleProofs` | `Purchases` implements `KeySale` | `PurchasesProofs` |
| `BidBookProofs` | types, sound links, one bid per nonce and stable links of `BidBook` | `BidBook`, `TLAPS` |
| `TenantStoreProofs` | types, ownership of subkeys and freshness of `TenantStore`; it implements `KeyService` | `TenantStore`, `TLAPS` |
| `StakeMasterProofs` | what every step of `run_once`, the chain and the clock keeps | `StakeMaster`, `TLAPS` |
| `BuyFlowProofs` | filled bids and links of `BuyFlow`; it implements `KeySale` | `BuyFlow`, `BidBookProofs`, `KeySaleProofs` by `INSTANCE` |
| `AgentLoopProofs` | types and safety of `AgentLoop`, and what the weights of the vote allow | `AgentLoop`, `StakeMasterProofs` |
| `RecoveryProofs` | types and all five safety properties of `Recovery` | `Recovery`, `TLAPS` |

### Purchases

A request is a record `job[w]` with a program counter that stands between two
accesses to shared state; what the handler keeps in local variables across
them is in the record (`seen`: the row the session first loaded, `price`: the
quote's when it was read, `block`: the receipt's, `claimed`: the row found
after an `IntegrityError`, `bid`: `linked_bid`, `key`: the key just minted).
One action is one uninterrupted stretch of `_execute_verified_purchase`:

| Step | Action | Code |
|---|---|---|
| `purchase` | `ReadPurchase` | the purchase lookup, the 409 for another quote |
| `quote` | `ReadQuote` | quote lookup, early return of a fulfilled purchase, expiry, status, linked bid |
| `chain` | `ReadReceipt` | token binding, the receipt of `_verify_tx` |
| `head` | `ReadHead` | the head block, the depth of the receipt under it, underpayment |
| `tenant` | `CheckTenant` | override, allowlist, owner |
| `claim` | `Claim` | the commit of the purchase row; the `IntegrityError` path |
| `mint` | `Mint`, `MintLost`, `MintFails` | `issue_scoped_key`: a key, a key whose answer is lost or carries none, no key |
| `store` | `SaveTenant`, `SaveTenantFails` | `_store.upsert` |
| `fulfil` | `Fulfil` | purchase, quote and bid in the last commit |
| `failed` | `RecordFailure` | the `except` branch and the same commit |
| `reply` | `Reply` | the result, read back from the row |

`Crash` may follow any step. `Block`, `Reorg`, `PersistQuote` and `Lapse` are
the environment. Receipt and head are two RPC calls, each over a list of
nodes: a receipt may name a block that a reorganisation has dropped
(`chain.stale`), and its depth is taken under a head read later. The model
assumes that a transaction that stands at `MinConf` is not dropped any more,
which is what the setting is for. A quote id is made of the second, the asset
and the units, and the price is read before that second from a cache of each
process, so `PersistQuote` may meet a row of its id and gives it a new price;
`listed` remembers the prices a quote has been on record at. SQLAlchemy writes
only columns that differ from the value an object was loaded with, and a
commit or rollback expires what was loaded: `ClaimRow` leaves `status` alone
when it rewrites a loaded row, `RecordFailure` writes it after a commit and not
after an `IntegrityError`.

Two requests for one payment break what one at a time keeps. `raced` is a
history of the payments that two requests were ever in progress about at once;
no step reads it, and the properties that need a payment to have been worked
on by one request after another (`ExtraKeysNeedFaults`, `HandedIsOnRecord`,
`FulfilledIsFinal`) are stated of the others.

Abstracted: hashes, addresses and ids are model values; the default tenant of
a wallet is the wallet; `Paid` sums the transfers of a wallet in an asset. A
request has passed the signature gate, so the challenge store is absent.
`_store.get` reads the tenant as stored (the staleness of its cache is the
subject of `TenantStore`). `settlement_confirm` is the same handler under another
path, and `purchases_stream` and `get_purchase` only read.

### BidBook

`clerk[c]` is a request at an access to the bid or quote table. The clearing
price moves freely, so a live bid may classify any way (`Verdicts`), while a
bid overdue when the clock was read is expired. Settlement prices a bid anew
each time (`SettlePrice`, over any price within the limit) and persists under
an id that another bid or a spot quote may have been given before (`Record`,
`PersistSpot`); where there is no price, or the write fails, nothing is kept
(`SettleUnpriced`). The policy is `torn` between `StartSave` and `SavePolicy`;
`cached` is the API process's copy, emptied only by `Restart`. A signed intent
is a member of `Offers`, and its bid id is a hash of its fields, so the offer
stands for the id. `contested` is the history of the intents about whose nonce
two requests were in progress at once, as `raced` is of payments.

### BuyFlow

Every step is a step of `BidBook` that leaves the purchase state alone or a
step of `Purchases` that leaves the book's alone. Quote rows are written by
the steps of the book, so that a spot quote is persisted only after it was
handed out; otherwise the two share `bids`, `quotes` and `listed` as the
handlers share their tables. Here `Purchases` is not given a bid to start
with: it meets those that settlement has really linked, with the record fields
settlement writes.

### TenantStore

`job[w]` is a request that works on one tenant (`purchase`, `create`, `rotate`,
`revoke`) or fills an empty cache (`list`). Its program counter stands between
two accesses to the tables or the cache:

| Step | Action | Code |
|---|---|---|
| `get` | `GetCached`, `GetRow` | `get`: the cached object, or a copy of the row |
| `put` | `PutRow` | the copy goes into the cache, under the lock |
| `act` | `Answer`, `Mint`, `Revoke` | what the handler does with what it got |
| `load`, `commit` | `Load`, `Commit`, `CommitClashes` | `upsert`: the row loaded, the key row stamped, the commit |
| `rows`, `keys`, `publish` | `ScanRows`, `ScanKeys`, `Publish` | `_refresh_cache`: two reads outside the lock, the swap under it |

`DatabaseFails` ends a request at any statement and `Restart` a process at any
moment. `live` tells whether the object a request holds is still the cached
one: `revoke_tenant_key` assigns to it, and the cache sees that only while they
are one object. A tenant's key rows are reduced to the latest by `created_at`,
which is stamped before the commit, so commits and stamps may disagree in
order; `written` is the history of the rows that have been the latest. A
revocation upserts the object it found, old key and all, and `again` marks the
row it makes. `create_tenant` is a coroutine that never awaits, so one runs at
a time in a process, beside the thread pool. `crowded` is the history of the
processes in which requests overlap: a process leaves it when it is idle.

### KeyService

The key rows each tenant has had on record, and for each process the row it
serves. `Issue` mints a subkey for a tenant. `Write` puts a newer row on
record: with a key that was never there, or, where a revocation wrote it, with
one that was. `Serve` lets one process look again, wholly or in part, and
answer what it has written. What a process serves was always on record, hence
its tenant's. It never goes back to an older row, nor answers a write it does
not serve, unless requests of its own overlap. A newer row may hold an older
key, and that is as much as the code promises: a revocation in one process
re-inserts the key its cache holds above one that another process has rotated
in since (`src/apps/broker_api/routers/tenants.py:235`). A key comes back in no
other way, which is what `again` lets the specification say. The refinement
mapping of `TenantStore` takes `written` for the rows, the caches for the
views, and the upserts of requests about to reply for the answers. The status
of a tenant is left out: there the store promises less, as `TenantStoreRevoke`
shows.

### KeySale

Six sets, functions and sequences and no requests: payments seen on the chain,
prices each quote was offered at, sales, keys, keys given, quotes filled. The
mapping in `Purchases` (`Sale`) reads as seen a payment that stands at the
required depth or that a reorganisation has dropped from a block once, as
offers `listed`, as a sale a purchase row, as a key an issued key; everything
else a request does is a stutter. It says in one formula that whatever the
threads, retries and crashes do, the outside sees payments sold once, to one
wallet, keys issued on a sale and covered by it at a price the quote was
offered at, given only to their wallet. It does not say that a sold payment
stands: see "Observed, not run".

### StakeMaster

`run` is one `run_once`, with a step before every transaction and every read a
transaction depends on:

| Step | Action | Code |
|---|---|---|
| `status` | `ReadStatus` | `StakingService.status`, with the last good snapshot where the read fails |
| `auto` ... `auto read` | `AutoCheck`, `AutoApprove`, `AutoStake`, `AutoRetry`, `AutoRead` | the automatic first stake: attempts, nonce gate, overflow backoff, the retry with more gas under the old nonce, the second status |
| `claim`, `claimed` | `Claim`, `RecordClaim` | the pre-flight chain on interval and value, the KV write |
| `idle` ... `idle stake` | `IdleBalance`, `IdleNonce`, `IdleApprove`, `IdleStake` | the idle stake behind its limits and its gate |
| `beat`, `beaten` | `Beat`, `RecordBeat` | the heartbeat, sent when due or when the stake is inactive |

`chain.pending` holds what the node has taken and not mined, in nonce order;
`Mine` applies or reverts its head at any moment. A profile names the kinds of
failure its environment may show; a behaviour shows at most `MaxKinds` of them,
each as often as it likes, and remembers which in `faults`. Dollar values of a
reward are five cases (`Values`), one for each outcome of the comparisons.

### AgentLoop, Reflex, AgentQuorum

`loop.pc` is the phase of a cycle. `Begin` fixes whether it is live, `StakeStep`
and `StakeDone` run StakeMaster, `Survey` reads the market (or `Abandon` ends
the cycle, since a live price request may raise) and asks guard and guardian,
then one of `TimeOut`, `Halted`, `Guarded` and `Simulate` decides, `Trade` or
`Recover` acts, and `Finish` reflects, records and moves the progressive
counter. `Sleep` lets the clock run, `MineTx` the chain; `Crash` keeps only the
chain, the KV store and the record file.

`Reflex` and `AgentQuorum` are pure. The vote is exact: confidences and weights
are scaled to integers, so that whether 57 % of the weight passes a threshold
of 55 % is decided as in the code. `store` keeps, of the cycle records, what the
loop reads back of them: the run of guarded cycles, the last price and the last
errors. A price that `market.prices` could not fetch in time is left out of its
reply and counts as 1.0 from there on, which nothing skips (`Quoted`, `missing`);
an invalid one counts as 0. The reflection cannot read a mint or a sale without
a buy: its summary holds `"buy": None`, `reflect` raises on it, and the loop
swallows that, so those failures (`Unread` outcomes) arm no halt. Where SQL fails and the fallback is allowed the records go to a file,
which is then read in preference for ever after (`Recent`).

### DiemDesk and Recovery

`DiemDesk` holds the wallet (`acct`), the transactions not mined (`pool`), the
memory of client and agent (`desk`) and the call in progress (`run`), whose
`look` is the snapshot the decision was made on. `Recovery` adds the decisions:

| Step | Action | Code |
|---|---|---|
| `idle` | `Simulate` | the simulated `evaluate_and_maybe_mint` every cycle begins with, and the step of recovery it may plan |
| `planned` | `Rest`, `RunPending`, `Decide` | no action; the planned step in a halted cycle; the decision in earnest |
| `decided`, `weighed` | `Recover`, `MintAndSell`, `HoldShort`, `SpotSell`, `BuyAndBurn`, `Hold` | the branches of `evaluate_and_maybe_mint` |
| `sale` ... `offer` | `SellFirst`, `CheckMint`, `SendMint`, `AwaitMint`, `OfferMinted` | `wallet_first_mint_and_sell` over the mint loop of `actions.py` |
| `cover`, `burn`, `buy` | `CoverBurn`, `BurnWallet`, `BuyRest` | `wallet_first_buy_and_burn` |
| `owed`, `swap`, `settle` | `StakeOwed`, `SwapForVVV`, `SwapTimesOut`, `StakeSwapped` | `_execute_capacity_recovery_buy_vvv_and_stake` |

A transaction the wallet does not cover when it is mined reverts; so may a
trade whose price moved. Prices, fair values and previews are not modelled: a
market is one of four modes, the risk policy wants any of a few amounts and may
shrink a step, and `picky` environments turn anything down. USDC is a budget
that only falls, which keeps what can be bought finite. Time is counted in
cycles. `clean` marks what was decided with nothing in the pool, `minted` counts
the mints of one decision that may have worked: both are history, which the
properties need and no guard reads.

## Runs

| Run | Instance | Result |
|---|---|---|
| `PurchasesRace` | 2 threads, 2 wallets, 1 payment with transfers of both, 2 quotes of different price, 2 keys, 1 fault | who may hold keys, what payments keep whose requests did not overlap, and the refinement of `KeySale` (1.4 M states) |
| `PurchasesSolo` | 1 thread, depth 2 of 3 blocks, reorganisations, 2 prices of which the payment covers one, a linked bid, 2 keys, 1 fault, fair | keys are paid for, the refinement, and liveness |
| `BidBook` | 1 clerk, 3 intents of 2 wallets sharing a nonce, 2 rows, 1 quote id, 2 prices, a policy that turns hot | types, sound links, one bid per nonce (0.7 M states) |
| `BuyFlow` | 1 clerk and 1 worker, 2 rows, 2 quotes, 1 key, all prices and limits one, so rows and quotes are symmetric | filled bids have their key, links are stable (1.0 M states) |
| `TenantStore` | 2 processes of one thread, 2 tenants, 2 keys, 3 upserts, database failures, restarts | own subkeys, own writes read, and the refinement of `KeyService` (1.6 M states) |
| `AgentLoop` | ten profiles of the environment, two kinds of failure each at most | stakes and claims not doubled, the bypass earned and bounded, failures that can be read halt trading, a healthy loop goes live and hears its recommendations (0.6 M states) |
| `Recovery` | ten profiles of the desk's environment | mint retries, overlapping decisions and half-failed recoveries leave nothing stranded, campaigns stop and relieve (0.6 M states) |
| `PurchasesOneKey` | as `PurchasesRace`, no fault | two keys for one payment (finding) |
| `BidBookNonce` | 2 threads | two bids for one nonce (finding) |
| `BidBookHot` | policy open, then hot | intake goes on (finding) |
| `BuyFlowFilled` | as `BuyFlow` | a filled bid is reclassified (finding) |
| `TenantStoreRevoke` | 1 process of two threads, no failure | a revoked tenant is served as active (finding) |

Bounds. `MaxKeys` and `MaxFaults` bound the counters; a third key or a second
fault repeats the situation of the second. Two threads are the smallest number
that race, and a request touches one payment, one wallet and two quotes at
most (its own, and that of the recorded purchase), so one payment, two wallets
and two quotes contain each conflict; the proofs remove the bound for the
safety properties. `Paid` gives one wallet the price of both quotes and the
other one base unit less than the cheaper quote, inside the tolerance of one
percent, so the underpayment floor decides; at the higher of two prices it
falls short. A depth of two in three blocks is the least in which a receipt can
be read at depth one, its block dropped, and the depth be met all the same. Two rows of bids suffice for one
duplicate. `BuyFlow` asks nothing of prices, which `BidBook` and `PurchasesSolo` vary. In
`TenantStore` three upserts let a key be written, written again and revoked; a
second tenant is there for a key to stray to, and a second process for writes
to come from.

The agents' modules take their environment from a profile, a record that says
how the wallet begins, what readings may come and which failures may happen.
Each profile lets one part vary and holds the rest calm, so that the state
space is a sum over the profiles and not their product:

| `AgentLoop` profile | What varies |
|---|---|
| `Healthy` | nothing staked at first, rewards, recommendations; no failure |
| `Sending`, `Reading` | sends, lost answers and nonce errors; reads that fail |
| `Beating` | a stake too small for the automatic one, failing heartbeats |
| `Claiming`, `Answering` | claims over a failing KV store and restarts; over lost answers |
| `Pricing`, `FilePricing` | the price guard, timeouts, raised cycles, lost records; stale records |
| `Halting` | failing legs and stake steps, drawdowns, provider errors |
| `Recovering` | recovery through a halt, with low, high and extreme utilisation, with and without a premium |

| `Recovery` profile | What varies |
|---|---|
| `Quiet` (with and without the bypass of pacing) | nothing fails: a campaign from 80 % locked |
| `Trading` | decisions at a premium and a discount that overlap in the pool |
| `Minting`, `Selling`, `Blind` | timeouts and lost answers; reverts and restarts; unreadable balances and a contract without `mintDiem` |
| `Burning` | more DIEM than the locked sVVV lets burn |
| `Staking`, `Cutting`, `Swapping` | recoveries that fail half way: at the stake, in the overflow backoff, at the swap; `Swapping` begins with more VVV than the wallet buffer |

Their bounds: `MaxTime` 2, `ClaimInterval` 1, `BeatInterval` 2 and `HaltTTL` 2
let each interval be entered and waited out; `MinStreak` 2 and `StreakCap` 4
leave room below, between and above; `MaxAttempts` 2 has a first, a last and
the failed read after the last; a `Threshold` of 2 can be lost half way.
`MaxPending` is 4 because approval, stake, claim and a second approval can wait
at once (at 3 the sender itself would wait, and a healthy loop might not go
live). In `Recovery`, `Rate` 2 tells DIEM from sVVV and makes burns round,
`MaxRetries` 2 has one retry, `MaxPool` 3 holds a decision's transactions and
one of the next decision, and cap 6 and target 5 of 10 leave a wallet of ten
sVVV a campaign of two steps. `MinInterval` and `Hour` are 2, so that pacing and
the limit of mints each hold a cycle back.

Overlapping requests. Some of what the handlers keep is broken by two requests
at once: `OneKeyPerPayment` (`PurchasesOneKey`), `OneBidPerNonce`
(`BidBookNonce`), the stability of links, and what a process serves after a
stale refresh (`TenantStoreRevoke`). Nothing in the code prevents the overlap,
so no run and no theorem assumes it away. The properties speak instead of what
was not worked on by two requests at once, by the histories `raced` (of
payments), `contested` (of nonces) and `crowded` (of processes), while any
other requests race. `PurchasesRace` checks them so with two threads. `BidBook`,
`BuyFlow` and `TenantStore` have one clerk, or one thread in a process, within
TLC's reach, and there their theorems do the rest: they hold for any number.

Deadlock is checked in every run: a worker is always able to take a request,
a process to restart, and a loop to begin its next cycle.

Fairness. Safety needs none. `FairSpec` assumes that a thread once started
runs on (`WF` of `Progress`), and, for a recorded payment, that the buyer goes
on asking to recover it and that an RPC, Venice and the tenant store each
succeed if asked again and again (`SF`). It does not assume that a quote stays
open or a process alive: crashes are bounded by `MaxFaults`. `SF` and not `WF`
because each of these is disabled again whenever the request ends.
`ClaimedIsFulfilled` is about a payment that has been recorded and stands: one
confirmed only after its quote lapsed is never recorded, and nothing is promised
of it. Nor is it of one whose quote has meanwhile been given a price that it
does not cover, since every retry compares the payment with the price now on
record.

`AgentLoop` assumes `WF` of `Cycle`: the loop runs in a thread of its own and
every external call has a timeout, so a cycle goes on. Neither mining nor the
clock is assumed fair there. `Recovery` assumes `WF` of the agent with its
client, for the same reason, and `WF` of `Mine`, since what a decision waits
for must be mined for the campaign to end. The liveness claims are made of
environments without failures (`env.faults = {}`, `env.calm`) only: under
failures the code promises none.

## Proofs

`PurchasesProofs` proves, for any finite or infinite sets of workers, wallets,
payments, quotes, prices, bids and tenants, under `ConstantsAssumption` only:
`TypeCorrect`, `OneBuyer`, `PaidFor`, `Handed`, `Filled`, `OwnTenant`,
`NotRetargeted`, `ExtraKeys`, `OneKeyHanded` and `FulfilledStays`.

The invariant. None of these is inductive: a key is issued on the word of
local state read several commits earlier. `IInv` adds, for each request
(`JobOK`), what the steps behind it have established and nothing can undo:
past `quote` the price is one the quote was on record at; past `chain` the
receipt is of a block the transaction was mined in or dropped from; past `head`
that block is deep enough, so that the transaction stands at depth or was
dropped, and the payment covers the price; past `tenant` the tenant is the
wallet's own or allowlisted; past `claim` the row exists and is this wallet's
and this quote's; past `mint` the key exists and is this request's. It holds
because the shared state only grows in the ways `Grows` lists: rows keep their
wallet and quote, issued keys and listed prices stay, and a transaction leaves
a block only into those it was dropped from. `Grows` is proved once of every
action, each `JobOK` of a request that did not move follows from it (`JobKept`,
`JobsKept`), and each action then owes only the conjuncts about its own
request and the tables it writes.

`ExtraKeys`, `OneKeyHanded` and `FulfilledStays` are about payments not in
`raced`, whatever is done about others. `SoloInv` adds what a payment keeps whose
requests have come one after the other (`SoloRow`): until the claim the row is
as its request loaded it and holds no key; from the claim to the last commit
it is "confirmed"; a row has a key exactly when it is fulfilled. So a request
that finds a key never mints, and one that mints finds none. The keys of a
payment are counted against the faults (`KeyBound`): every key is the one on
record, the one in hand, or one that a crash, a failed store or a lost answer of
Venice left behind.

`KeySaleProofs` proves `Implements`: `Spec => Sale!Spec`. `Claim` of a new row
is `Sell`, `Mint` and `MintLost` are `Issue`, `Reply` and the two early returns
are `Give`, `Fulfil` is `Fill`, `Block` and `Reorg` are `See`, `PersistQuote` is
`Offer`, all else stutters. It uses `IInv` for the guards of the abstract steps.

`BidBookProofs` proves `BookTypeCorrect` and `Links`, with `BookInv`, which adds
that a clerk about to link holds a quote on record that was listed within the
limit of the offer of its row, and that a row never changes its offer. `OneBid`
and `LinksAreStable` follow from `AloneInv`: for an intent that is not in
`contested`, between the lookup of its nonce and the insert of its bid no row of
that nonce appears, and a bid that is about to be linked is not linked yet.
Whatever clerks do about other nonces leaves that alone.

`BuyFlowProofs` proves `FilledBids` and `FlowLinksAreStable` of the composition,
for any number of clerks and workers and any bid that is not contested. A bid is filled on the word of a
request that read its link several commits earlier; `FlowInv` says that the link
and the wallet of that bid are still what the request read (settlement replaces
no link, purchases replace none at all), and that by the last commit the key is
issued. The steps of the book keep their part by `AloneStep` of
`BidBookProofs`; the steps of a purchase only fill bids and put quotes on
record, which that part does not mind (`BookKept`), so links stay sound and
uncontested nonces single in the composition too (`FlowBookIsSound`).

`FlowSells` and `FlowKeysArePaidFor` carry the sale over to the composition,
for any number of clerks: `Spec => P!SaleSpec`, and the safety properties of
`Purchases`. `IInv` types everything but the bids (`SaleTypeOK`), whose rows
`BuyFlow` shares with the book, and asks nothing else of them. So the theorems
of `KeySaleProofs`, instantiated there as `Shop`, apply to every step of a
purchase, and a step of the book opens quotes at most, which sells nothing
(`OpeningSellsNothing`).

`TenantStoreProofs` proves `StoreTypes`, `SubkeysAreOwn`, `OwnWritesAreRead` and
`StoreImplementsService` under `StoreAssumption` alone, for any number of
processes and of threads in each. `StoreInv` follows a tenant's key through all
that may hold it: the key row, every cache, the object a request got, the key
it is about to insert, what its refresh has scanned. A key minted is appended,
so ownership once established stays. `FreshInv` is about stamps: no cache is
ahead of the table; from the commit to the swap, what was committed or
something newer is on record, and a refresh that has read its keys has read it.
The steps of other requests only let the table grow (`Grows`), which none of
this minds (`OthersFresh`). What a request may count on of its own process's
cache (`Settled`) another request of the process may break by publishing in
between, so it is claimed only where the process is not crowded (`AloneOK`); a
process is that again when it has been idle, and a request that begins then
counts on nothing yet. `PastInv` says that whatever is on record, served,
scanned or about to be written back was on record before, and that a key in
hand to be inserted is new to it. From the three follows the refinement: a mint
is `Issue`, a commit is `Write` or changes no latest row, and every other step,
being of one process, is `Serve` (`ServeStep`).

`StakeMasterProofs` holds what the stake step alone keeps. `StakeInv` is the
types, `StakesApart`, `AutoOnce` (what is waiting or mined of the automatic
stake, and what this run of the process knows of it) and `LastClaimKnown` (the
time in memory is that of the last claim, unless a restart met a lost record of
it). Every step of `run_once`, the chain and the clock keep it, whatever the
rest of the loop does.

`AgentLoopProofs` begins with the vote at the weights the code has:
`RiskRefusalNeedsAll` (a risk model that says no is only overruled by all
three others) and `NoLoneApproval` (no model approves alone). It then extends
`StakeInv` to the whole cycle. Its `Inv` adds what a cycle has established so
far (`CycleOK`), and relations that hold between cycles and lag behind within one: the counter of good stake steps
never exceeds those that were good, the stored streak those that were guarded,
and the halt outlasts the last failure. Each lags because the code updates its
memory only at the end of the cycle, which a timeout or a raised error skips;
that skipping never puts the memory *ahead* is what the invariant says. From it
follow `TypeCorrect`, `StakesNeverOverlap`, `AutoStakedOnce`,
`ClaimsKeepInterval`, `BypassIsEarned`, `TradesHaveAPrice`, `FailuresHalt`,
`HaltedRecoveryNeedsAll` and `LiveMustBeEarned`.
`BypassesEnd` has an invariant of its own (`BypassesKept`): bypasses go on only
while the streak that is read back grows with them, and it is capped;
otherwise they began with the streak in memory, which a bypass clears. It
assumes `MinStreak > 1`: at 1 a cycle that times out allows one bypass more.

`TradesHaveAPrice` says of a price the market left out what the code really
grants. Nothing skips it; the guardian compares the 1.0 that stands for it
with the last price on record, and any price above 1 makes it a drawdown that
halts. `FailuresHalt` is about failures the reflection can read, a leg with a
buy or the stake step.

`RecoveryProofs` proves `DeskTypeCorrect` (the types, with the sizes of the
queues that keep the numbers in range), `RetryNeedsDoubt`,
`CampaignBurnsStop`, `MintedIsSold`, `BoughtVVVIsKept` and
`CleanDecisionsSettle`, for any environments that `DeskAssumption` admits.
`MintsCounted` counts the mints of a decision that may be
good, in the pool or mined, against the attempts that ended in doubt.
`CampaignKept` follows a campaign's burn from sizing to mining: if nothing was
in the air when it was sized, only its own decision's swaps are mined before
it, swaps leave DIEM and locked sVVV alone, so the burn still fits and stops
where it was sized to. That two roundings cost at most one DIEM is a lemma of
arithmetic (`UnlockStops`).

`MintedIsSold` (`NothingStranded`) rests on `MintedKept`. As long as nothing
failed and nothing overlapped, a mint is the newest transaction of the pool and
is awaited, and its sale is sent into an empty pool; so whatever DIEM the wallet
has beyond what it began with was minted a moment ago, and the agent is on its
way to sell it, or is being sold by the head of the pool.

`BoughtVVVIsKept` (`BoughtIsStakedOrOwed`) rests on `BoughtKept`, which says
where bought VVV is: at rest in the wallet, in at most one stake, or in at most
one swap that a recovery waits for. While there is a note of VVV owed, the
note is of the whole balance and no swap begins. A wallet that begins with more
than the buffer may keep what it began with, since a recovery stakes what its
swap brought and not what it finds; `Allowance` is the larger of the two, so
the theorem needs no hypothesis about the wallet.

`CleanDecisionsSettle` (`CleanSettles`) rests on `CleanKept`. Of a transaction
decided with nothing in the air it says that the wallet covers it now, and that
only kinds of transactions are ahead of it which leave what it needs alone; of
a clean decision in progress, what the wallet still has for each step it may
take. A clean decision is alone until it ends, so the pool only ever holds its
own transactions (`Only`), and `MintsCounted` and `CampaignKept` bound what
these can cost.

Only model-checked: liveness under fairness (`ClaimedIsFulfilled`,
`HealthyGoesLive`, `RecommendationIsHeard`, `Relieved`), which is out of the
prover's reach. Every safety invariant and action property that a passing run
checks is a theorem.

## Findings

1. Two keys for one payment: the claim serializes the insert and not the mint
   (`PurchasesOneKey`).
2. Two bids for one nonce: lookup and insert are not one step and nothing is
   unique (`BidBookNonce`).
3. A filled bid does not stay filled: the stream and settlement overwrite the
   status (`BuyFlowFilled`).
4. A hot policy does not pause the API that already read an earlier one
   (`BidBookHot`).
5. A revoked tenant is served as active: a refresh that read before the
   revocation is published after it (`TenantStoreRevoke`).

`PROJECT.json` quotes the lines that say otherwise.

## Observed, not run

Differences met while modelling that no run states: some the models have and
their properties name, some concern a part the models abstract or restate what
a line plainly does.

Storefront:

- The depth of a payment is the head of one RPC call
  (`src/apps/broker_api/routers/purchases.py:575`) less the block of a receipt
  fetched by an earlier one (`:561`), and nothing is read again. With two
  confirmations required, a receipt read at depth one, a reorganisation that
  drops the payment and one more block make it deep enough: a key is issued on
  a payment that stands in no block. `src/README.md:71` says "Verify checks chain,
  confirmations, token, and amount", and line 74 of the module that "a handful
  of confirmations meaningfully reduces reorg risk". `Purchases` has the
  behaviour; `KeysArePaidFor` and `KeySale` admit it (`Dropped`).
- A quote id is the second, asset and units (`src/libs/pricing/engine.py:326`),
  taken after the prices were read (`:298`), and `persist_quote` gives a row of
  that id the later price (`src/services/pricing/service.py:789`), linked or
  not. So a bid's quote can end above the bid's limit, though `src/README.md:69`
  says the limit "is a cap, not a different price"; `LinkIsSound` says what is
  kept, that it was once on record within the limit. And a payment recorded at
  the lower price is refused by every retry for as long as the higher one
  stands (`ClaimedIsFulfilled`).
- A key that Venice issued and whose answer timed out
  (`src/libs/venice_sdk/client.py:207`) or held no key
  (`src/apps/broker_api/routers/purchases.py:1056`) is nowhere on record; the
  retry issues another (`MintLost`, counted by `ExtraKeysNeedFaults`).
- A revocation re-inserts the key its process had cached, over one rotated in
  by another process since (`src/apps/broker_api/routers/tenants.py:235`).

Stake step and loop:

- A `market.prices` that times out leaves DIEM out, "so callers can detect
  partial results quickly" (`src/services/marketdata/provider.py:2622`). The
  caller takes 1.0 for it (`src/graph/workflows/orchestrator.py:1691`), which
  "Skipping ArbiDiem: DIEM price missing or invalid" (`:1707`) never meets: a
  first cycle, or one whose last record has no price above 1, trades at it.
- The summary of a mint or sell leg holds `"buy": None`
  (`src/graph/workflows/orchestrator.py:2491`, `:2514`), on which `reflect` raises
  (`src/services/memory/reflection.py:478`); the loop swallows that (`:3049`), and
  the halt that `src/docs/CONFIGURATION.md:409` promises on "high-severity
  reflection events" is not armed for a failed mint or sale. Nor is it for a
  failed stake step in such a cycle.
- Where "primary price failed (default 1.0)" a price of the bridge is to replace
  it (`src/graph/workflows/orchestrator.py:1718`), but it is read from a key of the
  health report that the provider never sets.

- The value gate of a claim is skipped once a last claim is known
  (`src/agents/stake_master/agent.py:551`, an `elif` chain), where
  `src/docs/CONFIGURATION.md:280` has it apply to every claim.
- The idle stake may dip below the wallet buffer: the balance is read before the
  nonce gate, and a stake that was waiting can be mined in between.
- The test for an active staker is strict, so an automatic stake of exactly the
  minimum never counts as active.
- A status read that raises after an automatic stake was sent counts as one
  more failed attempt.
- The cap of the price guard on volatility is never applied in live mode; a
  bypass lifts the skip for a missing price too; with the SQL store failing, the
  cap on bypasses is never reached and a stale JSONL file feeds the streak.
- The risk model's docstring says "Vetoes actions"; its weight does not allow
  it (`RiskRefusalNeedsAll`). The price guard is not passed to the vote.
- `src/docs/OPERATIONS.md:264` has `--enable-live` bypass the gating and any failing cycle
  reset it; neither is so, and a cycle that raises resets nothing.
- A cycle that times out or raises after an error of the stake step arms no
  halt, and the labels for a purchase or a balance sync excuse such an error.
- The live treasurer is always blocked: `QuorumCoordinator` has no `vote`.
- The retry with bumped gas uses the nonce read before the approval and can
  replace it.

DIEM desk and recovery:

- The back-off after an incoherent preview is said to be exponential and
  restarts at every expiry (`src/services/diem/client.py:576`, `:937`); a revert
  can be recorded twice from stale diagnostics; a ban ends a TTL after the
  *first* revert, however late the threshold was reached (`:651`).
- The docstring of the mint action has a static call validate the transaction
  before it is sent; a failed static call is only logged
  (`src/libs/agentkit_ext/actions.py:672`, `:1060`).
- A mint is retried after a confirmation timed out without looking at the
  earlier transaction; the idempotency key is consumed before the attempt.
  `ExtraMintNeedsDoubt` bounds what follows.
- `wallet_first_mint_and_sell` reports "submitted" when its only part was
  skipped; a burn's error is masked by a later "deferred" step; an unreadable
  locked balance counts as zero; buys and burns are not paced, and the memory
  of pacing is lost at a restart.
- In the premium branch a recovery that is blocked falls through to mint and
  sell although the ratio is over the cap (`src/agents/arbi_diem/agent.py:5790`).
- A comment there says "Once started, continue until ratio reaches target
  (<= cap)" (`:1770`). The callers ask for recovery only while the ratio is
  above the cap or the mint falls short, a neutral market never recovers, and
  `recovery_only` (`:5747`) is never passed by the orchestrator. `Relieved` states
  what does hold.
- The unlock option needs its DIEM already in the wallet, yet is blocked when
  the preview of a *purchase* is unhealthy. `_maybe_liquidate_unlocked_diem` has
  no caller.
- A recovery swap begun while an earlier stake is unmined can leave VVV
  unstaked with no note of it, and a decision taken over an unmined burn
  overshoots the target or sends transactions that revert. `seen.overlap` marks
  these in the properties.
- A timed-out receipt of a swap that leaves nothing to stake raises before a
  pending stake is noted; the overflow back-off stakes less and forgets the rest.

## Plan

Done, in order of what matters most to the system: `Purchases`, `KeySale`,
`BidBook`, `BuyFlow`; `TenantStore`, `KeyService`; `StakeMaster`, `AgentLoop`, `Reflex`,
`AgentQuorum`; `DiemDesk`, `Recovery`; and the proofs above. Left:

1. `RouteMutes`: the mute, circuit and revert-ban machine of the DIEM client
   over a bounded clock. A muted route is not chosen, a ban lasts as configured.
2. The challenge store in `Purchases`, and duplicate rows of one quote id.
3. `SlidingWindow`: both admission rules over integer-scaled weights.

## Not modelled

- The routing, quoting and calldata half of the DIEM client, the DEX libraries
  and the market data providers, which are most of the repository's lines:
  arithmetic and encoding over external data, with little state of their own.
  `DiemDesk` takes their answers (an output, a revert, no answer) as inputs.
  The mutes and bans they keep are the next module of the plan.
- Price formation in the pricing service and the valuation in `arbi_diem`: floats
  over market data. The models take the price, or which side of a threshold it
  is on, as an input.
- Rate limiting, the KV stores and the JSON tenant store: the models of their
  users take a KV call as one that succeeds or fails; the JSON store is the
  single-process alternative to the SQL one.
- The chat proxy and broker limits of `tenants.py` beyond the tenant itself.
- The API shell, the admin, clearing, marketdata and venice routers, the CLI,
  configuration, telemetry and deployment: I/O and wiring around the parts above.
- The graph nodes, memory and reflection beyond the halt and the streak, the
  risk policy, portfolio, treasurer and recycling: pure scoring or advice whose
  result `AgentLoop` takes as an input, or, for the treasurer, code that never
  gets past its vote.
- Gas refuel: one swap with a threshold, outside the cycle that `AgentLoop` has.

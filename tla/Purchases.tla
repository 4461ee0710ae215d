---------------------------- MODULE Purchases ----------------------------
(***************************************************************************)
(* Verification of a payment and issue of the scoped Venice key            *)
(* (apps/broker_api/routers/purchases.py).  FastAPI runs the synchronous   *)
(* handlers in a thread pool and a deployment may run several processes,   *)
(* so `Workers' requests interleave at every point where a handler reads   *)
(* or commits shared state: the purchase, quote and bid tables, the tenant *)
(* store, the chain and the Venice API.  SQL is read committed, and each   *)
(* table is seen only through the columns the handler tests.               *)
(*                                                                         *)
(* Data abstractions: a transaction hash, wallet, quote id or bid id is a  *)
(* model value; the default tenant id "w:" + wallet is the wallet itself;  *)
(* Paid is the sum of the Transfer logs from a wallet to the treasury in   *)
(* an asset's token (for ETH, the native value when there is no such log). *)
(***************************************************************************)
EXTENDS Integers, Sequences, FiniteSets

CONSTANTS
    Workers,       \* request threads
    Buyers,        \* wallets
    Txs,           \* Base transaction hashes
    Quotes,        \* quote ids
    Bids,          \* bid rows
    Assets,        \* payment assets with a configured token address
    Allowlist,     \* PURCHASE_TENANT_ALLOWLIST
    Asset,         \* Asset[q]: the asset quote q is priced in
    Prices,        \* unit prices
    Cost,          \* Cost[<<q, p>>]: total_price in base units of quote q at price p
    Paid,          \* Paid[<<tx, buyer, asset>>]: base units transferred
    Reverted,      \* transactions whose receipt status is not 1
    MinConf,       \* PURCHASE_MIN_CONFIRMATIONS
    ToleranceBps,  \* PURCHASE_UNDERPAY_TOLERANCE_BPS
    MaxHeight,     \* bound: blocks of a behaviour
    MaxKeys,       \* bound: keys Venice issues in a behaviour
    MaxFaults,     \* bound: crashes, store failures and lost answers of Venice
    None           \* SQL NULL, an absent option

ASSUME ConstantsAssumption ==
    /\ Asset \in [Quotes -> Assets]
    /\ Prices \subseteq Nat \ {0}
    /\ Cost \in [Quotes \X Prices -> Nat \ {0}]
    /\ Paid \in [Txs \X Buyers \X Assets -> Nat]
    /\ Reverted \subseteq Txs
    /\ MinConf \in Nat \ {0}
    /\ ToleranceBps \in 0..10000
    /\ MaxHeight \in Nat
    /\ MaxKeys \in Nat
    /\ MaxFaults \in Nat
    /\ Allowlist \cap Buyers = {}   \* no wallet's default tenant is on the list
    /\ None \notin Buyers \cup Txs \cup Quotes \cup Bids \cup Allowlist

VARIABLES
    chain,     \* the head, each transaction's block, the blocks it was dropped from
    quotes,    \* quote rows: status ("absent" before it is persisted) and unit_price
    listed,    \* history: the prices each quote has ever been on record at
    lapsed,    \* quotes whose expires_at has passed
    bids,      \* bid rows: buyer_address, quote_id, status
    rows,      \* the purchase table, by its unique tx_hash
    tenants,   \* the tenant store
    issued,    \* the keys Venice has issued, a key id being its place
    handed,    \* keys returned in replies: <<tx, buyer, key>>
    faults,    \* crashes, store failures and lost answers of Venice so far
    job,       \* what each worker is doing
    raced      \* history: payments two requests were ever in progress about at once

state == <<chain, quotes, listed, lapsed, bids, rows, tenants, issued, handed, faults, job>>

vars == <<state, raced>>

TenantIds == Buyers \cup Allowlist

Chain == [head: 0..MaxHeight, mined: [Txs -> 0..MaxHeight],
          stale: [Txs -> SUBSET (1..MaxHeight)]]

NoChain == [head |-> 0, mined |-> [t \in Txs |-> 0], stale |-> [t \in Txs |-> {}]]

KeyIds == 0..MaxKeys    \* 0: no key

Quote == [status: {"absent", "open", "filled"}, price: Prices \cup {0}]

NoQuote == [status |-> "absent", price |-> 0]

Key == [tx: Txs, buyer: Buyers, quote: Quotes, price: Prices]

Row == [status: {"absent", "confirmed", "fulfilled"},
        buyer: Buyers \cup {None}, quote: Quotes \cup {None},
        tenant: TenantIds \cup {None}, subkey: KeyIds]

NoRow == [status |-> "absent", buyer |-> None, quote |-> None,
          tenant |-> None, subkey |-> 0]

Tenant == [exists: BOOLEAN, owner: Buyers \cup {None}, subkey: KeyIds]

NoTenant == [exists |-> FALSE, owner |-> None, subkey |-> 0]

Bid == [buyer: Buyers, quote: Quotes \cup {None},
        status: {"received", "out_of_band", "in_band", "accepted_window",
                 "expired", "filled"}]

(* A request in progress.  `seen' is the purchase row as the session first  *)
(* loaded it, `price' the quote's, `block' the receipt's, `claimed' tells   *)
(* the row another request inserted first from one of its own, `bid' is     *)
(* linked_bid, `key' the key just minted.                                   *)
Steps == {"idle", "purchase", "quote", "chain", "head", "tenant", "claim",
          "mint", "store", "fulfil", "failed", "reply"}

Job == [pc: Steps, tx: Txs \cup {None}, buyer: Buyers \cup {None},
        quote: Quotes \cup {None}, tenant: TenantIds \cup {None},
        seen: Row, bid: Bids \cup {None}, price: Prices \cup {0},
        block: 0..MaxHeight, claimed: BOOLEAN, key: KeyIds]

IdleJob == [pc |-> "idle", tx |-> None, buyer |-> None, quote |-> None,
            tenant |-> None, seen |-> NoRow, bid |-> None, price |-> 0,
            block |-> 0, claimed |-> FALSE, key |-> 0]

SaleTypeOK ==      \* the types of all but the bid rows, which BuyFlow has more of
    /\ chain \in Chain
    /\ quotes \in [Quotes -> Quote]
    /\ listed \in [Quotes -> SUBSET Prices]
    /\ lapsed \subseteq Quotes
    /\ rows \in [Txs -> Row]
    /\ tenants \in [TenantIds -> Tenant]
    /\ issued \in Seq(Key) /\ Len(issued) \in KeyIds
    /\ handed \subseteq Txs \X Buyers \X KeyIds
    /\ faults \in 0..MaxFaults
    /\ job \in [Workers -> Job]

TypeOK == SaleTypeOK /\ bids \in [Bids -> Bid] /\ raced \subseteq Txs

(* Bids already settled are linked to a quote that settlement has persisted. *)
Init ==
    /\ chain = NoChain
    /\ lapsed = {}
    /\ bids \in [Bids -> [buyer: Buyers, quote: Quotes, status: {"accepted_window"}]]
    /\ \E price \in [Quotes -> Prices] :
         quotes = [q \in Quotes |-> IF \E x \in Bids : bids[x].quote = q
                                    THEN [status |-> "open", price |-> price[q]]
                                    ELSE NoQuote]
    /\ listed = [q \in Quotes |-> {quotes[q].price} \ {0}]
    /\ rows = [t \in Txs |-> NoRow]
    /\ tenants = [t \in TenantIds |-> NoTenant]
    /\ issued = <<>>
    /\ handed = {}
    /\ faults = 0
    /\ job = [w \in Workers |-> IdleJob]
    /\ raced = {}

---------------------------------------------------------------------------
(* The chain and the clock.                                                 *)

Depth(block) == chain.head - block + 1

(* A block is added, with any of the transactions that stand in none.       *)
Block ==
    /\ chain.head < MaxHeight
    /\ \E included \in SUBSET {t \in Txs : chain.mined[t] = 0} :
         chain' = [chain EXCEPT !.head = @ + 1,
                                !.mined = [t \in Txs |-> IF t \in included THEN chain.head + 1
                                                         ELSE chain.mined[t]]]
    /\ UNCHANGED <<quotes, listed, lapsed, bids, rows, tenants, issued, handed, faults, job>>

(* A reorganisation drops a transaction that is not yet deep enough.        *)
Reorg(t) ==
    /\ chain.mined[t] # 0 /\ Depth(chain.mined[t]) < MinConf
    /\ chain' = [chain EXCEPT !.mined[t] = 0, !.stale[t] = @ \cup {chain.mined[t]}]
    /\ UNCHANGED <<quotes, listed, lapsed, bids, rows, tenants, issued, handed, faults, job>>

(* The quote of GET /v1/quotes is written by persist_quote, in the handler  *)
(* or in a background task after the reply; a failed write is only logged.  *)
(* A quote id is made of the second, the asset and the units, and prices    *)
(* are read before the second is: a row already on record is given the new  *)
(* price, and keeps its status (and its expiry, which the second fixes).    *)
PersistQuote(q, p) ==
    /\ quotes' = [quotes EXCEPT ![q] = [status |-> IF @.status = "absent" THEN "open"
                                                   ELSE @.status,
                                        price |-> p]]
    /\ listed' = [listed EXCEPT ![q] = @ \cup {p}]
    /\ UNCHANGED <<chain, lapsed, bids, rows, tenants, issued, handed, faults, job>>

Lapse(q) ==
    /\ q \notin lapsed
    /\ quotes[q].status # "absent"
    /\ lapsed' = lapsed \cup {q}
    /\ UNCHANGED <<chain, quotes, listed, bids, rows, tenants, issued, handed, faults, job>>

---------------------------------------------------------------------------
(* The request.                                                             *)

Goto(w, step) == job' = [job EXCEPT ![w].pc = step]

Finish(w) == job' = [job EXCEPT ![w] = IdleJob]    \* a reply, or an HTTPException

Accept(w, t, b, q, tenant) ==
    job' = [job EXCEPT ![w] = [IdleJob EXCEPT !.pc = "purchase", !.tx = t, !.buyer = b,
                                              !.quote = q, !.tenant = tenant]]

(* purchases/verify: wallet b has signed the challenge for t.               *)
Verify(w, t, b, q, tenant) ==
    /\ job[w].pc = "idle"
    /\ Accept(w, t, b, q, tenant)
    /\ UNCHANGED <<chain, quotes, listed, lapsed, bids, rows, tenants, issued, handed, faults>>

(* The row found by purchase id (a hash of the hash and the wallet) or by   *)
(* the pair itself.                                                         *)
ExistingOfAnyone(t, b) == rows[t]        \* mutant: looked up by hash alone

Existing(t, b) == IF rows[t].buyer = b THEN rows[t] ELSE NoRow

(* purchases/recover: the quote and the tenant come from the recorded row.  *)
Recover(w, t, b) ==
    /\ job[w].pc = "idle"
    /\ Existing(t, b).status # "absent"
    /\ Accept(w, t, b, rows[t].quote, rows[t].tenant)
    /\ UNCHANGED <<chain, quotes, listed, lapsed, bids, rows, tenants, issued, handed, faults>>

(* _execute_verified_purchase opens its session and loads the purchase.     *)
ReadPurchaseOfAnyQuote(w) ==             \* mutant: no 409 for another quote
    /\ job[w].pc = "purchase"
    /\ job' = [job EXCEPT ![w].pc = "quote", ![w].seen = Existing(job[w].tx, job[w].buyer)]
    /\ UNCHANGED <<chain, quotes, listed, lapsed, bids, rows, tenants, issued, handed, faults>>

ReadPurchase(w) ==
    /\ job[w].pc = "purchase"
    /\ LET existing == Existing(job[w].tx, job[w].buyer) IN
       \/ /\ existing.status # "absent" /\ existing.quote # job[w].quote
          /\ Finish(w)
       \/ /\ existing.status # "absent" => existing.quote = job[w].quote
          /\ job' = [job EXCEPT ![w].pc = "quote", ![w].seen = existing]
    /\ UNCHANGED <<chain, quotes, listed, lapsed, bids, rows, tenants, issued, handed, faults>>

KeyRecordedAsFilled(row) ==              \* mutant: the quote's word for the purchase
    row.status = "filled" /\ row.subkey # 0

KeyRecorded(row) == row.status = "fulfilled" /\ row.subkey # 0

LinkedBids(q) == {x \in Bids : bids[x].quote = q}

MayPayAnyone(x, b) == TRUE               \* mutant: the bidder is not compared

MayPay(x, b) == bids[x].buyer = b

(* It loads the quote and the linked bid, and refuses what is not payable:  *)
(* an unknown quote, and for a first verification a lapsed or filled one.   *)
PayableUntilLapsed(w) ==                 \* mutant: a recorded payment lapses too
    /\ quotes[job[w].quote].status # "absent"
    /\ job[w].quote \notin lapsed
    /\ job[w].seen.status = "absent" => quotes[job[w].quote].status = "open"

Payable(w) ==
    /\ quotes[job[w].quote].status # "absent"
    /\ job[w].seen.status = "absent" => /\ job[w].quote \notin lapsed
                                        /\ quotes[job[w].quote].status = "open"

ReadQuote(w) ==
    /\ job[w].pc = "quote"
    /\ LET q == job[w].quote IN
       \/ /\ quotes[q].status # "absent" /\ KeyRecorded(job[w].seen)
          /\ handed' = handed \cup {<<job[w].tx, job[w].buyer, job[w].seen.subkey>>}
          /\ Finish(w)
       \/ /\ \/ quotes[q].status = "absent"
             \/ /\ ~KeyRecorded(job[w].seen)
                /\ \/ ~Payable(w)
                   \/ \E x \in LinkedBids(q) : ~MayPay(x, job[w].buyer)
          /\ Finish(w)
          /\ UNCHANGED handed
       \/ /\ ~KeyRecorded(job[w].seen) /\ Payable(w)
          /\ \E x \in LinkedBids(q) \cup {None} :
               /\ IF x = None THEN LinkedBids(q) = {} ELSE MayPay(x, job[w].buyer)
               /\ job' = [job EXCEPT ![w].pc = "chain", ![w].bid = x,
                                     ![w].price = quotes[q].price]
          /\ UNCHANGED handed
    /\ UNCHANGED <<chain, quotes, listed, lapsed, bids, rows, tenants, issued, faults>>

(* _verify_tx: eth_getTransactionReceipt, then eth_blockNumber, two calls   *)
(* that fall back over several nodes.  The receipt may be of a block that a *)
(* reorganisation has dropped since, or that a lagging node still has.      *)
(* Either call may fail, which the handler answers like a payment that does *)
(* not verify; so is a head that lags.                                      *)
Receipts(t) == (chain.stale[t] \cup {chain.mined[t]}) \ {0}

ReadReceipt(w) ==
    /\ job[w].pc = "chain"
    /\ \/ Finish(w)
       \/ /\ job[w].tx \notin Reverted
          /\ \E block \in Receipts(job[w].tx) :
               job' = [job EXCEPT ![w].pc = "head", ![w].block = block]
    /\ UNCHANGED <<chain, quotes, listed, lapsed, bids, rows, tenants, issued, handed, faults>>

(* min_required is the floor the Python integer division gives.             *)
MinRequired(q, p) == (Cost[<<q, p>>] * (10000 - ToleranceBps)) \div 10000

CoversOnlyPart(t, b, q, p) ==            \* mutant: any payment will do
    t \notin Reverted /\ Paid[<<t, b, Asset[q]>>] > 0

Covers(t, b, q, p) ==
    /\ t \notin Reverted
    /\ Paid[<<t, b, Asset[q]>>] > 0
    /\ Paid[<<t, b, Asset[q]>>] >= MinRequired(q, p)

MinedIsDeepEnough(block) == Depth(block) >= 1    \* mutant: no minimum depth

DeepEnough(block) == Depth(block) >= MinConf

(* The depth of the receipt's block under the head now read, then the sum   *)
(* of the receipt's transfers against the price read with the quote.        *)
ReadHead(w) ==
    /\ job[w].pc = "head"
    /\ \/ Finish(w)
       \/ /\ DeepEnough(job[w].block)
          /\ Covers(job[w].tx, job[w].buyer, job[w].quote, job[w].price)
          /\ Goto(w, "tenant")
    /\ UNCHANGED <<chain, quotes, listed, lapsed, bids, rows, tenants, issued, handed, faults>>

(* The tenant the key goes to: the wallet's own, or an allowlisted override *)
(* that neither another wallet nor the administrator holds.  The answer is  *)
(* read from the store here and acted on only after the mint.               *)
ChosenTenant(j) == IF j.tenant = None THEN j.buyer ELSE j.tenant

TenantGrantedAnyOverride(j) ==           \* mutant: no allowlist test
    LET t == tenants[ChosenTenant(j)] IN
    t.exists => t.owner = j.buyer \/ (t.owner = None /\ ChosenTenant(j) = j.buyer)

TenantGranted(j) ==
    /\ ChosenTenant(j) \in Allowlist \cup {j.buyer}
    /\ LET t == tenants[ChosenTenant(j)] IN
       t.exists => t.owner = j.buyer \/ (t.owner = None /\ ChosenTenant(j) = j.buyer)

CheckTenant(w) ==
    /\ job[w].pc = "tenant"
    /\ \/ ~TenantGranted(job[w]) /\ Finish(w)
       \/ /\ TenantGranted(job[w])
          /\ job' = [job EXCEPT ![w].pc = "claim", ![w].tenant = ChosenTenant(job[w])]
    /\ UNCHANGED <<chain, quotes, listed, lapsed, bids, rows, tenants, issued, handed, faults>>

(* The claim: the commit that inserts the purchase or rewrites the row the  *)
(* session loaded.  SQLAlchemy writes back only the columns that changed:   *)
(* status was loaded "confirmed", so the rewrite leaves it alone.           *)
ClaimRowTakenOver(w) ==                  \* mutant: tx_hash is not unique
    /\ rows' = [rows EXCEPT ![job[w].tx] =
                  [NoRow EXCEPT !.status = "confirmed", !.buyer = job[w].buyer,
                                !.quote = job[w].quote]]
    /\ Goto(w, "mint")
    /\ UNCHANGED handed

ClaimRow(w) ==
    /\ \/ /\ job[w].seen.status = "absent"
          /\ rows[job[w].tx].status = "absent"
          /\ rows' = [rows EXCEPT ![job[w].tx] =
                        [NoRow EXCEPT !.status = "confirmed", !.buyer = job[w].buyer,
                                      !.quote = job[w].quote]]
       \/ /\ job[w].seen.status # "absent"
          /\ rows' = [rows EXCEPT ![job[w].tx].buyer = job[w].buyer,
                                  ![job[w].tx].quote = job[w].quote]
    /\ Goto(w, "mint")
    /\ UNCHANGED handed

(* IntegrityError: another request inserted a row for this hash first.      *)
ClaimLostAnyBuyer(w) ==                  \* mutant: the wallet is not compared
    /\ job[w].seen.status = "absent" /\ rows[job[w].tx].status # "absent"
    /\ LET claimed == rows[job[w].tx] IN
       \/ /\ KeyRecorded(claimed)
          /\ handed' = handed \cup {<<job[w].tx, job[w].buyer, claimed.subkey>>}
          /\ Finish(w)
       \/ /\ ~KeyRecorded(claimed)
          /\ job' = [job EXCEPT ![w].pc = "mint", ![w].claimed = TRUE]
          /\ UNCHANGED handed
    /\ UNCHANGED rows

ClaimLost(w) ==
    /\ job[w].seen.status = "absent" /\ rows[job[w].tx].status # "absent"
    /\ LET claimed == rows[job[w].tx] IN
       \/ /\ claimed.buyer # job[w].buyer
          /\ Finish(w)
          /\ UNCHANGED handed
       \/ /\ claimed.buyer = job[w].buyer /\ KeyRecorded(claimed)
          /\ handed' = handed \cup {<<job[w].tx, job[w].buyer, claimed.subkey>>}
          /\ Finish(w)
       \/ /\ claimed.buyer = job[w].buyer /\ ~KeyRecorded(claimed)
          /\ job' = [job EXCEPT ![w].pc = "mint", ![w].claimed = TRUE]
          /\ UNCHANGED handed
    /\ UNCHANGED rows

Claim(w) ==
    /\ job[w].pc = "claim"
    /\ ClaimRow(w) \/ ClaimLost(w)
    /\ UNCHANGED <<chain, quotes, listed, lapsed, bids, tenants, issued, faults>>

(* issue_scoped_key: a key limited to the units of this request's quote.    *)
Issue(w) ==
    /\ job[w].pc = "mint"
    /\ Len(issued) < MaxKeys
    /\ issued' = Append(issued, [tx |-> job[w].tx, buyer |-> job[w].buyer,
                                 quote |-> job[w].quote, price |-> job[w].price])

Mint(w) ==
    /\ Issue(w)
    /\ job' = [job EXCEPT ![w].pc = "store", ![w].key = Len(issued) + 1]
    /\ UNCHANGED <<chain, quotes, listed, lapsed, bids, rows, tenants, handed, faults>>

(* Venice issues a key, but the answer is lost or has no key in it: the one *)
(* POST is not repeated, and the handler treats it as a failed mint.        *)
MintLost(w) ==
    /\ Issue(w)
    /\ faults < MaxFaults
    /\ faults' = faults + 1
    /\ Goto(w, "failed")
    /\ UNCHANGED <<chain, quotes, listed, lapsed, bids, rows, tenants, handed>>

(* Venice refuses or is not reached, or no parent key is configured: the   *)
(* latter is an HTTPException that leaves the handler before the commit.    *)
MintFails(w) ==
    /\ job[w].pc = "mint"
    /\ Goto(w, "failed") \/ Finish(w)
    /\ UNCHANGED <<chain, quotes, listed, lapsed, bids, rows, tenants, issued, handed, faults>>

(* _store.upsert, in a transaction of its own.                              *)
SaveTenant(w) ==
    /\ job[w].pc = "store"
    /\ tenants' = [tenants EXCEPT ![job[w].tenant] =
                     [exists |-> TRUE, owner |-> job[w].buyer, subkey |-> job[w].key]]
    /\ Goto(w, "fulfil")
    /\ UNCHANGED <<chain, quotes, listed, lapsed, bids, rows, issued, handed, faults>>

SaveTenantFails(w) ==
    /\ job[w].pc = "store"
    /\ faults < MaxFaults
    /\ faults' = faults + 1
    /\ Goto(w, "failed")
    /\ UNCHANGED <<chain, quotes, listed, lapsed, bids, rows, tenants, issued, handed>>

(* The last commit: the purchase, its quote and its linked bid.             *)
FillLinkedBid(w) ==
    bids' = IF job[w].bid = None THEN bids
            ELSE [bids EXCEPT ![job[w].bid].status = "filled"]

FulfilQuoteAsFulfilled(w) ==             \* mutant: the purchase's word for the quote
    /\ job[w].pc = "fulfil"
    /\ rows' = [rows EXCEPT ![job[w].tx].status = "fulfilled",
                            ![job[w].tx].tenant = job[w].tenant,
                            ![job[w].tx].subkey = job[w].key]
    /\ quotes' = [quotes EXCEPT ![job[w].quote].status = "fulfilled"]
    /\ FillLinkedBid(w)
    /\ Goto(w, "reply")
    /\ UNCHANGED <<chain, listed, lapsed, tenants, issued, handed, faults>>

Fulfil(w) ==
    /\ job[w].pc = "fulfil"
    /\ rows' = [rows EXCEPT ![job[w].tx].status = "fulfilled",
                            ![job[w].tx].tenant = job[w].tenant,
                            ![job[w].tx].subkey = job[w].key]
    /\ quotes' = [quotes EXCEPT ![job[w].quote].status = "filled"]
    /\ FillLinkedBid(w)
    /\ Goto(w, "reply")
    /\ UNCHANGED <<chain, listed, lapsed, tenants, issued, handed, faults>>

(* The last commit after a failed mint or upsert: `purchase.status =        *)
(* "confirmed"'.  The claim's commit expired the loaded object, so the      *)
(* column is written whatever the row now holds; an object loaded after an  *)
(* IntegrityError still has status "confirmed", and nothing is written.     *)
RecordFailure(w) ==
    /\ job[w].pc = "failed"
    /\ rows' = IF job[w].claimed THEN rows
               ELSE [rows EXCEPT ![job[w].tx].status = "confirmed"]
    /\ Goto(w, "reply")
    /\ UNCHANGED <<chain, quotes, listed, lapsed, bids, tenants, issued, handed, faults>>

(* The reply is built from the row as the database now holds it.            *)
Reply(w) ==
    /\ job[w].pc = "reply"
    /\ LET k == rows[job[w].tx].subkey IN
       handed' = IF k = 0 THEN handed
                 ELSE handed \cup {<<job[w].tx, job[w].buyer, k>>}
    /\ Finish(w)
    /\ UNCHANGED <<chain, quotes, listed, lapsed, bids, rows, tenants, issued, faults>>

(* The process dies, or the request is cut off: what it committed stays.    *)
Crash(w) ==
    /\ job[w].pc # "idle"
    /\ faults < MaxFaults
    /\ faults' = faults + 1
    /\ Finish(w)
    /\ UNCHANGED <<chain, quotes, listed, lapsed, bids, rows, tenants, issued, handed>>

---------------------------------------------------------------------------
Environment ==
    \/ Block
    \/ \E t \in Txs : Reorg(t)
    \/ \E q \in Quotes : Lapse(q) \/ \E p \in Prices : PersistQuote(q, p)

Request(w) ==
    \E t \in Txs, b \in Buyers :
        \/ \E q \in Quotes, tenant \in TenantIds \cup {None} : Verify(w, t, b, q, tenant)
        \/ Recover(w, t, b)

Progress(w) ==
    \/ ReadPurchase(w) \/ ReadQuote(w) \/ ReadReceipt(w) \/ ReadHead(w)
    \/ CheckTenant(w) \/ Claim(w) \/ Mint(w) \/ MintLost(w) \/ MintFails(w)
    \/ SaveTenant(w) \/ SaveTenantFails(w) \/ Fulfil(w) \/ RecordFailure(w) \/ Reply(w)

Step == Environment \/ \E w \in Workers : Request(w) \/ Progress(w) \/ Crash(w)

(* No handler reads `raced': it tells the payments that requests have run   *)
(* for at the same time from those they have run for one after another.     *)
InProgressTwice(t) == \E v, w \in Workers : v # w /\ job[v].tx = t /\ job[w].tx = t

History == raced' = raced \cup {t \in Txs : InProgressTwice(t)'}

Next == Step /\ History

Spec == Init /\ [][Next]_vars

(* Fairness.  A request thread runs to its end; for each recorded payment   *)
(* an RPC, Venice and the tenant store each answer if asked often enough,   *)
(* and the buyer keeps asking to recover it (For: a request like recover's).*)
For(w, t, b) ==
    /\ job[w].tx = t /\ job[w].buyer = b
    /\ job[w].quote = rows[t].quote
    /\ ChosenTenant(job[w]) = b

Fairness ==
    \A w \in Workers :
        /\ WF_state(Progress(w))
        /\ \A t \in Txs, b \in Buyers :
             /\ SF_state(Recover(w, t, b))
             /\ SF_state(For(w, t, b) /\ ReadReceipt(w) /\ job'[w].pc = "head")
             /\ SF_state(For(w, t, b) /\ ReadHead(w) /\ job'[w].pc = "tenant")
             /\ SF_state(For(w, t, b) /\ Mint(w))
             /\ SF_state(For(w, t, b) /\ SaveTenant(w))

FairSpec == Spec /\ Fairness

---------------------------------------------------------------------------
(* What the handlers implement: the sale recorded by the purchase table.    *)
Deep == {t \in Txs : chain.mined[t] # 0 /\ Depth(chain.mined[t]) >= MinConf}

Dropped == {t \in Txs : chain.stale[t] # {}}

Sales == {s \in Txs \X Buyers : Existing(s[1], s[2]).status # "absent"}

FilledQuotes == {q \in Quotes : quotes[q].status = "filled"}

Sale == INSTANCE KeySale WITH seen <- Deep \cup Dropped, offers <- listed, sales <- Sales,
                              keys <- issued, given <- handed, filled <- FilledQuotes

---------------------------------------------------------------------------
(* Properties.                                                              *)

(* Racing, retried and crashed requests, reorganisations, lapses and quotes *)
(* re-priced, seen from outside, are sales of KeySale and nothing else.     *)
SaleSpec == Sale!Spec

KeysFor(t) == {i \in DOMAIN issued : issued[i].tx = t}

(* One payment transaction may carry transfers of several wallets, but only *)
(* one of them is ever issued keys for it, however the claims race.         *)
OneBuyerPerPayment ==
    \A i, k \in DOMAIN issued : issued[i].tx = issued[k].tx => issued[i].buyer = issued[k].buyer

(* No retry, race or change of the quote leaves a key that was not paid in  *)
(* full, by that wallet, in that asset, at a price its quote was on record  *)
(* at, in a transaction that stands at the required depth or that only a    *)
(* reorganisation has dropped.                                              *)
KeysArePaidFor ==
    \A i \in DOMAIN issued :
        LET k == issued[i] IN
        /\ k.tx \in Deep \cup Dropped
        /\ k.tx \notin Reverted
        /\ Paid[<<k.tx, k.buyer, Asset[k.quote]>>] >= MinRequired(k.quote, k.price)
        /\ k.price \in listed[k.quote]

(* A reply hands a wallet only a key that was issued to it for that payment.*)
HandedToPayer ==
    \A h \in handed : /\ h[3] \in DOMAIN issued
                      /\ issued[h[3]].tx = h[1]
                      /\ issued[h[3]].buyer = h[2]

(* A quote is taken off the market only when a key for its units exists.    *)
FilledQuoteHasKey ==
    \A q \in Quotes : quotes[q].status = "filled" => \E i \in DOMAIN issued : issued[i].quote = q

(* The tenant a wallet gets by default never ends up owned by another       *)
(* wallet, nor serving a key issued to another.                             *)
DefaultTenantIsOwn ==
    \A b \in Buyers : tenants[b].exists =>
        /\ tenants[b].owner = b
        /\ tenants[b].subkey \in DOMAIN issued
        /\ issued[tenants[b].subkey].buyer = b

(* The record of a payment is never moved to another wallet or quote, nor   *)
(* lost, by any later verification of it.                                   *)
RowIsNeverRetargeted ==
    [][\A t \in Txs : rows[t].status # "absent" =>
          /\ rows'[t].status # "absent"
          /\ rows'[t].buyer = rows[t].buyer
          /\ rows'[t].quote = rows[t].quote]_rows

(* Where requests for a payment did not overlap, a key too many for it      *)
(* costs a crash, a tenant-store failure after the mint or a lost answer of *)
(* Venice: a Venice that refuses or cannot be reached never does.           *)
ExtraKeysNeedFaults ==
    \A t \in Txs \ raced : Cardinality(KeysFor(t)) <= 1 + faults

(* Where requests for a payment did not overlap, every key ever handed to   *)
(* its buyer is the one on its record: recovery never yields a second one.  *)
HandedIsOnRecord ==
    \A h \in handed : h[1] \notin raced =>
        rows[h[1]].status = "fulfilled" /\ rows[h[1]].subkey = h[3]

(* Where requests for a payment did not overlap, its purchase once          *)
(* fulfilled never changes again.                                           *)
FulfilledIsFinal ==
    [][\A t \in Txs \ raced : rows[t].status = "fulfilled" => rows'[t] = rows[t]]_rows

(* A recorded payment that stands is eventually fulfilled, unless its quote *)
(* is given a price that it does not cover: whatever else becomes of the    *)
(* quote, of the process and of the first attempts to mint.                 *)
Covered(t) ==
    /\ rows[t].status # "absent"
    /\ Covers(t, rows[t].buyer, rows[t].quote, quotes[rows[t].quote].price)

Owed(t) == rows[t].status = "confirmed" /\ t \in Deep /\ Covered(t)

ClaimedIsFulfilled ==
    \A t \in Txs : Owed(t) ~> rows[t].status = "fulfilled" \/ ~Covered(t)

(* "One payment yields one key" (purchases.py, at the claim).               *)
OneKeyPerPayment ==
    \A i, k \in DOMAIN issued : issued[i].tx = issued[k].tx => i = k
============================================================================

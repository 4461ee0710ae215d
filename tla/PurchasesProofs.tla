-------------------------- MODULE PurchasesProofs --------------------------
(***************************************************************************)
(* What holds of Purchases for any number of request threads, wallets,     *)
(* transactions, quotes and keys.  The safety properties are not inductive:*)
(* each rests on what a request in progress already knows, so the          *)
(* inductive invariant says, step by step, what a request has established. *)
(***************************************************************************)
EXTENDS Purchases, TLAPS, FiniteSetTheorems

(* Key k was issued to wallet b for payment t.                              *)
KeyOf(k, t, b) == k \in DOMAIN issued /\ issued[k].tx = t /\ issued[k].buyer = b

(* Payment t is recorded for wallet b.                                      *)
Recorded(t, b) == rows[t].status # "absent" /\ rows[t].buyer = b

(* A request in progress names a payment, a wallet and a quote.             *)
RequestOK(j) ==
    j.pc # "idle" => j.tx \in Txs /\ j.buyer \in Buyers /\ j.quote \in Quotes

(* What it loaded first still stands: rows keep their wallet and quote.     *)
SeenOK(j) ==
    j.pc # "idle" /\ j.seen.status # "absent" =>
        /\ Recorded(j.tx, j.buyer)
        /\ rows[j.tx].quote = j.quote
        /\ KeyRecorded(j.seen) => KeyOf(j.seen.subkey, j.tx, j.buyer)

(* The price it goes by is one its quote was on record at.                  *)
PricedOK(j) ==
    j.pc \in {"chain", "head", "tenant", "claim", "mint", "store", "fulfil"} =>
        j.price \in listed[j.quote]

(* The receipt it holds is of the payment's block, or of one dropped.       *)
ReceiptOK(j) == j.pc = "head" => j.block \in Receipts(j.tx)

(* Payment t was seen at the required depth, or was dropped since a receipt *)
(* of it was read; it covers quote q at a price q was offered at.           *)
Verifies(t, b, q, p) ==
    /\ t \in Deep \cup Dropped
    /\ p \in listed[q]
    /\ Covers(t, b, q, p)

(* Past the RPC calls the payment verifies, and goes on verifying.          *)
VerifiedOK(j) ==
    j.pc \in {"tenant", "claim", "mint", "store", "fulfil"} =>
        Verifies(j.tx, j.buyer, j.quote, j.price)

(* Past the tenant check the tenant is allowlisted or the wallet's own.     *)
GrantedOK(j) ==
    j.pc \in {"claim", "mint", "store", "fulfil"} => j.tenant \in Allowlist \cup {j.buyer}

(* Past the claim the payment is recorded for this wallet.                  *)
ClaimedOK(j) ==
    j.pc \in {"mint", "store", "fulfil", "failed", "reply"} => Recorded(j.tx, j.buyer)

(* Past the mint the key in hand was issued for this very request.          *)
MintedOK(j) ==
    j.pc \in {"store", "fulfil"} =>
        KeyOf(j.key, j.tx, j.buyer) /\ issued[j.key].quote = j.quote

JobOK(j) ==
    /\ RequestOK(j) /\ SeenOK(j) /\ PricedOK(j) /\ ReceiptOK(j) /\ VerifiedOK(j)
    /\ GrantedOK(j) /\ ClaimedOK(j) /\ MintedOK(j)

(* A row holds a wallet, a quote and only keys issued for that payment.     *)
RowOK(t) ==
    /\ rows[t].status = "absent" => rows[t].buyer = None /\ rows[t].subkey = 0
    /\ rows[t].status # "absent" => rows[t].buyer \in Buyers /\ rows[t].quote \in Quotes
    /\ rows[t].subkey # 0 => KeyOf(rows[t].subkey, t, rows[t].buyer)

(* A quote on record has been listed at its price.                          *)
QuoteOK(q) ==
    quotes[q].status # "absent" \/ listed[q] # {} => quotes[q].price \in listed[q]

(* An issued key was paid for by the wallet its payment is recorded for.    *)
KeyOK(k) ==
    /\ Recorded(k.tx, k.buyer)
    /\ Verifies(k.tx, k.buyer, k.quote, k.price)

IInv ==
    /\ SaleTypeOK
    /\ \A w \in Workers : JobOK(job[w])
    /\ \A t \in Txs : RowOK(t)
    /\ \A q \in Quotes : QuoteOK(q)
    /\ \A i \in DOMAIN issued : KeyOK(issued[i])
    /\ HandedToPayer
    /\ FilledQuoteHasKey
    /\ DefaultTenantIsOwn

-----------------------------------------------------------------------------
(* Types.                                                                   *)

(* The row of a payment no one has recorded yet is typed.                   *)
LEMMA NoRowType == NoRow \in Row
  BY ConstantsAssumption DEF NoRow, Row, KeyIds

(* The record of a worker with no request is typed.                         *)
LEMMA IdleJobType == IdleJob \in Job
  BY NoRowType, ConstantsAssumption DEF IdleJob, Job, Steps, KeyIds

(* What a request loads from the purchase table is typed.                   *)
LEMMA ExistingType ==
  ASSUME SaleTypeOK, NEW t \in Txs, NEW b \in Buyers
  PROVE  Existing(t, b) \in Row
  BY NoRowType DEF SaleTypeOK, Existing

(* Moving a request to another step keeps the workers typed.                *)
LEMMA GotoType ==
  ASSUME SaleTypeOK, NEW w \in Workers, NEW step \in Steps, Goto(w, step)
  PROVE  job' \in [Workers -> Job]
  <1>1. job[w] \in Job
    BY DEF SaleTypeOK
  <1>2. [job[w] EXCEPT !.pc = step] \in Job
    BY <1>1 DEF Job
  <1> QED
    BY <1>2 DEF SaleTypeOK, Goto

(* Ending a request keeps the workers typed.                                *)
LEMMA FinishType ==
  ASSUME SaleTypeOK, NEW w \in Workers, Finish(w)
  PROVE  job' \in [Workers -> Job]
  BY IdleJobType DEF SaleTypeOK, Finish

(* An accepted request is a typed record.                                   *)
LEMMA AcceptType ==
  ASSUME SaleTypeOK, NEW w \in Workers, NEW t \in Txs, NEW b \in Buyers,
         NEW q \in Quotes \cup {None}, NEW tenant \in TenantIds \cup {None}, Accept(w, t, b, q, tenant)
  PROVE  job' \in [Workers -> Job]
  <1>1. [IdleJob EXCEPT !.pc = "purchase", !.tx = t, !.buyer = b, !.quote = q,
                        !.tenant = tenant] \in Job
    BY IdleJobType DEF Job, Steps
  <1> QED
    BY <1>1 DEF SaleTypeOK, Accept

(* A running request names a payment, a wallet and a quote, and its other   *)
(* fields are typed.                                                        *)
LEMMA Running ==
  ASSUME IInv, NEW w \in Workers, job[w].pc # "idle"
  PROVE  /\ job[w].tx \in Txs /\ job[w].buyer \in Buyers /\ job[w].quote \in Quotes
         /\ job[w].tenant \in TenantIds \cup {None} /\ job[w].bid \in Bids \cup {None}
         /\ job[w].seen \in Row /\ job[w].key \in KeyIds
         /\ job[w].price \in Prices \cup {0} /\ job[w].block \in 0..MaxHeight
         /\ rows[job[w].tx] \in Row
  <1>1. job[w] \in Job
    BY DEF IInv, SaleTypeOK
  <1>2. job[w].tx \in Txs /\ job[w].buyer \in Buyers /\ job[w].quote \in Quotes
    BY DEF IInv, JobOK, RequestOK
  <1> QED
    BY <1>1, <1>2 DEF Job, IInv, SaleTypeOK

(* No purchase yet, and no quote filled, whatever has been bid.             *)
Beginning ==
    /\ chain = NoChain
    /\ quotes \in [Quotes -> Quote]
    /\ \A q \in Quotes : quotes[q].status # "filled"
    /\ listed \in [Quotes -> SUBSET Prices]
    /\ \A q \in Quotes : QuoteOK(q)
    /\ lapsed = {}
    /\ rows = [t \in Txs |-> NoRow]
    /\ tenants = [t \in TenantIds |-> NoTenant]
    /\ issued = <<>>
    /\ handed = {}
    /\ faults = 0
    /\ job = [w \in Workers |-> IdleJob]

(* A deployment with no purchase yet is typed.                              *)
THEOREM BeginningTypes == Beginning => SaleTypeOK
  <1> SUFFICES ASSUME Beginning PROVE SaleTypeOK
    OBVIOUS
  <1>1. /\ chain \in Chain
        /\ faults \in 0..MaxFaults
    BY ConstantsAssumption DEF Beginning, NoChain, Chain
  <1>2. /\ quotes \in [Quotes -> Quote] /\ listed \in [Quotes -> SUBSET Prices]
        /\ lapsed \subseteq Quotes
    BY DEF Beginning
  <1>3. rows \in [Txs -> Row]
    BY NoRowType DEF Beginning
  <1>4. tenants \in [TenantIds -> Tenant]
    BY ConstantsAssumption DEF Beginning, Tenant, NoTenant, KeyIds
  <1>5. issued \in Seq(Key) /\ Len(issued) \in KeyIds /\ handed \subseteq Txs \X Buyers \X KeyIds
    BY ConstantsAssumption DEF Beginning, KeyIds
  <1>6. job \in [Workers -> Job]
    BY IdleJobType DEF Beginning
  <1> QED
    BY <1>1, <1>2, <1>3, <1>4, <1>5, <1>6 DEF SaleTypeOK

(* A block puts transactions at the new head.                               *)
LEMMA BlockTypes ==
  ASSUME SaleTypeOK, Block
  PROVE  SaleTypeOK'
  <1>1. chain.head \in Nat /\ chain.head + 1 \in 0..MaxHeight
    BY ConstantsAssumption DEF SaleTypeOK, Chain, Block
  <1>2. PICK included \in SUBSET {t \in Txs : chain.mined[t] = 0} :
          chain' = [chain EXCEPT !.head = @ + 1,
                                 !.mined = [t \in Txs |-> IF t \in included THEN chain.head + 1
                                                          ELSE chain.mined[t]]]
    BY DEF Block
  <1>3. chain' \in Chain
    BY <1>1, <1>2 DEF SaleTypeOK, Chain
  <1> QED
    BY <1>3 DEF SaleTypeOK, Block

(* What a reorganisation makes of the chain.                                *)
LEMMA ReorgFields ==
  ASSUME SaleTypeOK, NEW t \in Txs, Reorg(t)
  PROVE  chain' = [head |-> chain.head, mined |-> [chain.mined EXCEPT ![t] = 0],
                   stale |-> [chain.stale EXCEPT ![t] = @ \cup {chain.mined[t]}]]
  <1>1. chain' = [chain EXCEPT !.mined[t] = 0, !.stale[t] = @ \cup {chain.mined[t]}]
    BY DEF Reorg
  <1>2. chain = [head |-> chain.head, mined |-> chain.mined, stale |-> chain.stale]
    BY DEF SaleTypeOK, Chain
  <1> QED
    BY <1>1, <1>2

(* It moves a transaction's block to those it was dropped from.             *)
LEMMA ReorgTypes ==
  ASSUME SaleTypeOK, NEW t \in Txs, Reorg(t)
  PROVE  SaleTypeOK'
  <1>1. chain.mined[t] \in 1..MaxHeight
    BY ConstantsAssumption DEF SaleTypeOK, Chain, Reorg
  <1>2. chain' = [chain EXCEPT !.mined[t] = 0, !.stale[t] = @ \cup {chain.mined[t]}]
    BY DEF Reorg
  <1>3. chain' \in Chain
    <2>1. /\ chain.mined \in [Txs -> 0..MaxHeight] /\ chain.head \in 0..MaxHeight
          /\ chain.stale \in [Txs -> SUBSET (1..MaxHeight)]
      BY DEF SaleTypeOK, Chain
    <2>2. 0 \in 0..MaxHeight
      BY ConstantsAssumption
    <2>3. [chain.mined EXCEPT ![t] = 0] \in [Txs -> 0..MaxHeight]
      BY <2>1, <2>2
    <2>4. [chain.stale EXCEPT ![t] = @ \cup {chain.mined[t]}] \in [Txs -> SUBSET (1..MaxHeight)]
      BY <1>1, <2>1
    <2> QED
      BY <2>1, <2>3, <2>4, ReorgFields DEF Chain
  <1> QED
    BY <1>3 DEF SaleTypeOK, Reorg

(* A quote persisted, or persisted again at another price, is typed.        *)
LEMMA PersistTypes ==
  ASSUME SaleTypeOK, NEW q \in Quotes, NEW p \in Prices, PersistQuote(q, p)
  PROVE  SaleTypeOK'
  <1>1. [status |-> IF quotes[q].status = "absent" THEN "open" ELSE quotes[q].status,
         price |-> p] \in Quote
    BY DEF SaleTypeOK, Quote
  <1>2. quotes' \in [Quotes -> Quote] /\ listed' \in [Quotes -> SUBSET Prices]
    BY <1>1 DEF SaleTypeOK, PersistQuote
  <1> QED
    BY <1>2 DEF SaleTypeOK, PersistQuote

(* The chain and the clock keep every type.                                 *)
LEMMA EnvironmentTypes ==
  ASSUME SaleTypeOK, Environment
  PROVE  SaleTypeOK'
  <1>1. ASSUME NEW q \in Quotes, Lapse(q)
        PROVE  SaleTypeOK'
    BY <1>1 DEF SaleTypeOK, Lapse
  <1> QED
    BY <1>1, BlockTypes, ReorgTypes, PersistTypes DEF Environment

(* A request starts with a payment, a wallet and a quote.                   *)
LEMMA RequestTypes ==
  ASSUME IInv, NEW w \in Workers, Request(w)
  PROVE  SaleTypeOK'
  <1> USE DEF IInv
  <1>1. ASSUME NEW t \in Txs, NEW b \in Buyers, NEW q \in Quotes,
               NEW tenant \in TenantIds \cup {None}, Verify(w, t, b, q, tenant)
        PROVE  SaleTypeOK'
    BY <1>1, AcceptType DEF Verify, SaleTypeOK
  <1>2. ASSUME NEW t \in Txs, NEW b \in Buyers, Recover(w, t, b)
        PROVE  SaleTypeOK'
    <2>1. rows[t].quote \in Quotes \cup {None} /\ rows[t].tenant \in TenantIds \cup {None}
      BY DEF SaleTypeOK, Row
    <2> QED
      BY <1>2, <2>1, AcceptType DEF Recover, SaleTypeOK
  <1> QED
    BY <1>1, <1>2 DEF Request

(* A worker's record with some fields replaced by typed values stays typed. *)
LEMMA SeenJobType ==
  ASSUME SaleTypeOK, NEW w \in Workers, NEW row \in Row,
         job' = [job EXCEPT ![w].pc = "quote", ![w].seen = row]
  PROVE  job' \in [Workers -> Job]
  <1>1. job[w] \in Job
    BY DEF SaleTypeOK
  <1>2. [job[w] EXCEPT !.pc = "quote", !.seen = row] \in Job
    BY <1>1 DEF Job, Steps
  <1> QED
    BY <1>2 DEF SaleTypeOK

(* Noting the linked bid and the price keeps the workers typed.             *)
LEMMA BidJobType ==
  ASSUME SaleTypeOK, NEW w \in Workers, NEW x \in Bids \cup {None}, NEW p \in Prices \cup {0},
         job' = [job EXCEPT ![w].pc = "chain", ![w].bid = x, ![w].price = p]
  PROVE  job' \in [Workers -> Job]
  <1>1. job[w] \in Job
    BY DEF SaleTypeOK
  <1>2. [job[w] EXCEPT !.pc = "chain", !.bid = x, !.price = p] \in Job
    BY <1>1 DEF Job, Steps
  <1> QED
    BY <1>2 DEF SaleTypeOK

(* Noting the receipt's block keeps the workers typed.                      *)
LEMMA BlockJobType ==
  ASSUME SaleTypeOK, NEW w \in Workers, NEW block \in 0..MaxHeight,
         job' = [job EXCEPT ![w].pc = "head", ![w].block = block]
  PROVE  job' \in [Workers -> Job]
  <1>1. job[w] \in Job
    BY DEF SaleTypeOK
  <1>2. [job[w] EXCEPT !.pc = "head", !.block = block] \in Job
    BY <1>1 DEF Job, Steps
  <1> QED
    BY <1>2 DEF SaleTypeOK

(* Noting the chosen tenant keeps the workers typed.                        *)
LEMMA TenantJobType ==
  ASSUME SaleTypeOK, NEW w \in Workers, NEW tenant \in TenantIds \cup {None},
         job' = [job EXCEPT ![w].pc = "claim", ![w].tenant = tenant]
  PROVE  job' \in [Workers -> Job]
  <1>1. job[w] \in Job
    BY DEF SaleTypeOK
  <1>2. [job[w] EXCEPT !.pc = "claim", !.tenant = tenant] \in Job
    BY <1>1 DEF Job, Steps
  <1> QED
    BY <1>2 DEF SaleTypeOK

(* Noting that another request claimed first keeps them typed.              *)
LEMMA ClaimedJobType ==
  ASSUME SaleTypeOK, NEW w \in Workers,
         job' = [job EXCEPT ![w].pc = "mint", ![w].claimed = TRUE]
  PROVE  job' \in [Workers -> Job]
  <1>1. job[w] \in Job
    BY DEF SaleTypeOK
  <1>2. [job[w] EXCEPT !.pc = "mint", !.claimed = TRUE] \in Job
    BY <1>1 DEF Job, Steps
  <1> QED
    BY <1>2 DEF SaleTypeOK

(* Noting the minted key keeps the workers typed.                           *)
LEMMA KeyJobType ==
  ASSUME SaleTypeOK, NEW w \in Workers, NEW k \in KeyIds,
         job' = [job EXCEPT ![w].pc = "store", ![w].key = k]
  PROVE  job' \in [Workers -> Job]
  <1>1. job[w] \in Job
    BY DEF SaleTypeOK
  <1>2. [job[w] EXCEPT !.pc = "store", !.key = k] \in Job
    BY <1>1 DEF Job, Steps
  <1> QED
    BY <1>2 DEF SaleTypeOK

(* Each step of a request keeps every type.                                 *)
LEMMA ReadTypes ==
  ASSUME IInv, NEW w \in Workers,
         ReadPurchase(w) \/ ReadReceipt(w) \/ ReadHead(w) \/ CheckTenant(w) \/ MintFails(w) \/ Crash(w)
  PROVE  SaleTypeOK'
  <1>0. SaleTypeOK
    BY DEF IInv
  <1>1. CASE ReadPurchase(w)
    <2>1. Existing(job[w].tx, job[w].buyer) \in Row
      BY <1>0, <1>1, Running, ExistingType DEF ReadPurchase
    <2>2. job' \in [Workers -> Job]
      BY <1>0, <1>1, <2>1, FinishType, SeenJobType DEF ReadPurchase
    <2> QED
      BY <1>0, <1>1, <2>2 DEF ReadPurchase, SaleTypeOK
  <1>2. CASE ReadReceipt(w)
    <2>1. job[w].tx \in Txs
      BY <1>2, Running DEF ReadReceipt
    <2>2. Receipts(job[w].tx) \subseteq 0..MaxHeight
      BY <1>0, <2>1, ConstantsAssumption DEF Receipts, SaleTypeOK, Chain
    <2>3. job' \in [Workers -> Job]
      BY <1>0, <1>2, <2>2, FinishType, BlockJobType DEF ReadReceipt
    <2> QED
      BY <1>0, <1>2, <2>3 DEF ReadReceipt, SaleTypeOK
  <1>6. CASE ReadHead(w)
    <2>1. job' \in [Workers -> Job]
      BY <1>0, <1>6, FinishType, GotoType DEF ReadHead, Steps
    <2> QED
      BY <1>0, <1>6, <2>1 DEF ReadHead, SaleTypeOK
  <1>3. CASE CheckTenant(w)
    <2>1. ChosenTenant(job[w]) \in TenantIds \cup {None}
      BY <1>3, Running DEF CheckTenant, ChosenTenant, TenantIds
    <2>2. job' \in [Workers -> Job]
      BY <1>0, <1>3, <2>1, FinishType, TenantJobType DEF CheckTenant
    <2> QED
      BY <1>0, <1>3, <2>2 DEF CheckTenant, SaleTypeOK
  <1>4. CASE MintFails(w)
    <2>1. job' \in [Workers -> Job]
      BY <1>0, <1>4, FinishType, GotoType DEF MintFails, Steps
    <2> QED
      BY <1>0, <1>4, <2>1 DEF MintFails, SaleTypeOK
  <1>5. CASE Crash(w)
    <2>1. job' \in [Workers -> Job]
      BY <1>0, <1>5, FinishType DEF Crash
    <2>2. faults \in 0..MaxFaults /\ faults < MaxFaults
      BY <1>0, <1>5 DEF Crash, SaleTypeOK
    <2>3. faults + 1 \in 0..MaxFaults
      BY <2>2, ConstantsAssumption
    <2> QED
      BY <1>0, <1>5, <2>1, <2>3 DEF Crash, SaleTypeOK
  <1> QED
    BY <1>1, <1>2, <1>3, <1>4, <1>5, <1>6

(* A reply, built from a row, hands out a typed key.                        *)
LEMMA ReplyTypes ==
  ASSUME IInv, NEW w \in Workers, ReadQuote(w) \/ Reply(w)
  PROVE  SaleTypeOK'
  <1>0. SaleTypeOK
    BY DEF IInv
  <1>1. CASE ReadQuote(w)
    <2>1. <<job[w].tx, job[w].buyer, job[w].seen.subkey>> \in Txs \X Buyers \X KeyIds
      BY <1>1, Running DEF ReadQuote, Row
    <2>2. handed' \subseteq Txs \X Buyers \X KeyIds
      BY <1>0, <1>1, <2>1 DEF ReadQuote, SaleTypeOK
    <2>4. quotes[job[w].quote].price \in Prices \cup {0}
      BY <1>0, <1>1, Running DEF ReadQuote, SaleTypeOK, Quote
    <2>3. job' \in [Workers -> Job]
      BY <1>0, <1>1, <2>4, FinishType, BidJobType DEF ReadQuote, LinkedBids
    <2> QED
      BY <1>0, <1>1, <2>2, <2>3 DEF ReadQuote, SaleTypeOK
  <1>2. CASE Reply(w)
    <2>1. <<job[w].tx, job[w].buyer, rows[job[w].tx].subkey>> \in Txs \X Buyers \X KeyIds
      BY <1>2, Running DEF Reply, Row
    <2>2. handed' \subseteq Txs \X Buyers \X KeyIds
      BY <1>0, <1>2, <2>1 DEF Reply, SaleTypeOK
    <2>3. job' \in [Workers -> Job]
      BY <1>0, <1>2, FinishType DEF Reply
    <2> QED
      BY <1>0, <1>2, <2>2, <2>3 DEF Reply, SaleTypeOK
  <1> QED
    BY <1>1, <1>2

(* The claim, won or lost, keeps every type.                                *)
LEMMA ClaimTypes ==
  ASSUME IInv, NEW w \in Workers, Claim(w)
  PROVE  SaleTypeOK'
  <1>0. SaleTypeOK
    BY DEF IInv
  <1>1. CASE ClaimRow(w)
    <2>1. job' \in [Workers -> Job]
      BY <1>0, <1>1, GotoType DEF ClaimRow, Steps
    <2>2. rows[job[w].tx] \in Row /\ job[w].buyer \in Buyers /\ job[w].quote \in Quotes
      BY Running DEF Claim
    <2>3. [NoRow EXCEPT !.status = "confirmed", !.buyer = job[w].buyer,
                        !.quote = job[w].quote] \in Row
      BY <2>2, NoRowType DEF Row
    <2>4. [rows[job[w].tx] EXCEPT !.buyer = job[w].buyer, !.quote = job[w].quote] \in Row
      BY <2>2 DEF Row
    <2>5. rows' \in [Txs -> Row]
      BY <1>0, <1>1, <2>3, <2>4 DEF ClaimRow, SaleTypeOK
    <2> QED
      BY <1>0, <1>1, <2>1, <2>5 DEF Claim, ClaimRow, SaleTypeOK
  <1>2. CASE ClaimLost(w)
    <2>1. <<job[w].tx, job[w].buyer, rows[job[w].tx].subkey>> \in Txs \X Buyers \X KeyIds
      BY Running DEF Claim, Row
    <2>2. handed' \subseteq Txs \X Buyers \X KeyIds
      BY <1>0, <1>2, <2>1 DEF ClaimLost, SaleTypeOK
    <2>3. job' \in [Workers -> Job]
      BY <1>0, <1>2, FinishType, ClaimedJobType DEF ClaimLost
    <2> QED
      BY <1>0, <1>2, <2>2, <2>3 DEF Claim, ClaimLost, SaleTypeOK
  <1> QED
    BY <1>1, <1>2 DEF Claim

(* The key of a request that has verified its payment.                      *)
NewKey(j) == [tx |-> j.tx, buyer |-> j.buyer, quote |-> j.quote, price |-> j.price]

(* A key issued within the bound is a typed key, and the earlier keys stay. *)
LEMMA Issued ==
  ASSUME IInv, NEW w \in Workers, Issue(w)
  PROVE  /\ issued' \in Seq(Key) /\ Len(issued') = Len(issued) + 1 /\ Len(issued) + 1 \in KeyIds
         /\ DOMAIN issued' = DOMAIN issued \cup {Len(issued) + 1}
         /\ Len(issued) + 1 \notin DOMAIN issued
         /\ \A i \in DOMAIN issued : issued'[i] = issued[i]
         /\ issued'[Len(issued) + 1] = NewKey(job[w])
  <1>1. SaleTypeOK /\ JobOK(job[w])
    BY DEF IInv
  <1>2. job[w].price \in Prices
    BY <1>1, Running DEF Issue, JobOK, PricedOK, SaleTypeOK
  <1>3. NewKey(job[w]) \in Key
    BY <1>2, Running DEF Issue, NewKey, Key
  <1>4. issued' = Append(issued, NewKey(job[w])) /\ Len(issued) < MaxKeys
    BY DEF Issue, NewKey
  <1>5. Len(issued) \in Nat /\ Len(issued) + 1 \in KeyIds
    BY <1>1, <1>4, ConstantsAssumption DEF SaleTypeOK, KeyIds
  <1>6. issued \in Seq(Key)
    BY <1>1 DEF SaleTypeOK
  <1> QED
    BY <1>3, <1>4, <1>5, <1>6

(* Minting, with or without an answer, keeps every type.                    *)
LEMMA MintTypes ==
  ASSUME IInv, NEW w \in Workers, Mint(w) \/ MintLost(w)
  PROVE  SaleTypeOK'
  <1>0. SaleTypeOK
    BY DEF IInv
  <1>1. CASE Mint(w)
    <2>1. issued' \in Seq(Key) /\ Len(issued') \in KeyIds /\ Len(issued) + 1 \in KeyIds
      BY <1>1, Issued DEF Mint
    <2>2. job' \in [Workers -> Job]
      BY <1>0, <1>1, <2>1, KeyJobType DEF Mint
    <2> QED
      BY <1>0, <1>1, <2>1, <2>2 DEF Mint, SaleTypeOK
  <1>2. CASE MintLost(w)
    <2>1. issued' \in Seq(Key) /\ Len(issued') \in KeyIds
      BY <1>2, Issued DEF MintLost
    <2>2. job' \in [Workers -> Job]
      BY <1>0, <1>2, GotoType DEF MintLost, Steps
    <2>3. faults' \in 0..MaxFaults
      BY <1>0, <1>2, ConstantsAssumption DEF MintLost, SaleTypeOK
    <2> QED
      BY <1>0, <1>2, <2>1, <2>2, <2>3 DEF MintLost, SaleTypeOK
  <1> QED
    BY <1>1, <1>2

(* Saving the tenant, or failing to, keeps every type.                      *)
LEMMA StoreTypes ==
  ASSUME IInv, NEW w \in Workers, SaveTenant(w) \/ SaveTenantFails(w)
  PROVE  SaleTypeOK'
  <1>0. SaleTypeOK
    BY DEF IInv
  <1>1. CASE SaveTenant(w)
    <2>1. [exists |-> TRUE, owner |-> job[w].buyer, subkey |-> job[w].key] \in Tenant
      BY <1>1, Running DEF SaveTenant, Tenant
    <2>2. tenants' \in [TenantIds -> Tenant]
      BY <1>0, <1>1, <2>1 DEF SaveTenant, SaleTypeOK
    <2>3. job' \in [Workers -> Job]
      BY <1>0, <1>1, GotoType DEF SaveTenant, Steps
    <2> QED
      BY <1>0, <1>1, <2>2, <2>3 DEF SaveTenant, SaleTypeOK
  <1>2. CASE SaveTenantFails(w)
    <2>1. job' \in [Workers -> Job]
      BY <1>0, <1>2, GotoType DEF SaveTenantFails, Steps
    <2>2. faults \in 0..MaxFaults /\ faults < MaxFaults
      BY <1>0, <1>2 DEF SaveTenantFails, SaleTypeOK
    <2>3. faults + 1 \in 0..MaxFaults
      BY <2>2, ConstantsAssumption
    <2> QED
      BY <1>0, <1>2, <2>1, <2>3 DEF SaveTenantFails, SaleTypeOK
  <1> QED
    BY <1>1, <1>2

(* The last commit of a request keeps every type.                           *)
LEMMA CommitTypes ==
  ASSUME IInv, NEW w \in Workers, Fulfil(w) \/ RecordFailure(w)
  PROVE  SaleTypeOK'
  <1>0. SaleTypeOK
    BY DEF IInv
  <1>1. CASE Fulfil(w)
    <2>0. job[w] \in Job
      BY <1>0 DEF SaleTypeOK
    <2>1. [rows[job[w].tx] EXCEPT !.status = "fulfilled", !.tenant = job[w].tenant,
                                  !.subkey = job[w].key] \in Row
      BY <1>1, Running DEF Fulfil, Row
    <2>2. rows' \in [Txs -> Row]
      BY <1>0, <1>1, <2>1 DEF Fulfil, SaleTypeOK
    <2>3. quotes' \in [Quotes -> Quote]
      BY <1>0, <1>1 DEF Fulfil, SaleTypeOK, Quote
    <2>4. job' \in [Workers -> Job]
      BY <1>0, <1>1, GotoType DEF Fulfil, Steps
    <2> QED
      BY <1>0, <1>1, <2>2, <2>3, <2>4 DEF Fulfil, SaleTypeOK
  <1>2. CASE RecordFailure(w)
    <2>1. [rows[job[w].tx] EXCEPT !.status = "confirmed"] \in Row
      BY <1>2, Running DEF RecordFailure, Row
    <2>2. rows' \in [Txs -> Row]
      BY <1>0, <1>2, <2>1 DEF RecordFailure, SaleTypeOK
    <2>3. job' \in [Workers -> Job]
      BY <1>0, <1>2, GotoType DEF RecordFailure, Steps
    <2> QED
      BY <1>0, <1>2, <2>2, <2>3 DEF RecordFailure, SaleTypeOK
  <1> QED
    BY <1>1, <1>2

(* Every step keeps every type.                                             *)
LEMMA NextTypes ==
  ASSUME IInv, [Step]_state
  PROVE  SaleTypeOK'
  <1>0. SaleTypeOK
    BY DEF IInv
  <1>1. ASSUME NEW w \in Workers, Request(w) \/ Progress(w) \/ Crash(w)
        PROVE  SaleTypeOK'
    BY <1>1, RequestTypes, ReadTypes, ReplyTypes, ClaimTypes, MintTypes, StoreTypes, CommitTypes
       DEF Progress
  <1>2. CASE UNCHANGED state
    BY <1>0, <1>2 DEF SaleTypeOK, state
  <1> QED
    BY <1>0, <1>1, <1>2, EnvironmentTypes DEF Step

-----------------------------------------------------------------------------
(* What a request has established, no step of another can undo: payments   *)
(* once seen stay deep or are dropped, quotes stay listed at their prices,  *)
(* rows keep their wallet and quote, keys stay issued.                      *)
Grows ==
    /\ \A t \in Txs : /\ t \in Deep \cup Dropped => t \in (Deep \cup Dropped)'
                      /\ Receipts(t) \subseteq Receipts(t)'
    /\ \A q \in Quotes : listed[q] \subseteq listed'[q]
    /\ \A t \in Txs : rows[t].status # "absent" =>
           /\ rows'[t].status # "absent"
           /\ rows'[t].buyer = rows[t].buyer
           /\ rows'[t].quote = rows[t].quote
    /\ \A i \in DOMAIN issued : i \in DOMAIN issued' /\ issued'[i] = issued[i]

(* A step that leaves the chain alone changes nothing that was seen of it.  *)
LEMMA ChainSame ==
  ASSUME chain' = chain
  PROVE  Deep' = Deep /\ Dropped' = Dropped /\ \A t \in Txs : Receipts(t)' = Receipts(t)
  BY DEF Deep, Dropped, Receipts, DeepEnough, Depth

(* A block buries the earlier ones, and a reorganisation leaves a trace.    *)
LEMMA ChainGrows ==
  ASSUME SaleTypeOK, Block \/ \E t \in Txs : Reorg(t), NEW u \in Txs
  PROVE  /\ u \in Deep \cup Dropped => u \in (Deep \cup Dropped)'
         /\ Receipts(u) \subseteq Receipts(u)'
  <1>0. /\ chain.head \in Nat /\ chain.mined[u] \in Nat /\ MinConf \in Nat
        /\ chain \in Chain
    BY ConstantsAssumption DEF SaleTypeOK, Chain
  <1>1. CASE Block
    <2>1. PICK included \in SUBSET {t \in Txs : chain.mined[t] = 0} :
            chain' = [chain EXCEPT !.head = @ + 1,
                                   !.mined = [t \in Txs |-> IF t \in included THEN chain.head + 1
                                                            ELSE chain.mined[t]]]
      BY <1>1 DEF Block
    <2>2. /\ chain'.head = chain.head + 1 /\ chain'.stale = chain.stale
          /\ chain.mined[u] # 0 => chain'.mined[u] = chain.mined[u]
      BY <1>0, <2>1 DEF Chain
    <2> QED
      BY <1>0, <2>2 DEF Deep, Dropped, Receipts, DeepEnough, Depth
  <1>2. ASSUME NEW t \in Txs, Reorg(t)
        PROVE  /\ u \in Deep \cup Dropped => u \in (Deep \cup Dropped)'
               /\ Receipts(u) \subseteq Receipts(u)'
    <2>1. /\ chain'.head = chain.head
          /\ chain'.mined = [chain.mined EXCEPT ![t] = 0]
          /\ chain'.stale = [chain.stale EXCEPT ![t] = @ \cup {chain.mined[t]}]
      BY <1>2, ReorgFields
    <2>0. chain.mined \in [Txs -> 0..MaxHeight] /\ chain.stale \in [Txs -> SUBSET (1..MaxHeight)]
      BY <1>0 DEF Chain
    <2>2. CASE u = t
      <3>1. chain'.mined[u] = 0 /\ chain'.stale[u] = chain.stale[u] \cup {chain.mined[u]}
        BY <2>0, <2>1, <2>2
      <3> QED
        BY <1>2, <2>2, <3>1 DEF Reorg, Dropped, Receipts
    <2>3. CASE u # t
      <3>1. chain'.mined[u] = chain.mined[u] /\ chain'.stale[u] = chain.stale[u]
        BY <2>0, <2>1, <2>3
      <3> QED
        BY <2>1, <3>1 DEF Deep, Dropped, Receipts, DeepEnough, Depth
    <2> QED
      BY <2>2, <2>3
  <1> QED
    BY <1>1, <1>2

(* The chain and the clock undo nothing a request has established.          *)
LEMMA EnvironmentGrows ==
  ASSUME SaleTypeOK, Environment
  PROVE  Grows
  <1>1. CASE Block \/ \E t \in Txs : Reorg(t)
    <2>1. UNCHANGED <<listed, rows, issued>>
      BY <1>1 DEF Block, Reorg
    <2> QED
      BY <1>1, <2>1, ChainGrows DEF Grows
  <1>2. ASSUME NEW q \in Quotes, Lapse(q) \/ \E p \in Prices : PersistQuote(q, p)
        PROVE  Grows
    <2>1. \A r \in Quotes : listed[r] \subseteq listed'[r]
      BY <1>2 DEF PersistQuote, Lapse, SaleTypeOK
    <2>2. UNCHANGED <<chain, rows, issued>>
      BY <1>2 DEF PersistQuote, Lapse
    <2> QED
      BY <2>1, <2>2, ChainSame DEF Grows
  <1> QED
    BY <1>1, <1>2 DEF Environment

(* A claim inserts a row, or leaves wallet and quote as they were.          *)
LEMMA ClaimGrows ==
  ASSUME IInv, NEW w \in Workers, Claim(w)
  PROVE  Grows
  <1>0. SaleTypeOK /\ SeenOK(job[w])
    BY DEF IInv, JobOK
  <1>1. CASE ClaimLost(w)
    BY <1>1, ChainSame DEF Claim, ClaimLost, Grows
  <1>2. CASE ClaimRow(w)
    <2>1. ASSUME NEW t \in Txs, rows[t].status # "absent"
          PROVE  /\ rows'[t].status = rows[t].status
                 /\ rows'[t].buyer = rows[t].buyer
                 /\ rows'[t].quote = rows[t].quote
      <3>1. rows[t] \in Row
        BY <1>0 DEF SaleTypeOK
      <3>2. CASE t = job[w].tx
        <4>1. job[w].seen.status # "absent"
          BY <1>2, <2>1, <3>2 DEF ClaimRow
        <4>2. rows[t].buyer = job[w].buyer /\ rows[t].quote = job[w].quote
          BY <1>0, <3>2, <4>1 DEF SeenOK, Recorded, Claim
        <4>3. rows'[t] = [rows[t] EXCEPT !.buyer = job[w].buyer, !.quote = job[w].quote]
          BY <1>0, <1>2, <3>2, <4>1 DEF ClaimRow, SaleTypeOK
        <4> QED
          BY <3>1, <4>2, <4>3 DEF Row
      <3>3. CASE t # job[w].tx
        BY <1>0, <1>2, <3>3 DEF ClaimRow, SaleTypeOK
      <3> QED
        BY <3>2, <3>3
    <2> QED
      BY <1>2, <2>1, ChainSame DEF Claim, Grows
  <1> QED
    BY <1>1, <1>2 DEF Claim

(* Issuing a key leaves the earlier keys in place.                          *)
LEMMA MintGrows ==
  ASSUME IInv, NEW w \in Workers, Mint(w) \/ MintLost(w)
  PROVE  Grows
  <1>1. Issue(w) /\ UNCHANGED <<chain, listed, rows>>
    BY DEF Mint, MintLost
  <1> QED
    BY <1>1, Issued, ChainSame DEF Grows

(* The last commit keeps the wallet and the quote of its row.               *)
LEMMA CommitGrows ==
  ASSUME IInv, NEW w \in Workers, Fulfil(w) \/ RecordFailure(w)
  PROVE  Grows
  <1>1. ASSUME NEW t \in Txs, rows[t].status # "absent"
        PROVE  /\ rows'[t].status # "absent"
               /\ rows'[t].buyer = rows[t].buyer
               /\ rows'[t].quote = rows[t].quote
    <2>1. rows[t] \in Row
      BY DEF IInv, SaleTypeOK
    <2>2. CASE t = job[w].tx
      <3>1. \/ rows'[t] = rows[t]
            \/ rows'[t] = [rows[t] EXCEPT !.status = "confirmed"]
            \/ rows'[t] = [rows[t] EXCEPT !.status = "fulfilled", !.tenant = job[w].tenant,
                                          !.subkey = job[w].key]
        BY <2>2 DEF Fulfil, RecordFailure, IInv, SaleTypeOK
      <3> QED
        BY <1>1, <2>1, <3>1 DEF Row
    <2>3. CASE t # job[w].tx
      BY <1>1, <2>3 DEF Fulfil, RecordFailure, IInv, SaleTypeOK
    <2> QED
      BY <2>2, <2>3
  <1> QED
    BY <1>1, ChainSame DEF Fulfil, RecordFailure, Grows

(* No step undoes what a request has established.                           *)
LEMMA StepGrows ==
  ASSUME IInv, [Step]_state
  PROVE  Grows
  <1>0. SaleTypeOK
    BY DEF IInv
  <1>1. ASSUME NEW w \in Workers, Request(w) \/ Progress(w) \/ Crash(w)
        PROVE  Grows
    <2>1. CASE Claim(w)
      BY <2>1, ClaimGrows
    <2>2. CASE Mint(w) \/ MintLost(w)
      BY <2>2, MintGrows
    <2>3. CASE Fulfil(w) \/ RecordFailure(w)
      BY <2>3, CommitGrows
    <2>4. CASE \/ Request(w) \/ Crash(w) \/ ReadPurchase(w) \/ ReadQuote(w) \/ ReadReceipt(w) \/ ReadHead(w)
               \/ CheckTenant(w) \/ MintFails(w) \/ SaveTenant(w) \/ SaveTenantFails(w) \/ Reply(w)
      <3>1. UNCHANGED <<chain, listed, rows, issued>>
        BY <2>4 DEF Request, Verify, Recover, Crash, ReadPurchase, ReadQuote, ReadReceipt, ReadHead,
                    CheckTenant, MintFails, SaveTenant, SaveTenantFails, Reply
      <3> QED
        BY <3>1, ChainSame DEF Grows
    <2> QED
      BY <1>1, <2>1, <2>2, <2>3, <2>4 DEF Progress
  <1>2. CASE UNCHANGED state
    BY <1>2, ChainSame DEF state, Grows
  <1> QED
    BY <1>0, <1>1, <1>2, EnvironmentGrows DEF Step

(* So what a request has established holds after every step of another.     *)
LEMMA JobKept ==
  ASSUME IInv, Grows, NEW v \in Workers, job'[v] = job[v]
  PROVE  JobOK(job[v])'
  <1>0. JobOK(job[v])
    BY DEF IInv
  <1>1. CASE job[v].pc = "idle"
    BY <1>1 DEF JobOK, RequestOK, SeenOK, PricedOK, ReceiptOK, VerifiedOK, GrantedOK, ClaimedOK, MintedOK
  <1>2. CASE job[v].pc # "idle"
    <2>1. job[v].tx \in Txs
      BY <1>2, Running
    <2>2. RequestOK(job[v])' /\ GrantedOK(job[v])'
      BY <1>0 DEF JobOK, RequestOK, GrantedOK
    <2>3. SeenOK(job[v])'
      BY <1>0, <2>1 DEF JobOK, SeenOK, Recorded, KeyRecorded, KeyOf, Grows
    <2>4. VerifiedOK(job[v])' /\ PricedOK(job[v])' /\ ReceiptOK(job[v])'
      BY <1>0, <2>1, <1>2, Running DEF JobOK, VerifiedOK, PricedOK, ReceiptOK, Verifies, Grows
    <2>5. ClaimedOK(job[v])'
      BY <1>0, <2>1 DEF JobOK, ClaimedOK, Recorded, Grows
    <2>6. MintedOK(job[v])'
      BY <1>0 DEF JobOK, MintedOK, KeyOf, Grows
    <2> QED
      BY <2>2, <2>3, <2>4, <2>5, <2>6 DEF JobOK
  <1> QED
    BY <1>1, <1>2

(* An idle worker has nothing to have established.                          *)
LEMMA IdleJobOK ==
  ASSUME SaleTypeOK, NEW w \in Workers, Finish(w)
  PROVE  JobOK(job[w])'
  <1>1. job'[w].pc = "idle" /\ job'[w].seen.status = "absent"
    BY DEF Finish, SaleTypeOK, IdleJob, NoRow
  <1> QED
    BY <1>1 DEF JobOK, RequestOK, SeenOK, PricedOK, ReceiptOK, VerifiedOK, GrantedOK, ClaimedOK, MintedOK

(* A step that keeps all but one worker's record keeps every request's      *)
(* knowledge, once that worker's is shown.                                  *)
LEMMA JobsKept ==
  ASSUME IInv, Grows, NEW w \in Workers, \A v \in Workers \ {w} : job'[v] = job[v],
         JobOK(job[w])'
  PROVE  \A v \in Workers : JobOK(job[v])'
  <1>1. ASSUME NEW v \in Workers, v # w
        PROVE  JobOK(job[v])'
    BY <1>1, JobKept
  <1> QED
    BY <1>1

(* An issued key was paid for, and stays paid for.                          *)
LEMMA KeyKept ==
  ASSUME IInv, Grows, NEW i \in DOMAIN issued
  PROVE  KeyOK(issued[i])'
  <1>1. KeyOK(issued[i]) /\ issued'[i] = issued[i]
    BY DEF IInv, Grows
  <1>2. issued[i] \in Key
    BY DEF IInv, SaleTypeOK
  <1>3. issued[i].tx \in Txs /\ issued[i].quote \in Quotes
    BY <1>2 DEF Key
  <1> QED
    BY <1>1, <1>3 DEF KeyOK, Recorded, Verifies, Grows

(* What replies and tenants hold stays issued.                              *)
LEMMA HoldersKept ==
  ASSUME IInv, Grows
  PROVE  /\ handed' = handed => HandedToPayer'
         /\ quotes' = quotes => FilledQuoteHasKey'
         /\ tenants' = tenants => DefaultTenantIsOwn'
  <1>1. ASSUME handed' = handed PROVE HandedToPayer'
    BY <1>1 DEF IInv, HandedToPayer, Grows
  <1>2. ASSUME quotes' = quotes PROVE FilledQuoteHasKey'
    BY <1>2 DEF IInv, FilledQuoteHasKey, Grows
  <1>3. ASSUME tenants' = tenants PROVE DefaultTenantIsOwn'
    BY <1>3 DEF IInv, DefaultTenantIsOwn, Grows
  <1> QED
    BY <1>1, <1>2, <1>3

-----------------------------------------------------------------------------
(* What each step establishes for the request that takes it.                *)

(* A step of the same request keeps its wallet's claims.                    *)
LEMMA SameRequest ==
  ASSUME IInv, Grows, NEW w \in Workers, job[w].pc # "idle",
         job'[w].tx = job[w].tx, job'[w].buyer = job[w].buyer,
         job'[w].quote = job[w].quote
  PROVE  /\ RequestOK(job[w])'
         /\ job'[w].seen = job[w].seen => SeenOK(job[w])'
         /\ \A p \in listed[job[w].quote] : p \in listed'[job'[w].quote]
         /\ \A p : Verifies(job[w].tx, job[w].buyer, job[w].quote, p)
                    /\ job'[w].price = p
                      => Verifies(job[w].tx, job[w].buyer, job[w].quote, job[w].price)'
         /\ Recorded(job[w].tx, job[w].buyer) => Recorded(job[w].tx, job[w].buyer)'
  <1>1. job[w].tx \in Txs /\ job[w].quote \in Quotes /\ JobOK(job[w])
    BY Running DEF IInv
  <1>2. RequestOK(job[w])'
    BY Running DEF RequestOK
  <1>3. job'[w].seen = job[w].seen => SeenOK(job[w])'
    BY <1>1 DEF JobOK, SeenOK, Recorded, KeyRecorded, KeyOf, Grows
  <1>4. ASSUME NEW p, Verifies(job[w].tx, job[w].buyer, job[w].quote, p), job'[w].price = p
        PROVE  Verifies(job[w].tx, job[w].buyer, job[w].quote, job[w].price)'
    BY <1>1, <1>4 DEF Verifies, Grows
  <1>5. Recorded(job[w].tx, job[w].buyer) => Recorded(job[w].tx, job[w].buyer)'
    BY <1>1 DEF Recorded, Grows
  <1>6. \A p \in listed[job[w].quote] : p \in listed'[job'[w].quote]
    BY <1>1 DEF Grows
  <1> QED
    BY <1>2, <1>3, <1>4, <1>5, <1>6

(* A request just accepted has established nothing yet.                     *)
LEMMA RequestJob ==
  ASSUME IInv, NEW w \in Workers, Request(w)
  PROVE  JobOK(job[w])' /\ \A v \in Workers \ {w} : job'[v] = job[v]
  <1>1. ASSUME NEW t \in Txs, NEW b \in Buyers, NEW q \in Quotes, NEW tenant, Accept(w, t, b, q, tenant)
        PROVE  JobOK(job[w])' /\ \A v \in Workers \ {w} : job'[v] = job[v]
    <2>1. /\ job'[w] = [IdleJob EXCEPT !.pc = "purchase", !.tx = t, !.buyer = b, !.quote = q,
                                       !.tenant = tenant]
          /\ \A v \in Workers \ {w} : job'[v] = job[v]
      BY <1>1 DEF Accept, IInv, SaleTypeOK
    <2>2. /\ job'[w].pc = "purchase" /\ job'[w].seen.status = "absent"
          /\ job'[w].tx = t /\ job'[w].buyer = b /\ job'[w].quote = q
      BY <2>1 DEF IdleJob, NoRow
    <2> QED
      BY <2>1, <2>2 DEF JobOK, RequestOK, SeenOK, PricedOK, ReceiptOK, VerifiedOK, GrantedOK, ClaimedOK, MintedOK
  <1>2. ASSUME NEW t \in Txs, NEW b \in Buyers, Recover(w, t, b)
        PROVE  rows[t].quote \in Quotes
    BY <1>2 DEF Recover, Existing, NoRow, IInv, RowOK
  <1> QED
    BY <1>1, <1>2 DEF Request, Verify, Recover

(* After the lookup, what was loaded is for this wallet and quote.          *)
LEMMA ReadPurchaseJob ==
  ASSUME IInv, Grows, NEW w \in Workers, ReadPurchase(w)
  PROVE  JobOK(job[w])' /\ \A v \in Workers \ {w} : job'[v] = job[v]
  <1> DEFINE existing == Existing(job[w].tx, job[w].buyer)
  <1>0. SaleTypeOK
    BY DEF IInv
  <1>1. CASE Finish(w)
    BY <1>0, <1>1, IdleJobOK DEF Finish, SaleTypeOK
  <1>2. CASE /\ existing.status # "absent" => existing.quote = job[w].quote
             /\ job' = [job EXCEPT ![w].pc = "quote", ![w].seen = existing]
    <2>1. /\ job'[w] = [job[w] EXCEPT !.pc = "quote", !.seen = existing]
          /\ \A v \in Workers \ {w} : job'[v] = job[v]
      BY <1>0, <1>2 DEF SaleTypeOK
    <2>2. job[w] \in Job
      BY <1>0 DEF SaleTypeOK
    <2>3. /\ job'[w].pc = "quote" /\ job'[w].seen = existing
          /\ job'[w].tx = job[w].tx /\ job'[w].buyer = job[w].buyer
          /\ job'[w].quote = job[w].quote
      BY <2>1, <2>2 DEF Job
    <2>4. existing.status # "absent" => /\ existing = rows[job[w].tx]
                                        /\ Recorded(job[w].tx, job[w].buyer)
      BY DEF Existing, Recorded, NoRow
    <2>5. RequestOK(job[w])'
      BY <2>3, SameRequest DEF ReadPurchase
    <2>6. job[w].tx \in Txs
      BY Running DEF ReadPurchase
    <2>7. ASSUME existing.status # "absent", KeyRecorded(existing)
          PROVE  KeyOf(existing.subkey, job[w].tx, job[w].buyer)
      BY <2>4, <2>6, <2>7 DEF IInv, RowOK, KeyRecorded, Recorded
    <2>8. SeenOK(job[w])'
      BY <1>2, <2>3, <2>4, <2>7 DEF SeenOK, Recorded, KeyOf, KeyRecorded, ReadPurchase
    <2> QED
      BY <2>1, <2>3, <2>5, <2>8
         DEF JobOK, PricedOK, ReceiptOK, VerifiedOK, GrantedOK, ClaimedOK, MintedOK
  <1> QED
    BY <1>1, <1>2 DEF ReadPurchase

(* A request that goes on from the quote holds a price it was listed at.    *)
LEMMA ReadQuoteJob ==
  ASSUME IInv, Grows, NEW w \in Workers, ReadQuote(w)
  PROVE  JobOK(job[w])' /\ \A v \in Workers \ {w} : job'[v] = job[v]
  <1> DEFINE q == job[w].quote
  <1>0. SaleTypeOK /\ job[w] \in Job
    BY DEF IInv, SaleTypeOK
  <1>1. CASE Finish(w)
    BY <1>0, <1>1, IdleJobOK DEF Finish, SaleTypeOK
  <1>2. CASE ~Finish(w)
    <2>1. PICK x \in Bids \cup {None} :
            /\ quotes[q].status # "absent"
            /\ job' = [job EXCEPT ![w].pc = "chain", ![w].bid = x,
                                  ![w].price = quotes[q].price]
      BY <1>2 DEF ReadQuote, Payable, LinkedBids
    <2>2. /\ job'[w] = [job[w] EXCEPT !.pc = "chain", !.bid = x, !.price = quotes[q].price]
          /\ \A v \in Workers \ {w} : job'[v] = job[v]
      BY <1>0, <2>1 DEF SaleTypeOK
    <2>3. /\ job'[w].pc = "chain" /\ job'[w].seen = job[w].seen
          /\ job'[w].tx = job[w].tx /\ job'[w].buyer = job[w].buyer
          /\ job'[w].quote = q /\ job'[w].price = quotes[q].price
      BY <1>0, <2>2 DEF Job
    <2>4. RequestOK(job[w])' /\ SeenOK(job[w])'
      BY <2>3, SameRequest DEF ReadQuote
    <2>5. quotes[q].price \in listed[q]
      BY <2>1, Running DEF ReadQuote, IInv, QuoteOK
    <2>6. PricedOK(job[w])'
      BY <2>3, <2>5, SameRequest DEF ReadQuote, PricedOK
    <2> QED
      BY <2>2, <2>3, <2>4, <2>6 DEF JobOK, ReceiptOK, VerifiedOK, GrantedOK, ClaimedOK, MintedOK
  <1> QED
    BY <1>1, <1>2

(* Moving on to the next step changes nothing else of the request.          *)
LEMMA GotoJob ==
  ASSUME IInv, Grows, NEW w \in Workers, job[w].pc # "idle", NEW step, Goto(w, step)
  PROVE  /\ job'[w].pc = step
         /\ job'[w].tx = job[w].tx /\ job'[w].buyer = job[w].buyer
         /\ job'[w].quote = job[w].quote /\ job'[w].tenant = job[w].tenant
         /\ job'[w].key = job[w].key /\ job'[w].price = job[w].price
         /\ RequestOK(job[w])' /\ SeenOK(job[w])'
         /\ \A v \in Workers \ {w} : job'[v] = job[v]
  <1>1. job[w] \in Job
    BY DEF IInv, SaleTypeOK
  <1>2. job'[w] = [job[w] EXCEPT !.pc = step] /\ \A v \in Workers \ {w} : job'[v] = job[v]
    BY DEF Goto, IInv, SaleTypeOK
  <1>3. /\ job'[w].pc = step /\ job'[w].seen = job[w].seen
        /\ job'[w].tx = job[w].tx /\ job'[w].buyer = job[w].buyer
        /\ job'[w].quote = job[w].quote /\ job'[w].tenant = job[w].tenant
        /\ job'[w].key = job[w].key /\ job'[w].price = job[w].price
    BY <1>1, <1>2 DEF Job
  <1> QED
    BY <1>2, <1>3, SameRequest

(* After the first RPC call the request holds a receipt of the payment.     *)
LEMMA ReceiptJob ==
  ASSUME IInv, Grows, NEW w \in Workers, ReadReceipt(w)
  PROVE  JobOK(job[w])' /\ \A v \in Workers \ {w} : job'[v] = job[v]
  <1>0. SaleTypeOK /\ JobOK(job[w]) /\ job[w] \in Job
    BY DEF IInv, SaleTypeOK
  <1>1. CASE Finish(w)
    BY <1>0, <1>1, IdleJobOK DEF Finish, SaleTypeOK
  <1>2. CASE ~Finish(w)
    <2>1. PICK block \in Receipts(job[w].tx) :
            job' = [job EXCEPT ![w].pc = "head", ![w].block = block]
      BY <1>2 DEF ReadReceipt
    <2>2. /\ job'[w] = [job[w] EXCEPT !.pc = "head", !.block = block]
          /\ \A v \in Workers \ {w} : job'[v] = job[v]
      BY <1>0, <2>1 DEF SaleTypeOK
    <2>3. /\ job'[w].pc = "head" /\ job'[w].seen = job[w].seen
          /\ job'[w].tx = job[w].tx /\ job'[w].buyer = job[w].buyer
          /\ job'[w].quote = job[w].quote /\ job'[w].price = job[w].price
          /\ job'[w].block = block
      BY <1>0, <2>2 DEF Job
    <2>4. RequestOK(job[w])' /\ SeenOK(job[w])'
      BY <2>3, SameRequest DEF ReadReceipt
    <2>5. PricedOK(job[w])'
      BY <1>0, <2>3, SameRequest DEF ReadReceipt, JobOK, PricedOK
    <2>6. ReceiptOK(job[w])'
      <3>1. job[w].tx \in Txs
        BY Running DEF ReadReceipt
      <3>2. block \in Receipts(job[w].tx)'
        BY <2>3, <3>1 DEF Grows, ReadReceipt
      <3> QED
        BY <2>3, <3>2 DEF ReceiptOK
    <2> QED
      BY <2>2, <2>3, <2>4, <2>5, <2>6 DEF JobOK, VerifiedOK, GrantedOK, ClaimedOK, MintedOK
  <1> QED
    BY <1>1, <1>2

(* After the second the payment verifies: its receipt was of its own block, *)
(* now deep enough, or of one it has been dropped from.  After the tenant   *)
(* check the tenant is granted.                                             *)
LEMMA CheckJob ==
  ASSUME IInv, Grows, NEW w \in Workers, ReadHead(w) \/ CheckTenant(w)
  PROVE  JobOK(job[w])' /\ \A v \in Workers \ {w} : job'[v] = job[v]
  <1>0. SaleTypeOK /\ JobOK(job[w]) /\ job[w] \in Job
    BY DEF IInv, SaleTypeOK
  <1>1. CASE Finish(w)
    BY <1>0, <1>1, IdleJobOK DEF Finish, SaleTypeOK
  <1>2. CASE /\ ReadHead(w) /\ Goto(w, "tenant")
             /\ DeepEnough(job[w].block)
             /\ Covers(job[w].tx, job[w].buyer, job[w].quote, job[w].price)
    <2>1. job[w].tx \in Txs /\ job[w].block \in Receipts(job[w].tx)
          /\ job[w].price \in listed[job[w].quote]
      BY <1>0, <1>2, Running DEF ReadHead, JobOK, ReceiptOK, PricedOK
    <2>2. job[w].tx \in Deep \cup Dropped
      BY <1>2, <2>1 DEF DeepEnough, Receipts, Deep, Dropped
    <2>3. Verifies(job[w].tx, job[w].buyer, job[w].quote, job[w].price)
      BY <1>2, <2>1, <2>2 DEF Verifies
    <2>4. Verifies(job[w].tx, job[w].buyer, job[w].quote, job[w].price)'
      BY <1>2, <2>3, GotoJob, SameRequest DEF ReadHead
    <2>5. VerifiedOK(job[w])' /\ PricedOK(job[w])'
      BY <2>4 DEF VerifiedOK, PricedOK, Verifies
    <2> QED
      BY <1>2, <2>5, GotoJob DEF ReadHead, JobOK, ReceiptOK, GrantedOK, ClaimedOK, MintedOK
  <1>3. CASE /\ CheckTenant(w) /\ TenantGranted(job[w])
             /\ job' = [job EXCEPT ![w].pc = "claim", ![w].tenant = ChosenTenant(job[w])]
    <2>1. /\ job'[w] = [job[w] EXCEPT !.pc = "claim", !.tenant = ChosenTenant(job[w])]
          /\ \A v \in Workers \ {w} : job'[v] = job[v]
      BY <1>0, <1>3 DEF SaleTypeOK
    <2>2. /\ job'[w].pc = "claim" /\ job'[w].seen = job[w].seen
          /\ job'[w].tx = job[w].tx /\ job'[w].buyer = job[w].buyer
          /\ job'[w].quote = job[w].quote /\ job'[w].tenant = ChosenTenant(job[w])
          /\ job'[w].price = job[w].price
      BY <1>0, <2>1 DEF Job
    <2>3. RequestOK(job[w])' /\ SeenOK(job[w])'
      BY <1>3, <2>2, SameRequest DEF CheckTenant
    <2>4. VerifiedOK(job[w])' /\ PricedOK(job[w])'
      BY <1>0, <1>3, <2>2, SameRequest DEF CheckTenant, JobOK, VerifiedOK, PricedOK
    <2>5. GrantedOK(job[w])'
      BY <1>3, <2>2 DEF TenantGranted, GrantedOK
    <2> QED
      BY <2>1, <2>2, <2>3, <2>4, <2>5 DEF JobOK, ReceiptOK, ClaimedOK, MintedOK
  <1> QED
    BY <1>1, <1>2, <1>3 DEF ReadHead, CheckTenant

(* After the claim the payment is recorded for this wallet.                 *)
LEMMA ClaimJob ==
  ASSUME IInv, Grows, NEW w \in Workers, Claim(w)
  PROVE  JobOK(job[w])' /\ \A v \in Workers \ {w} : job'[v] = job[v]
  <1>0. SaleTypeOK /\ JobOK(job[w]) /\ job[w] \in Job
    BY DEF IInv, SaleTypeOK
  <1>1. CASE Finish(w)
    BY <1>0, <1>1, IdleJobOK DEF Finish, SaleTypeOK
  <1>2. CASE ~Finish(w)
    <2>1. /\ \/ job'[w] = [job[w] EXCEPT !.pc = "mint"]
             \/ job'[w] = [job[w] EXCEPT !.pc = "mint", !.claimed = TRUE]
          /\ \A v \in Workers \ {w} : job'[v] = job[v]
      BY <1>0, <1>2 DEF Claim, ClaimRow, ClaimLost, Goto, SaleTypeOK
    <2>2. /\ job'[w].pc = "mint" /\ job'[w].seen = job[w].seen
          /\ job'[w].tx = job[w].tx /\ job'[w].buyer = job[w].buyer
          /\ job'[w].quote = job[w].quote /\ job'[w].tenant = job[w].tenant
          /\ job'[w].price = job[w].price
      BY <1>0, <2>1 DEF Job
    <2>3. RequestOK(job[w])' /\ SeenOK(job[w])'
      BY <2>2, SameRequest DEF Claim
    <2>4. VerifiedOK(job[w])' /\ PricedOK(job[w])'
      BY <1>0, <2>2, SameRequest DEF Claim, JobOK, VerifiedOK, PricedOK
    <2>5. GrantedOK(job[w])'
      BY <1>0, <2>2 DEF Claim, JobOK, GrantedOK
    <2>6. Recorded(job[w].tx, job[w].buyer)'
      <3>1. job[w].tx \in Txs /\ rows[job[w].tx] \in Row
        BY Running DEF Claim
      <3>2. CASE ClaimLost(w)
        BY <1>2, <2>2, <3>1, <3>2 DEF ClaimLost, Recorded
      <3>3. CASE ClaimRow(w) /\ job[w].seen.status = "absent"
        <4>1. rows'[job[w].tx] = [NoRow EXCEPT !.status = "confirmed", !.buyer = job[w].buyer,
                                               !.quote = job[w].quote]
          BY <1>0, <3>1, <3>3 DEF ClaimRow, SaleTypeOK
        <4>2. rows'[job[w].tx].status = "confirmed" /\ rows'[job[w].tx].buyer = job[w].buyer
          BY <4>1 DEF NoRow
        <4> QED
          BY <2>2, <4>2 DEF Recorded
      <3>4. CASE ClaimRow(w) /\ job[w].seen.status # "absent"
        BY <1>0, <2>2, <3>1, <3>4, SameRequest DEF Claim, JobOK, SeenOK, Recorded
      <3> QED
        BY <3>2, <3>3, <3>4 DEF Claim
    <2> QED
      BY <2>1, <2>2, <2>3, <2>4, <2>5, <2>6 DEF JobOK, ReceiptOK, ClaimedOK, MintedOK, Recorded
  <1> QED
    BY <1>1, <1>2

(* After the mint the key in hand was issued for this request.              *)
LEMMA MintJob ==
  ASSUME IInv, Grows, NEW w \in Workers, Mint(w)
  PROVE  JobOK(job[w])' /\ \A v \in Workers \ {w} : job'[v] = job[v]
  <1>0. SaleTypeOK /\ JobOK(job[w]) /\ job[w] \in Job /\ Issue(w) /\ job[w].pc = "mint"
    BY DEF IInv, SaleTypeOK, Mint, Issue
  <1>1. /\ job'[w] = [job[w] EXCEPT !.pc = "store", !.key = Len(issued) + 1]
        /\ \A v \in Workers \ {w} : job'[v] = job[v]
    BY <1>0 DEF Mint, SaleTypeOK
  <1>2. /\ job'[w].pc = "store" /\ job'[w].seen = job[w].seen
        /\ job'[w].tx = job[w].tx /\ job'[w].buyer = job[w].buyer
        /\ job'[w].quote = job[w].quote /\ job'[w].tenant = job[w].tenant
        /\ job'[w].key = Len(issued) + 1 /\ job'[w].price = job[w].price
    BY <1>0, <1>1 DEF Job
  <1>3. RequestOK(job[w])' /\ SeenOK(job[w])'
    BY <1>0, <1>2, SameRequest
  <1>4. VerifiedOK(job[w])' /\ PricedOK(job[w])'
    <2>1. Verifies(job[w].tx, job[w].buyer, job[w].quote, job[w].price)
      BY <1>0 DEF JobOK, VerifiedOK
    <2>2. Verifies(job[w].tx, job[w].buyer, job[w].quote, job[w].price)'
      BY <1>0, <1>2, <2>1, SameRequest
    <2> QED
      BY <2>2 DEF VerifiedOK, PricedOK, Verifies
  <1>6. GrantedOK(job[w])' /\ ClaimedOK(job[w])'
    BY <1>0, <1>2, SameRequest DEF JobOK, GrantedOK, ClaimedOK, Recorded
  <1>5. MintedOK(job[w])'
    <2>1. /\ Len(issued) + 1 \in DOMAIN issued'
          /\ issued'[Len(issued) + 1] = NewKey(job[w])
      BY <1>0, Issued
    <2>2. /\ job'[w].key \in DOMAIN issued' /\ issued'[job'[w].key].tx = job'[w].tx
          /\ issued'[job'[w].key].buyer = job'[w].buyer
          /\ issued'[job'[w].key].quote = job'[w].quote
      BY <1>2, <2>1 DEF NewKey
    <2> QED
      BY <2>2 DEF MintedOK, KeyOf
  <1> QED
    BY <1>1, <1>2, <1>3, <1>4, <1>5, <1>6 DEF JobOK, ReceiptOK

(* Saving the tenant and the commits keep what the request knew.            *)
LEMMA LateJob ==
  ASSUME IInv, Grows, NEW w \in Workers,
         \/ MintLost(w) \/ MintFails(w) \/ SaveTenant(w) \/ SaveTenantFails(w) \/ Fulfil(w)
         \/ RecordFailure(w) \/ Reply(w) \/ Crash(w)
  PROVE  JobOK(job[w])' /\ \A v \in Workers \ {w} : job'[v] = job[v]
  <1>0. SaleTypeOK /\ JobOK(job[w])
    BY DEF IInv
  <1>1. CASE Finish(w)
    BY <1>0, <1>1, IdleJobOK DEF Finish, SaleTypeOK
  <1>2. CASE SaveTenant(w)
    <2>1. issued' = issued
      BY <1>2 DEF SaveTenant
    <2> QED
      BY <1>0, <1>2, <2>1, GotoJob, SameRequest
         DEF SaveTenant, JobOK, PricedOK, ReceiptOK, VerifiedOK, GrantedOK, ClaimedOK, MintedOK,
             Recorded, KeyOf
  <1>3. CASE Goto(w, "failed") /\ (MintLost(w) \/ MintFails(w) \/ SaveTenantFails(w))
    BY <1>0, <1>3, GotoJob, SameRequest
       DEF MintLost, Issue, MintFails, SaveTenantFails, JobOK, PricedOK, ReceiptOK, VerifiedOK,
           GrantedOK, ClaimedOK, MintedOK, Recorded
  <1>4. CASE Fulfil(w) \/ RecordFailure(w)
    <2>1. Goto(w, "reply") /\ job[w].pc \in {"fulfil", "failed"}
      BY <1>4 DEF Fulfil, RecordFailure
    <2> QED
      BY <1>0, <2>1, GotoJob, SameRequest
         DEF JobOK, PricedOK, ReceiptOK, VerifiedOK, GrantedOK, ClaimedOK, MintedOK, Recorded
  <1> QED
    BY <1>1, <1>2, <1>3, <1>4 DEF MintLost, MintFails, SaveTenantFails, Reply, Crash

(* Every step of a request keeps what all requests have established.        *)
LEMMA NextJobs ==
  ASSUME IInv, [Step]_state
  PROVE  \A v \in Workers : JobOK(job[v])'
  <1>0. Grows
    BY StepGrows
  <1>1. ASSUME NEW w \in Workers, Request(w) \/ Progress(w) \/ Crash(w)
        PROVE  \A v \in Workers : JobOK(job[v])'
    <2>1. JobOK(job[w])' /\ \A v \in Workers \ {w} : job'[v] = job[v]
      BY <1>0, <1>1, RequestJob, ReadPurchaseJob, ReadQuoteJob, ReceiptJob, CheckJob, ClaimJob, MintJob,
         LateJob DEF Progress
    <2> QED
      BY <1>0, <2>1, JobsKept
  <1>2. CASE Environment \/ UNCHANGED state
    <2>1. job' = job
      BY <1>2 DEF Environment, Block, Reorg, PersistQuote, Lapse, state
    <2> QED
      BY <1>0, <2>1, JobKept
  <1> QED
    BY <1>1, <1>2 DEF Step

-----------------------------------------------------------------------------
(* The purchase table, the keys and those who hold them.                    *)

(* A commit leaves in a row only keys issued for its payment.               *)
LEMMA RowsKept ==
  ASSUME IInv, Grows, [Step]_state
  PROVE  \A t \in Txs : RowOK(t)'
  <1>0. SaleTypeOK
    BY DEF IInv
  <1>1. ASSUME NEW t \in Txs, rows'[t] = rows[t]
        PROVE  RowOK(t)'
    BY <1>1 DEF IInv, RowOK, KeyOf, Grows
  <1>2. ASSUME NEW w \in Workers, Claim(w), NEW t \in Txs
        PROVE  RowOK(t)'
    <2>1. job[w].tx \in Txs /\ job[w].buyer \in Buyers /\ job[w].quote \in Quotes
      BY <1>2, Running DEF Claim
    <2>2. CASE rows'[t] = rows[t]
      BY <1>1, <2>2
    <2>3. CASE rows'[t] # rows[t]
      <3>1. t = job[w].tx /\ ClaimRow(w)
        BY <1>0, <1>2, <2>3 DEF Claim, ClaimRow, ClaimLost, SaleTypeOK
      <3>2. CASE job[w].seen.status = "absent"
        <4>1. rows'[t] = [NoRow EXCEPT !.status = "confirmed", !.buyer = job[w].buyer,
                                       !.quote = job[w].quote]
          BY <1>0, <3>1, <3>2 DEF ClaimRow, SaleTypeOK
        <4>2. /\ rows'[t].status = "confirmed" /\ rows'[t].buyer = job[w].buyer
              /\ rows'[t].quote = job[w].quote /\ rows'[t].subkey = 0
          BY <4>1 DEF NoRow
        <4> QED
          BY <2>1, <4>2 DEF RowOK
      <3>3. CASE job[w].seen.status # "absent"
        <4>1. rows[t].buyer = job[w].buyer /\ rows[t].quote = job[w].quote
          BY <1>2, <3>1, <3>3 DEF IInv, JobOK, SeenOK, Recorded, Claim
        <4>2. rows'[t] = [rows[t] EXCEPT !.buyer = job[w].buyer, !.quote = job[w].quote]
          BY <1>0, <3>1, <3>3 DEF ClaimRow, SaleTypeOK
        <4>3. rows[t] \in Row
          BY <1>0 DEF SaleTypeOK
        <4>4. rows'[t] = rows[t]
          BY <4>1, <4>2, <4>3 DEF Row
        <4> QED
          BY <4>4, <1>1
      <3> QED
        BY <3>2, <3>3
    <2> QED
      BY <2>2, <2>3
  <1>3. ASSUME NEW w \in Workers, Fulfil(w) \/ RecordFailure(w), NEW t \in Txs
        PROVE  RowOK(t)'
    <2>1. CASE rows'[t] = rows[t]
      BY <1>1, <2>1
    <2>2. CASE rows'[t] # rows[t]
      <3>0. rows[t] \in Row /\ RowOK(t)
        BY DEF IInv, SaleTypeOK
      <3>1. t = job[w].tx
        BY <1>0, <1>3, <2>2 DEF Fulfil, RecordFailure, SaleTypeOK
      <3>2. rows[t].status # "absent" /\ rows[t].buyer = job[w].buyer
        BY <1>3, <3>1 DEF Fulfil, RecordFailure, IInv, JobOK, ClaimedOK, Recorded
      <3>3. CASE Fulfil(w)
        <4>1. rows'[t] = [rows[t] EXCEPT !.status = "fulfilled", !.tenant = job[w].tenant,
                                         !.subkey = job[w].key]
          BY <1>0, <3>1, <3>3 DEF Fulfil, SaleTypeOK
        <4>2. /\ rows'[t].status = "fulfilled" /\ rows'[t].buyer = rows[t].buyer
              /\ rows'[t].quote = rows[t].quote /\ rows'[t].subkey = job[w].key
          BY <3>0, <4>1 DEF Row
        <4>3. KeyOf(job[w].key, t, job[w].buyer) /\ issued' = issued
          BY <3>1, <3>3 DEF Fulfil, IInv, JobOK, MintedOK
        <4> QED
          BY <3>0, <3>2, <4>2, <4>3 DEF RowOK, KeyOf
      <3>4. CASE RecordFailure(w)
        <4>1. rows'[t] = [rows[t] EXCEPT !.status = "confirmed"]
          BY <1>0, <2>2, <3>1, <3>4 DEF RecordFailure, SaleTypeOK
        <4>2. /\ rows'[t].status = "confirmed" /\ rows'[t].buyer = rows[t].buyer
              /\ rows'[t].quote = rows[t].quote /\ rows'[t].subkey = rows[t].subkey
          BY <3>0, <4>1 DEF Row
        <4> QED
          BY <3>0, <3>2, <3>4, <4>2 DEF RowOK, KeyOf, RecordFailure
      <3> QED
        BY <1>3, <3>3, <3>4
    <2> QED
      BY <2>1, <2>2
  <1>4. \/ rows' = rows
        \/ \E w \in Workers : Claim(w) \/ Fulfil(w) \/ RecordFailure(w)
    BY DEF Step, state, Environment, Block, Reorg, PersistQuote, Lapse, Request, Verify, Recover,
           Progress, Crash, ReadPurchase, ReadQuote, ReadReceipt, ReadHead, CheckTenant, Mint, MintLost, Issue, MintFails,
           SaveTenant, SaveTenantFails, Reply
  <1> QED
    BY <1>1, <1>2, <1>3, <1>4

(* A key is minted only past the claim, for a payment that verifies.        *)
LEMMA KeysKept ==
  ASSUME IInv, Grows, [Step]_state
  PROVE  \A i \in DOMAIN issued' : KeyOK(issued[i])'
  <1>1. CASE issued' = issued
    BY <1>1, KeyKept
  <1>2. ASSUME NEW w \in Workers, Issue(w), UNCHANGED <<chain, listed, rows>>,
               NEW i \in DOMAIN issued'
        PROVE  KeyOK(issued[i])'
    <2>1. CASE i \in DOMAIN issued
      BY <2>1, KeyKept
    <2>2. CASE i \notin DOMAIN issued
      <3>1. issued'[i] = NewKey(job[w])
        BY <1>2, <2>2, Issued
      <3>2. /\ Recorded(job[w].tx, job[w].buyer)
            /\ Verifies(job[w].tx, job[w].buyer, job[w].quote, job[w].price)
        BY <1>2 DEF Issue, IInv, JobOK, ClaimedOK, VerifiedOK
      <3>3. Deep' = Deep /\ Dropped' = Dropped
        BY <1>2, ChainSame
      <3>4. /\ issued'[i].tx = job[w].tx /\ issued'[i].buyer = job[w].buyer
            /\ issued'[i].quote = job[w].quote /\ issued'[i].price = job[w].price
        BY <3>1 DEF NewKey
      <3> QED
        BY <1>2, <3>2, <3>3, <3>4 DEF KeyOK, Recorded, Verifies
    <2> QED
      BY <2>1, <2>2
  <1>3. \/ issued' = issued
        \/ \E w \in Workers : Issue(w) /\ UNCHANGED <<chain, listed, rows>>
    BY DEF Step, state, Environment, Block, Reorg, PersistQuote, Lapse, Request, Verify, Recover,
           Progress, Crash, ReadPurchase, ReadQuote, ReadReceipt, ReadHead, CheckTenant, Claim,
           ClaimRow, ClaimLost, Mint, MintLost, Fulfil, RecordFailure, MintFails, SaveTenant,
           SaveTenantFails, Reply
  <1> QED
    BY <1>1, <1>2, <1>3

(* A quote is given a price only with its entry in the list.                *)
LEMMA QuotesKept ==
  ASSUME IInv, Grows, [Step]_state
  PROVE  \A q \in Quotes : QuoteOK(q)'
  <1>0. quotes \in [Quotes -> Quote] /\ listed \in [Quotes -> SUBSET Prices]
    BY DEF IInv, SaleTypeOK
  <1>1. CASE quotes' = quotes /\ listed' = listed
    BY <1>1 DEF IInv, QuoteOK
  <1>2. ASSUME NEW r \in Quotes, NEW p \in Prices, PersistQuote(r, p), NEW q \in Quotes
        PROVE  QuoteOK(q)'
    <2>1. CASE q = r
      <3>1. quotes'[q].price = p /\ p \in listed'[q]
        BY <1>0, <1>2, <2>1 DEF PersistQuote
      <3> QED
        BY <3>1 DEF QuoteOK
    <2>2. CASE q # r
      BY <1>0, <1>2, <2>2 DEF PersistQuote, IInv, QuoteOK
    <2> QED
      BY <2>1, <2>2
  <1>3. ASSUME NEW w \in Workers, Fulfil(w), NEW q \in Quotes
        PROVE  QuoteOK(q)'
    <2>1. listed' = listed /\ quotes' = [quotes EXCEPT ![job[w].quote].status = "filled"]
      BY <1>3 DEF Fulfil
    <2>2. quotes'[q].price = quotes[q].price
      BY <1>0, <2>1 DEF Quote
    <2>3. quotes[q].status # "absent" \/ listed[q] # {} \/ quotes'[q].status = "absent"
      <3>1. job[w].quote = q => listed[q] # {}
        BY <1>3 DEF Fulfil, IInv, JobOK, PricedOK
      <3> QED
        BY <1>0, <2>1, <3>1
    <2> QED
      BY <2>1, <2>2, <2>3 DEF IInv, QuoteOK
  <1>4. ASSUME NEW w \in Workers, Request(w) \/ (Progress(w) /\ ~Fulfil(w)) \/ Crash(w)
        PROVE  quotes' = quotes /\ listed' = listed
    BY <1>4 DEF Request, Verify, Recover, Crash, Progress, ReadPurchase, ReadQuote, ReadReceipt,
                ReadHead, CheckTenant, Claim, Mint, MintLost, MintFails, SaveTenant,
                SaveTenantFails, RecordFailure, Reply
  <1>5. CASE UNCHANGED state
    BY <1>1, <1>5 DEF state
  <1>6. CASE Environment
    <2>1. CASE Block \/ (\E t \in Txs : Reorg(t)) \/ \E q \in Quotes : Lapse(q)
      BY <1>1, <2>1 DEF Block, Reorg, Lapse
    <2> QED
      BY <1>2, <1>6, <2>1 DEF Environment
  <1> QED
    BY <1>1, <1>3, <1>4, <1>5, <1>6 DEF Step

(* What replies hand out was issued to whom they answer.                    *)
LEMMA HandedKept ==
  ASSUME IInv, Grows, [Step]_state
  PROVE  HandedToPayer'
  <1>1. CASE handed' = handed
    BY <1>1, HoldersKept
  <1>2. ASSUME NEW t, NEW b, NEW k, KeyOf(k, t, b), handed' = handed \cup {<<t, b, k>>},
               issued' = issued
        PROVE  HandedToPayer'
    BY <1>2 DEF IInv, HandedToPayer, KeyOf
  <1>3. ASSUME NEW w \in Workers, ReadQuote(w), handed' # handed
        PROVE  HandedToPayer'
    <2>1. job[w].seen \in Row /\ KeyRecorded(job[w].seen)
      BY <1>3, Running DEF ReadQuote
    <2>2. KeyOf(job[w].seen.subkey, job[w].tx, job[w].buyer)
      BY <1>3, <2>1 DEF ReadQuote, KeyRecorded, IInv, JobOK, SeenOK
    <2>3. /\ handed' = handed \cup {<<job[w].tx, job[w].buyer, job[w].seen.subkey>>}
          /\ issued' = issued
      BY <1>3 DEF ReadQuote
    <2> QED
      BY <1>2, <2>2, <2>3
  <1>4. ASSUME NEW w \in Workers, Claim(w) \/ Reply(w), handed' # handed
        PROVE  HandedToPayer'
    <2>1. job[w].tx \in Txs /\ RowOK(job[w].tx)
      BY <1>4, Running DEF Claim, Reply, IInv
    <2>2. rows[job[w].tx].buyer = job[w].buyer /\ rows[job[w].tx].subkey # 0
      BY <1>4 DEF Claim, ClaimRow, ClaimLost, Reply, KeyRecorded, IInv, JobOK, ClaimedOK, Recorded
    <2>3. KeyOf(rows[job[w].tx].subkey, job[w].tx, job[w].buyer)
      BY <2>1, <2>2 DEF RowOK
    <2>4. /\ handed' = handed \cup {<<job[w].tx, job[w].buyer, rows[job[w].tx].subkey>>}
          /\ issued' = issued
      BY <1>4 DEF Claim, ClaimRow, ClaimLost, Reply
    <2> QED
      BY <1>2, <2>3, <2>4
  <1>5. handed' = handed \/ \E w \in Workers : ReadQuote(w) \/ Claim(w) \/ Reply(w)
    BY DEF Step, state, Environment, Block, Reorg, PersistQuote, Lapse, Request, Verify, Recover,
           Progress, Crash, ReadPurchase, ReadReceipt, ReadHead, CheckTenant, Mint, MintLost, Issue, MintFails, SaveTenant,
           SaveTenantFails, Fulfil, RecordFailure
  <1> QED
    BY <1>1, <1>3, <1>4, <1>5

(* A quote is filled by a request that holds a key minted for it.           *)
LEMMA FilledKept ==
  ASSUME IInv, Grows, [Step]_state
  PROVE  FilledQuoteHasKey'
  <1>0. quotes \in [Quotes -> Quote]
    BY DEF IInv, SaleTypeOK
  <1>1. CASE quotes' = quotes
    BY <1>1, HoldersKept
  <1>2. ASSUME NEW q \in Quotes, NEW p \in Prices, PersistQuote(q, p)
        PROVE  FilledQuoteHasKey'
    <2>1. \A r \in Quotes : quotes'[r].status = "filled" => quotes[r].status = "filled"
      BY <1>0, <1>2 DEF PersistQuote
    <2> QED
      BY <2>1 DEF IInv, FilledQuoteHasKey, Grows
  <1>3. ASSUME NEW w \in Workers, Fulfil(w)
        PROVE  FilledQuoteHasKey'
    <2>1. job[w].key \in DOMAIN issued /\ issued[job[w].key].quote = job[w].quote
      BY <1>3 DEF Fulfil, IInv, JobOK, MintedOK, KeyOf
    <2>2. \A q \in Quotes : quotes'[q].status = "filled" =>
                              q = job[w].quote \/ quotes[q].status = "filled"
      BY <1>0, <1>3 DEF Fulfil, Quote
    <2> QED
      BY <2>1, <2>2 DEF IInv, FilledQuoteHasKey, Grows
  <1>4. \/ quotes' = quotes
        \/ \E q \in Quotes, p \in Prices : PersistQuote(q, p)
        \/ \E w \in Workers : Fulfil(w)
    BY DEF Step, state, Environment, Block, Reorg, Lapse, Request, Verify, Recover,
           Progress, Crash, ReadPurchase, ReadQuote, ReadReceipt, ReadHead, CheckTenant, Claim, ClaimRow,
           ClaimLost, Mint, MintLost, Issue, MintFails, SaveTenant, SaveTenantFails, RecordFailure, Reply
  <1> QED
    BY <1>1, <1>2, <1>3, <1>4

(* A wallet's own tenant is saved only by a request of that wallet, as no   *)
(* wallet is on the allowlist.                                              *)
LEMMA TenantKept ==
  ASSUME IInv, Grows, [Step]_state
  PROVE  DefaultTenantIsOwn'
  <1>1. CASE tenants' = tenants
    BY <1>1, HoldersKept
  <1>2. ASSUME NEW w \in Workers, SaveTenant(w), NEW b \in Buyers, tenants'[b].exists
        PROVE  /\ tenants'[b].owner = b
               /\ tenants'[b].subkey \in DOMAIN issued'
               /\ issued'[tenants'[b].subkey].buyer = b
    <2>0. tenants \in [TenantIds -> Tenant] /\ b \in TenantIds
      BY DEF IInv, SaleTypeOK, TenantIds
    <2>1. CASE b = job[w].tenant
      <3>1. b = job[w].buyer
        BY <1>2, <2>1, ConstantsAssumption DEF SaveTenant, IInv, JobOK, GrantedOK
      <3>2. KeyOf(job[w].key, job[w].tx, job[w].buyer)
        BY <1>2 DEF SaveTenant, IInv, JobOK, MintedOK
      <3>3. tenants'[b] = [exists |-> TRUE, owner |-> job[w].buyer, subkey |-> job[w].key]
        BY <1>2, <2>0, <2>1 DEF SaveTenant
      <3>4. issued' = issued
        BY <1>2 DEF SaveTenant
      <3> QED
        BY <3>1, <3>2, <3>3, <3>4 DEF KeyOf
    <2>2. CASE b # job[w].tenant
      <3>1. tenants'[b] = tenants[b] /\ issued' = issued
        BY <1>2, <2>0, <2>2 DEF SaveTenant
      <3> QED
        BY <1>2, <3>1 DEF IInv, DefaultTenantIsOwn
    <2> QED
      BY <2>1, <2>2
  <1>3. tenants' = tenants \/ \E w \in Workers : SaveTenant(w)
    BY DEF Step, state, Environment, Block, Reorg, PersistQuote, Lapse, Request, Verify, Recover,
           Progress, Crash, ReadPurchase, ReadQuote, ReadReceipt, ReadHead, CheckTenant, Claim, Mint, MintLost, Issue,
           MintFails, SaveTenantFails, Fulfil, RecordFailure, Reply
  <1> QED
    BY <1>1, <1>2, <1>3 DEF DefaultTenantIsOwn

-----------------------------------------------------------------------------
(* The theorems.                                                            *)

(* Before any request nothing is issued, recorded or handed out, so the     *)
(* inductive invariant holds.                                               *)
LEMMA BeginningInvariant == Beginning => IInv
  <1> SUFFICES ASSUME Beginning PROVE IInv
    OBVIOUS
  <1>1. \A w \in Workers : JobOK(job[w])
    BY DEF Beginning, IdleJob, NoRow, JobOK, RequestOK, SeenOK, PricedOK, ReceiptOK,
           VerifiedOK, GrantedOK, ClaimedOK, MintedOK
  <1>2. \A t \in Txs : RowOK(t)
    BY DEF Beginning, NoRow, RowOK
  <1>3. DOMAIN issued = {}
    BY DEF Beginning
  <1>4. HandedToPayer /\ FilledQuoteHasKey
    BY DEF Beginning, HandedToPayer, FilledQuoteHasKey
  <1>5. DefaultTenantIsOwn
    BY DEF Beginning, NoTenant, DefaultTenantIsOwn, TenantIds
  <1> QED
    BY <1>1, <1>2, <1>3, <1>4, <1>5, BeginningTypes DEF IInv, Beginning

(* So does it where only bids are settled, at a price on record.            *)
LEMMA InitBeginning == Init => Beginning
  <1> SUFFICES ASSUME Init PROVE Beginning
    OBVIOUS
  <1>1. PICK price \in [Quotes -> Prices] :
          quotes = [q \in Quotes |-> IF \E x \in Bids : bids[x].quote = q
                                     THEN [status |-> "open", price |-> price[q]]
                                     ELSE NoQuote]
    BY DEF Init
  <1>2. listed = [q \in Quotes |-> {quotes[q].price} \ {0}]
    BY DEF Init
  <1>3. ASSUME NEW q \in Quotes
        PROVE  /\ quotes[q] \in Quote /\ quotes[q].status # "filled"
               /\ {quotes[q].price} \ {0} \subseteq Prices /\ QuoteOK(q)
    <2>1. CASE quotes[q] = NoQuote
      BY <1>2, <2>1 DEF NoQuote, Quote, QuoteOK
    <2>2. CASE quotes[q] = [status |-> "open", price |-> price[q]]
      <3>1. price[q] \in Prices /\ price[q] # 0
        BY <1>1, ConstantsAssumption
      <3> QED
        BY <1>2, <2>2, <3>1 DEF Quote, QuoteOK
    <2> QED
      BY <1>1, <2>1, <2>2
  <1>4. quotes \in [Quotes -> Quote]
    BY <1>1, <1>3 DEF NoQuote
  <1>5. listed \in [Quotes -> SUBSET Prices]
    BY <1>2, <1>3
  <1> QED
    BY <1>3, <1>4, <1>5 DEF Init, Beginning

THEOREM InitInvariant == Init => IInv
  BY InitBeginning, BeginningInvariant

(* A step of the specification is a step of the handlers, the chain or the  *)
(* clock.                                                                   *)
LEMMA StepOfNext == [Next]_vars => [Step]_state
  BY DEF Next, vars

(* Every step of the handlers, the chain and the clock keeps the invariant. *)
THEOREM StepInvariant == IInv /\ [Step]_state => IInv'
  <1> SUFFICES ASSUME IInv, [Step]_state PROVE IInv'
    OBVIOUS
  <1>1. SaleTypeOK' /\ Grows
    BY NextTypes, StepGrows
  <1> QED
    BY <1>1, NextJobs, RowsKept, QuotesKept, KeysKept, HandedKept, FilledKept, TenantKept DEF IInv

(* The invariant holds throughout every behaviour of the purchase flow.     *)
THEOREM Invariant == Spec => []IInv
  BY InitInvariant, StepInvariant, StepOfNext, PTL DEF Spec

(* Every variable keeps its type; of the bids only the last commit writes,  *)
(* and it writes a status.                                                  *)
THEOREM TypeCorrect == Spec => []TypeOK
  <1> DEFINE Typed == bids \in [Bids -> Bid] /\ raced \subseteq Txs
  <1>1. Init => Typed
    BY DEF Init, Bid
  <1>2. IInv /\ Typed /\ [Next]_vars => Typed'
    <2> SUFFICES ASSUME IInv, Typed, [Next]_vars PROVE Typed'
      OBVIOUS
    <2>0. raced' \subseteq Txs
      BY DEF Next, History, vars
    <2>1. ASSUME NEW w \in Workers, Fulfil(w) PROVE bids' \in [Bids -> Bid]
      <3>1. \A x \in Bids : [bids[x] EXCEPT !.status = "filled"] \in Bid
        BY DEF Bid
      <3> QED
        BY <2>1, <3>1 DEF Fulfil, FillLinkedBid
    <2>2. CASE Environment \/ UNCHANGED state
      BY <2>0, <2>2 DEF Environment, Block, Reorg, PersistQuote, Lapse, state
    <2>3. ASSUME NEW w \in Workers, Request(w) \/ (Progress(w) /\ ~Fulfil(w)) \/ Crash(w)
          PROVE  bids' = bids
      BY <2>3 DEF Request, Verify, Recover, Crash, Progress, ReadPurchase, ReadQuote,
                  ReadReceipt, ReadHead, CheckTenant, Claim, Mint, MintLost, MintFails,
                  SaveTenant, SaveTenantFails, RecordFailure, Reply
    <2> QED
      BY <2>0, <2>1, <2>2, <2>3, StepOfNext DEF Step
  <1>3. IInv /\ Typed => TypeOK
    BY DEF IInv, TypeOK
  <1> QED
    BY <1>1, <1>2, <1>3, Invariant, PTL DEF Spec

(* Two keys for one payment have one wallet: the one its row records.       *)
THEOREM OneBuyer == Spec => []OneBuyerPerPayment
  <1>1. IInv => OneBuyerPerPayment
    BY DEF IInv, KeyOK, Recorded, OneBuyerPerPayment
  <1> QED
    BY <1>1, Invariant, PTL

(* Every issued key was paid for in full at a price its quote was on record *)
(* at, in a transaction that stands unless a reorganisation dropped it.     *)
THEOREM PaidFor == Spec => []KeysArePaidFor
  <1>1. IInv => KeysArePaidFor
    BY DEF IInv, KeyOK, Verifies, Covers, KeysArePaidFor
  <1> QED
    BY <1>1, Invariant, PTL

(* Keys are handed only to the wallet that paid for them.                   *)
THEOREM Handed == Spec => []HandedToPayer
  <1>1. IInv => HandedToPayer
    BY DEF IInv
  <1> QED
    BY <1>1, Invariant, PTL

(* A quote taken off the market has a key for its units.                    *)
THEOREM Filled == Spec => []FilledQuoteHasKey
  <1>1. IInv => FilledQuoteHasKey
    BY DEF IInv
  <1> QED
    BY <1>1, Invariant, PTL

(* A wallet's default tenant stays its own.                                 *)
THEOREM OwnTenant == Spec => []DefaultTenantIsOwn
  <1>1. IInv => DefaultTenantIsOwn
    BY DEF IInv
  <1> QED
    BY <1>1, Invariant, PTL

(* No later verification moves or loses the record of a payment.            *)
THEOREM NotRetargeted == Spec => RowIsNeverRetargeted
  <1>1. IInv /\ [Next]_vars =>
          [\A t \in Txs : rows[t].status # "absent" =>
              /\ rows'[t].status # "absent"
              /\ rows'[t].buyer = rows[t].buyer
              /\ rows'[t].quote = rows[t].quote]_rows
    BY StepGrows, StepOfNext DEF Grows
  <1> QED
    BY <1>1, Invariant, PTL DEF Spec, RowIsNeverRetargeted

-----------------------------------------------------------------------------
(* Payments that requests never overlap on.  Between two steps of the only  *)
(* request for such a payment no other step touches its row, so what the    *)
(* request read of the table still stands.  The history says which these    *)
(* are, for any number of workers, so nothing is assumed of the deployment. *)

(* Until the claim the row is as it was loaded and holds no key; from the   *)
(* claim to the last commit it waits for one.                               *)
SoloJob(j) ==
    /\ ~j.claimed
    /\ j.pc \in {"quote", "chain", "head", "tenant", "claim"} => j.seen = Existing(j.tx, j.buyer)
    /\ j.pc \in {"chain", "head", "tenant", "claim"} => ~KeyRecorded(j.seen)
    /\ j.pc \in {"mint", "store", "fulfil", "failed"} => rows[j.tx].status = "confirmed"

(* A row holds a key exactly when it is fulfilled.                          *)
SoloRow(t) == rows[t].status = "fulfilled" <=> rows[t].subkey # 0

(* A key was minted for t and is not recorded yet.                          *)
InHand(t) == \E w \in Workers : job[w].pc \in {"store", "fulfil"} /\ job[w].tx = t

(* The keys of a payment: one lost to each fault, and the one on record or  *)
(* in hand.                                                                 *)
KeyBound(t) == IF rows[t].status = "fulfilled" \/ InHand(t) THEN 1 + faults ELSE faults

KeysBounded(t) == IsFiniteSet(KeysFor(t)) /\ Cardinality(KeysFor(t)) <= KeyBound(t)

SoloInv ==
    /\ IInv
    /\ \A t \in Txs : InProgressTwice(t) => t \in raced
    /\ \A w \in Workers : job[w].tx \notin raced => SoloJob(job[w])
    /\ \A t \in Txs \ raced : SoloRow(t)
    /\ HandedIsOnRecord
    /\ \A t \in Txs \ raced : KeysBounded(t)

RowsFinal == \A t \in Txs \ raced : rows[t].status = "fulfilled" => rows'[t] = rows[t]

(* The history only grows, and keeps every overlap.                         *)
LEMMA RacedGrows ==
  ASSUME SoloInv, [Next]_vars
  PROVE  raced \subseteq raced' /\ \A t \in Txs : InProgressTwice(t)' => t \in raced'
  <1>1. CASE UNCHANGED vars
    BY <1>1 DEF vars, state, SoloInv, InProgressTwice
  <1>2. CASE History
    BY <1>2 DEF History
  <1> QED
    BY <1>1, <1>2 DEF Next

(* A step of one request leaves the records of the others alone, and the    *)
(* rows of all payments but its own.                                        *)
LEMMA OthersKept ==
  ASSUME IInv, NEW w \in Workers, Request(w) \/ Progress(w) \/ Crash(w)
  PROVE  /\ \A v \in Workers \ {w} : job'[v] = job[v]
         /\ \A t \in Txs \ {job[w].tx} : rows'[t] = rows[t]
  <1>0. Grows /\ rows \in [Txs -> Row]
    BY StepGrows DEF Step, IInv, SaleTypeOK
  <1>1. \A v \in Workers \ {w} : job'[v] = job[v]
    BY <1>0, RequestJob, ReadPurchaseJob, ReadQuoteJob, ReceiptJob, CheckJob, ClaimJob, MintJob,
       LateJob DEF Progress
  <1>2. ASSUME Claim(w) \/ Fulfil(w) \/ RecordFailure(w)
        PROVE  \A t \in Txs \ {job[w].tx} : rows'[t] = rows[t]
    <2>1. CASE ClaimRow(w) \/ ClaimLost(w)
      BY <1>0, <2>1 DEF ClaimRow, ClaimLost
    <2>2. CASE Fulfil(w)
      BY <1>0, <2>2 DEF Fulfil
    <2>3. CASE RecordFailure(w)
      BY <1>0, <2>3 DEF RecordFailure
    <2> QED
      BY <1>2, <2>1, <2>2, <2>3 DEF Claim
  <1>3. rows' = rows \/ Claim(w) \/ Fulfil(w) \/ RecordFailure(w)
    BY DEF Request, Verify, Recover, Crash, Progress, ReadPurchase, ReadQuote, ReadReceipt,
           ReadHead, CheckTenant, Mint, MintLost, MintFails, SaveTenant, SaveTenantFails, Reply
  <1> QED
    BY <1>1, <1>2, <1>3

(* The rows a step of an only request changes: the one it claims, the one  *)
(* it fulfils, the one it leaves confirmed after a failure.                 *)
LEMMA SoloRowsKept ==
  ASSUME SoloInv, NEW w \in Workers, Claim(w) \/ Fulfil(w) \/ RecordFailure(w),
         job[w].tx \notin raced
  PROVE  RowsFinal /\ \A t \in Txs \ raced : SoloRow(t)'
  <1> DEFINE x == job[w].tx
  <1>1. /\ rows \in [Txs -> Row] /\ SoloJob(job[w]) /\ x \in Txs /\ SoloRow(x)
        /\ RowOK(x) /\ job[w].buyer # None
    <2>1. IInv /\ job[w].pc # "idle"
      BY DEF SoloInv, Claim, Fulfil, RecordFailure
    <2>2. x \in Txs /\ job[w].buyer \in Buyers
      BY <2>1, Running
    <2>3. rows \in [Txs -> Row] /\ RowOK(x)
      BY <2>1, <2>2 DEF IInv, SaleTypeOK
    <2> QED
      BY <2>2, <2>3, ConstantsAssumption DEF SoloInv
  <1>2. rows[x] \in Row
    BY <1>1
  <1>3. CASE Claim(w)
    <2>1. job[w].seen = Existing(x, job[w].buyer) /\ ~KeyRecorded(job[w].seen)
      BY <1>1, <1>3 DEF SoloJob, Claim
    <2>2. ~KeyRecorded(rows[x]) \/ rows[x].buyer # job[w].buyer
      BY <2>1 DEF Existing
    <2>3. CASE ClaimLost(w)
      BY <2>3, <1>3 DEF ClaimLost, RowsFinal, SoloRow, SoloInv
    <2>4. CASE ClaimRow(w) /\ job[w].seen.status = "absent"
      <3>1. rows[x].status = "absent"
        BY <2>4 DEF ClaimRow
      <3>2. rows' = [rows EXCEPT ![x] = [NoRow EXCEPT !.status = "confirmed",
                                 !.buyer = job[w].buyer, !.quote = job[w].quote]]
        BY <2>4 DEF ClaimRow
      <3>3. rows'[x].status = "confirmed" /\ rows'[x].subkey = 0
        BY <3>2, <1>1 DEF NoRow
      <3>4. \A t \in Txs : t # x => rows'[t] = rows[t]
        BY <3>2, <1>1
      <3> QED
        BY <3>1, <3>3, <3>4, <1>1 DEF RowsFinal, SoloRow, SoloInv
    <2>5. CASE ClaimRow(w) /\ job[w].seen.status # "absent"
      <3>1. rows' = [rows EXCEPT ![x].buyer = job[w].buyer, ![x].quote = job[w].quote]
        BY <2>5 DEF ClaimRow
      <3>2. rows[x].buyer = job[w].buyer
        BY <2>1, <2>5 DEF Existing, NoRow
      <3>3. rows[x].status # "fulfilled"
        BY <2>2, <3>2, <1>1 DEF KeyRecorded, SoloRow
      <3>4. rows'[x].status = rows[x].status /\ rows'[x].subkey = rows[x].subkey
        BY <3>1, <1>1, <1>2 DEF Row
      <3>5. \A t \in Txs : t # x => rows'[t] = rows[t]
        BY <3>1, <1>1
      <3> QED
        BY <3>3, <3>4, <3>5, <1>1 DEF RowsFinal, SoloRow, SoloInv
    <2> QED
      BY <1>3, <2>3, <2>4, <2>5 DEF Claim
  <1>4. CASE Fulfil(w)
    <2>1. rows[x].status = "confirmed"
      BY <1>1, <1>4 DEF SoloJob, Fulfil
    <2>2. job[w].key # 0
      BY <1>4 DEF SoloInv, IInv, JobOK, MintedOK, KeyOf, SaleTypeOK, Fulfil
    <2>3. rows'[x].status = "fulfilled" /\ rows'[x].subkey = job[w].key
      BY <1>1, <1>2, <1>4 DEF Fulfil, Row
    <2>4. \A t \in Txs : t # x => rows'[t] = rows[t]
      BY <1>1, <1>4 DEF Fulfil
    <2> QED
      BY <2>1, <2>2, <2>3, <2>4, <1>1 DEF RowsFinal, SoloRow, SoloInv
  <1>5. CASE RecordFailure(w)
    <2>1. rows[x].status = "confirmed"
      BY <1>1, <1>5 DEF SoloJob, RecordFailure
    <2>2. rows'[x] = rows[x]
      BY <1>1, <1>2, <1>5, <2>1 DEF RecordFailure, Row
    <2>3. \A t \in Txs : t # x => rows'[t] = rows[t]
      BY <1>1, <1>5 DEF RecordFailure
    <2> QED
      BY <2>2, <2>3, <1>1 DEF RowsFinal, SoloRow, SoloInv
  <1> QED
    BY <1>3, <1>4, <1>5

(* Every other step leaves those rows alone.                                *)
LEMMA SoloRowsFinal ==
  ASSUME SoloInv, [Step]_state
  PROVE  RowsFinal /\ \A t \in Txs \ raced : SoloRow(t)'
  <1>0. IInv
    BY DEF SoloInv
  <1>1. CASE UNCHANGED rows
    BY <1>1 DEF RowsFinal, SoloRow, SoloInv
  <1>2. ASSUME NEW w \in Workers, Claim(w) \/ Fulfil(w) \/ RecordFailure(w)
        PROVE  RowsFinal /\ \A t \in Txs \ raced : SoloRow(t)'
    <2>1. CASE job[w].tx \in raced
      <3>1. \A t \in Txs \ raced : rows'[t] = rows[t]
        BY <1>0, <1>2, <2>1, OthersKept DEF Progress
      <3> QED
        BY <3>1 DEF RowsFinal, SoloRow, SoloInv
    <2> QED
      BY <1>2, <2>1, SoloRowsKept
  <1>3. \/ UNCHANGED rows
        \/ \E w \in Workers : Claim(w) \/ Fulfil(w) \/ RecordFailure(w)
    BY DEF Step, state, Environment, Block, Reorg, PersistQuote, Lapse, Request, Verify,
           Recover, Progress, ReadPurchase, ReadQuote, ReadReceipt, ReadHead, CheckTenant, Mint,
           MintLost, MintFails, SaveTenant, SaveTenantFails, Reply, Crash
  <1> QED
    BY <1>1, <1>2, <1>3

(* What has been handed out is on record: a reply gives the key of a row    *)
(* that has one, and such a row is final.                                   *)
LEMMA SoloHanded ==
  ASSUME SoloInv, [Step]_state, raced \subseteq raced'
  PROVE  HandedIsOnRecord'
  <1>1. RowsFinal
    BY SoloRowsFinal
  <1>2. \A h \in handed : h[1] \in Txs
    BY DEF SoloInv, IInv, SaleTypeOK
  <1>3. \A h \in handed : h[1] \notin raced' =>
            rows'[h[1]].status = "fulfilled" /\ rows'[h[1]].subkey = h[3]
    BY <1>1, <1>2 DEF RowsFinal, SoloInv, HandedIsOnRecord
  <1>4. CASE UNCHANGED handed
    BY <1>3, <1>4 DEF HandedIsOnRecord
  <1>5. ASSUME NEW w \in Workers, ReadQuote(w) \/ Claim(w) \/ Reply(w), handed' # handed
        PROVE  HandedIsOnRecord'
    <2> DEFINE x == job[w].tx
    <2>0. x \in Txs
      BY <1>5, Running DEF SoloInv, ReadQuote, Claim, Reply
    <2>1. x \notin raced' => SoloRow(x) /\ SoloJob(job[w])
      BY <2>0 DEF SoloInv
    <2>2. CASE ReadQuote(w)
      <3>1. /\ KeyRecorded(job[w].seen)
            /\ handed' = handed \cup {<<x, job[w].buyer, job[w].seen.subkey>>}
            /\ rows' = rows
        BY <1>5, <2>2 DEF ReadQuote
      <3>2. ASSUME x \notin raced' PROVE job[w].seen = rows[x]
        <4>1. job[w].seen = Existing(x, job[w].buyer)
          BY <2>1, <2>2, <3>2 DEF SoloJob, ReadQuote
        <4> QED
          BY <3>1, <4>1 DEF Existing, KeyRecorded, NoRow
      <3> QED
        BY <1>3, <3>1, <3>2 DEF KeyRecorded, HandedIsOnRecord
    <2>3. CASE Reply(w)
      <3>1. /\ rows[x].subkey # 0 /\ rows' = rows
            /\ handed' = handed \cup {<<x, job[w].buyer, rows[x].subkey>>}
        BY <1>5, <2>3 DEF Reply
      <3> QED
        BY <1>3, <3>1, <2>1 DEF SoloRow, HandedIsOnRecord
    <2>4. CASE Claim(w)
      <3>1. /\ KeyRecorded(rows[x]) /\ rows' = rows
            /\ handed' = handed \cup {<<x, job[w].buyer, rows[x].subkey>>}
        BY <1>5, <2>4 DEF Claim, ClaimRow, ClaimLost
      <3> QED
        BY <1>3, <3>1 DEF KeyRecorded, HandedIsOnRecord
    <2> QED
      BY <1>5, <2>2, <2>3, <2>4
  <1>6. \/ UNCHANGED handed
        \/ \E w \in Workers : ReadQuote(w) \/ Claim(w) \/ Reply(w)
    BY DEF Step, state, Environment, Block, Reorg, PersistQuote, Lapse, Request, Verify,
           Recover, Progress, ReadPurchase, ReadReceipt, ReadHead, CheckTenant, Mint, MintLost,
           MintFails, SaveTenant, SaveTenantFails, Fulfil, RecordFailure, Crash
  <1> QED
    BY <1>4, <1>5, <1>6

(* A step of a request that does not end it stays with its payment.         *)
LEMMA SameTx ==
  ASSUME IInv, NEW w \in Workers, Progress(w), ~Finish(w)
  PROVE  job'[w].tx = job[w].tx
  <1>1. job \in [Workers -> Job] /\ job[w] \in Job
    BY DEF IInv, SaleTypeOK
  <1>2. CASE \E step \in Steps : Goto(w, step)
    BY <1>1, <1>2 DEF Goto, Job
  <1>3. CASE ReadPurchase(w) \/ ReadQuote(w) \/ ReadReceipt(w) \/ CheckTenant(w)
    <2>1. CASE ReadPurchase(w)
      BY <1>1, <2>1 DEF ReadPurchase, Job
    <2>2. CASE ReadQuote(w)
      <3>1. PICK y \in Bids \cup {None} :
              job' = [job EXCEPT ![w].pc = "chain", ![w].bid = y,
                                 ![w].price = quotes[job[w].quote].price]
        BY <2>2 DEF ReadQuote, LinkedBids
      <3> QED
        BY <1>1, <3>1 DEF Job
    <2>3. CASE ReadReceipt(w)
      BY <1>1, <2>3 DEF ReadReceipt, Job
    <2>4. CASE CheckTenant(w)
      BY <1>1, <2>4 DEF CheckTenant, Job
    <2> QED
      BY <1>3, <2>1, <2>2, <2>3, <2>4
  <1>4. CASE Claim(w) \/ Mint(w)
    BY <1>1, <1>4 DEF Claim, ClaimRow, ClaimLost, Mint, Goto, Job
  <1>5. CASE \/ ReadHead(w) \/ MintLost(w) \/ MintFails(w) \/ SaveTenant(w)
             \/ SaveTenantFails(w) \/ Fulfil(w) \/ RecordFailure(w) \/ Reply(w)
    BY <1>2, <1>5 DEF ReadHead, MintLost, MintFails, SaveTenant, SaveTenantFails, Fulfil,
                      RecordFailure, Reply, Steps
  <1> QED
    BY <1>3, <1>4, <1>5 DEF Progress

(* A request starts with nothing read.                                      *)
LEMMA SoloRequest ==
  ASSUME IInv, NEW w \in Workers, Request(w)
  PROVE  SoloJob(job[w])'
  <1>1. job \in [Workers -> Job]
    BY DEF IInv, SaleTypeOK
  <1>2. PICK t \in Txs, b \in Buyers : \E q, tenant : Accept(w, t, b, q, tenant)
    BY DEF Request, Verify, Recover
  <1>3. job'[w].pc = "purchase" /\ job'[w].claimed = FALSE
    BY <1>1, <1>2 DEF Accept, IdleJob
  <1> QED
    BY <1>3 DEF SoloJob

(* What the steps of an only request establish, and the rest leaves alone.  *)
LEMMA SoloStep ==
  ASSUME SoloInv, NEW w \in Workers, Progress(w) \/ Crash(w), job[w].tx \notin raced
  PROVE  SoloJob(job[w])'
  <1> DEFINE x == job[w].tx
             Idle == job' = [job EXCEPT ![w] = IdleJob]
  <1>1. /\ job \in [Workers -> Job] /\ job[w] \in Job /\ rows \in [Txs -> Row]
        /\ SoloJob(job[w])
    BY DEF SoloInv, IInv, SaleTypeOK
  <1>2. job[w].pc # "idle" => x \in Txs
    BY Running DEF SoloInv
  <1>3. ASSUME Idle
        PROVE  SoloJob(job[w])'
    <2>1. job'[w] = IdleJob
      BY <1>1, <1>3
    <2> QED
      BY <2>1 DEF SoloJob, IdleJob
  <1>4. CASE ReadPurchase(w)
    <2>1. CASE Finish(w)
      BY <1>3, <2>1 DEF Finish
    <2>2. CASE job' = [job EXCEPT ![w].pc = "quote", ![w].seen = Existing(x, job[w].buyer)]
      <3>1. /\ job'[w].pc = "quote" /\ job'[w].seen = Existing(x, job[w].buyer)
            /\ job'[w].claimed = job[w].claimed /\ job'[w].tx = x
            /\ job'[w].buyer = job[w].buyer /\ rows' = rows
        BY <1>1, <1>4, <2>2 DEF Job, ReadPurchase
      <3> QED
        BY <1>1, <3>1 DEF SoloJob, Existing
    <2> QED
      BY <1>4, <2>1, <2>2 DEF ReadPurchase
  <1>5. CASE ReadQuote(w)
    <2>1. CASE Finish(w)
      BY <1>3, <2>1 DEF Finish
    <2>2. CASE ~Finish(w)
      <3>0. /\ rows' = rows /\ ~KeyRecorded(job[w].seen)
            /\ \E y \in Bids \cup {None} :
                 job' = [job EXCEPT ![w].pc = "chain", ![w].bid = y,
                                    ![w].price = quotes[job[w].quote].price]
        BY <1>5, <2>2 DEF ReadQuote, LinkedBids
      <3>1. /\ job'[w].pc = "chain" /\ job'[w].seen = job[w].seen
            /\ job'[w].claimed = job[w].claimed /\ job'[w].tx = x
            /\ job'[w].buyer = job[w].buyer /\ rows' = rows /\ ~KeyRecorded(job[w].seen)
        BY <1>1, <3>0 DEF Job
      <3> QED
        BY <1>1, <1>5, <3>1 DEF SoloJob, Existing, ReadQuote
    <2> QED
      BY <2>1, <2>2
  <1>6. CASE ReadReceipt(w) \/ ReadHead(w) \/ CheckTenant(w)
    <2>1. CASE Finish(w)
      BY <1>3, <2>1 DEF Finish
    <2>2. CASE ~Finish(w)
      <3>1. /\ job'[w].pc \in {"head", "tenant", "claim"} /\ job[w].pc \in {"chain", "head", "tenant"}
            /\ job'[w].seen = job[w].seen
            /\ job'[w].claimed = job[w].claimed /\ job'[w].tx = x
            /\ job'[w].buyer = job[w].buyer /\ rows' = rows
        BY <1>1, <1>6, <2>2 DEF Job, ReadReceipt, ReadHead, CheckTenant, Goto
      <3> QED
        BY <1>1, <3>1 DEF SoloJob, Existing
    <2> QED
      BY <2>1, <2>2
  <1>7. CASE Claim(w)
    <2>0. job[w].seen = Existing(x, job[w].buyer) /\ ~KeyRecorded(job[w].seen) /\ x \in Txs
          /\ rows[x] \in Row /\ SoloRow(x)
      BY <1>1, <1>2, <1>7 DEF SoloJob, Claim, SoloInv
    <2>1. CASE Finish(w)
      BY <1>3, <2>1 DEF Finish
    <2>2. CASE ClaimLost(w) /\ ~Finish(w)
      <3>1. rows[x].buyer = job[w].buyer /\ job[w].seen.status = "absent" /\ rows[x].status # "absent"
        BY <2>2 DEF ClaimLost
      <3> QED
        BY <2>0, <3>1 DEF Existing
    <2>3. CASE ClaimRow(w)
      <3>1. rows'[x].status = "confirmed"
        <4>1. CASE job[w].seen.status = "absent"
          <5>1. rows' = [rows EXCEPT ![x] = [NoRow EXCEPT !.status = "confirmed",
                                 !.buyer = job[w].buyer, !.quote = job[w].quote]]
            BY <2>3, <4>1 DEF ClaimRow
          <5> QED
            BY <5>1, <1>1, <2>0 DEF NoRow
        <4>2. CASE job[w].seen.status # "absent"
          <5>1. rows' = [rows EXCEPT ![x].buyer = job[w].buyer, ![x].quote = job[w].quote]
            BY <2>3, <4>2 DEF ClaimRow
          <5>2. rows'[x].status = rows[x].status
            BY <5>1, <1>1, <2>0 DEF Row
          <5>3. rows[x].status = job[w].seen.status /\ rows[x].subkey = job[w].seen.subkey
            BY <4>2, <2>0 DEF Existing, NoRow
          <5> QED
            BY <4>2, <5>2, <5>3, <2>0 DEF Row, KeyRecorded, SoloRow
        <4> QED
          BY <4>1, <4>2
      <3>2. /\ job'[w].pc = "mint" /\ job'[w].tx = x /\ job'[w].claimed = job[w].claimed
        BY <1>1, <2>3 DEF ClaimRow, Goto, Job
      <3> QED
        BY <1>1, <3>1, <3>2 DEF SoloJob
    <2> QED
      BY <1>7, <2>1, <2>2, <2>3 DEF Claim
  <1>8. CASE Mint(w) \/ MintLost(w) \/ MintFails(w) \/ SaveTenant(w) \/ SaveTenantFails(w)
    <2>1. CASE Finish(w)
      BY <1>3, <2>1 DEF Finish
    <2>2. CASE ~Finish(w)
      <3>1. /\ job[w].pc \in {"mint", "store"} /\ rows' = rows
            /\ job'[w].pc \in {"store", "fulfil", "failed"}
            /\ job'[w].claimed = job[w].claimed /\ job'[w].tx = x
        BY <1>1, <1>8, <2>2 DEF Job, Mint, MintLost, Issue, MintFails, SaveTenant, SaveTenantFails, Goto
      <3> QED
        BY <1>1, <3>1 DEF SoloJob
    <2> QED
      BY <2>1, <2>2
  <1>9. CASE Fulfil(w) \/ RecordFailure(w)
    <2>1. job'[w].pc = "reply" /\ job'[w].claimed = job[w].claimed
      BY <1>1, <1>9 DEF Job, Fulfil, RecordFailure, Goto
    <2> QED
      BY <1>1, <2>1 DEF SoloJob
  <1>10. CASE Reply(w) \/ Crash(w)
    BY <1>3, <1>10 DEF Reply, Crash, Finish
  <1> QED
    BY <1>4, <1>5, <1>6, <1>7, <1>8, <1>9, <1>10 DEF Progress

(* A bound that grows with the faults, and may have been one above them.    *)
LEMMA BoundGrows ==
  ASSUME NEW f \in Nat, NEW g \in Nat, f <= g, NEW bound, NEW next,
         \/ bound \in {f, 1 + f} /\ next = 1 + g
         \/ bound = f /\ next = g
         \/ bound = 1 + f /\ next = g /\ g = f + 1
  PROVE  bound \in Nat /\ next \in Nat /\ bound <= next
  OBVIOUS

(* A step that mints nothing leaves a payment's keys as many, and takes one *)
(* out of hand only onto the record or with a fault.                        *)
LEMMA SoloKeysKept ==
  ASSUME SoloInv, [Step]_state, UNCHANGED issued, NEW t \in Txs \ raced
  PROVE  KeysBounded(t)'
  <1>0. IInv
    BY DEF SoloInv
  <1>1. faults \in Nat /\ faults' \in Nat /\ faults' >= faults
    <2>1. faults \in Nat
      BY ConstantsAssumption DEF SoloInv, IInv, SaleTypeOK
    <2>2. faults' = faults \/ faults' = faults + 1
      BY DEF Step, state, Environment, Block, Reorg, PersistQuote, Lapse, Request, Verify,
             Recover, Progress, ReadPurchase, ReadQuote, ReadReceipt, ReadHead, CheckTenant,
             Claim, Mint, MintLost, MintFails, SaveTenant, SaveTenantFails, Fulfil,
             RecordFailure, Reply, Crash
    <2> QED
      BY <2>1, <2>2
  <1>2. KeysFor(t)' = KeysFor(t)
    BY DEF KeysFor
  <1>3. rows[t].status = "fulfilled" => rows'[t].status = "fulfilled"
    BY SoloRowsFinal DEF RowsFinal
  <1>4. InHand(t) => rows'[t].status = "fulfilled" \/ InHand(t)' \/ faults' = faults + 1
    <2> SUFFICES ASSUME NEW w \in Workers, job[w].pc \in {"store", "fulfil"}, job[w].tx = t
                 PROVE  rows'[t].status = "fulfilled" \/ InHand(t)' \/ faults' = faults + 1
      BY DEF InHand
    <2>1. job \in [Workers -> Job] /\ rows \in [Txs -> Row]
      BY DEF SoloInv, IInv, SaleTypeOK
    <2>2. CASE job'[w] = job[w]
      BY <2>2 DEF InHand
    <2>3. CASE SaveTenant(w)
      <3>1. job'[w].pc = "fulfil" /\ job'[w].tx = t
        BY <2>1, <2>3 DEF SaveTenant, Goto, Job
      <3> QED
        BY <3>1 DEF InHand
    <2>4. CASE Fulfil(w)
      <3>1. rows[t] \in Row
        BY <2>1
      <3>2. rows'[t].status = "fulfilled"
        BY <2>1, <2>4, <3>1 DEF Fulfil, Row
      <3> QED
        BY <3>2
    <2>5. CASE SaveTenantFails(w) \/ Crash(w)
      BY <2>5 DEF SaveTenantFails, Crash
    <2>6. \/ job'[w] = job[w] \/ SaveTenant(w) \/ Fulfil(w) \/ SaveTenantFails(w) \/ Crash(w)
      <3>1. ASSUME NEW v \in Workers \ {w}, Request(v) \/ Progress(v) \/ Crash(v)
            PROVE  job'[w] = job[w]
        BY <1>0, <3>1, OthersKept
      <3>2. CASE Environment \/ UNCHANGED state
        BY <3>2 DEF Environment, Block, Reorg, PersistQuote, Lapse, state
      <3>3. CASE Request(w) \/ Progress(w) \/ Crash(w)
        BY <3>3 DEF Request, Verify, Recover, Progress, ReadPurchase, ReadQuote, ReadReceipt,
               ReadHead, CheckTenant, Claim, Mint, MintLost, Issue, MintFails, RecordFailure, Reply
      <3> QED
        BY <3>1, <3>2, <3>3 DEF Step
    <2> QED
      BY <2>2, <2>3, <2>4, <2>5, <2>6
  <1>5. IsFiniteSet(KeysFor(t)) /\ Cardinality(KeysFor(t)) <= KeyBound(t)
        /\ Cardinality(KeysFor(t)) \in Nat
    BY FS_CardinalityType DEF SoloInv, KeysBounded
  <1>6. KeyBound(t) <= KeyBound(t)' /\ KeyBound(t) \in Nat /\ KeyBound(t)' \in Nat
    <2>1. \/ KeyBound(t) \in {faults, 1 + faults} /\ KeyBound(t)' = 1 + faults'
          \/ KeyBound(t) = faults /\ KeyBound(t)' = faults'
          \/ KeyBound(t) = 1 + faults /\ KeyBound(t)' = faults' /\ faults' = faults + 1
      BY <1>3, <1>4 DEF KeyBound
    <2>2. faults <= faults'
      BY <1>1
    <2> QED
      BY <1>1, <2>1, <2>2, BoundGrows
  <1>7. Cardinality(KeysFor(t)) <= KeyBound(t)'
    BY <1>5, <1>6
  <1> QED
    BY <1>2, <1>5, <1>7 DEF KeysBounded

(* A key issued to an only request is in hand, or lost to a fault.          *)
LEMMA SoloKeysMinted ==
  ASSUME SoloInv, NEW w \in Workers, Mint(w) \/ MintLost(w), NEW t \in Txs \ raced
  PROVE  KeysBounded(t)'
  <1> DEFINE x == job[w].tx
             n == Len(issued) + 1
  <1>0. Issue(w) /\ rows' = rows /\ IInv /\ job[w].pc = "mint"
    BY DEF Mint, MintLost, Issue, SoloInv
  <1>1. /\ job \in [Workers -> Job] /\ rows \in [Txs -> Row] /\ faults \in Nat
    BY ConstantsAssumption DEF SoloInv, IInv, SaleTypeOK
  <1>2. x \in Txs /\ (t = x => rows[t].status = "confirmed")
    BY <1>0, Running DEF SoloInv, SoloJob
  <1>3. \A v \in Workers \ {w} : job'[v] = job[v] /\ (t = x => job[v].tx # t)
    <2>1. \A v \in Workers \ {w} : job'[v] = job[v]
      BY <1>0, OthersKept DEF Progress
    <2>2. ~InProgressTwice(t)
      BY DEF SoloInv
    <2>3. \A v \in Workers \ {w} : t = x => job[v].tx # t
      BY <2>2 DEF InProgressTwice
    <2> QED
      BY <2>1, <2>3
  <1>4. /\ DOMAIN issued' = DOMAIN issued \cup {n} /\ n \notin DOMAIN issued
        /\ issued'[n].tx = x /\ \A i \in DOMAIN issued : issued'[i] = issued[i]
    <2>1. /\ DOMAIN issued' = DOMAIN issued \cup {n} /\ n \notin DOMAIN issued
          /\ issued'[n] = NewKey(job[w]) /\ \A i \in DOMAIN issued : issued'[i] = issued[i]
      BY <1>0, Issued
    <2> QED
      BY <2>1 DEF NewKey
  <1>5. KeysFor(t)' = IF t = x THEN KeysFor(t) \cup {n} ELSE KeysFor(t)
    BY <1>4 DEF KeysFor
  <1>6. IsFiniteSet(KeysFor(t)) /\ Cardinality(KeysFor(t)) \in Nat
        /\ Cardinality(KeysFor(t)) <= KeyBound(t)
    BY FS_CardinalityType DEF SoloInv, KeysBounded
  <1>7. IsFiniteSet(KeysFor(t) \cup {n}) /\ Cardinality(KeysFor(t) \cup {n}) = Cardinality(KeysFor(t)) + 1
    <2>1. n \notin KeysFor(t)
      BY <1>4 DEF KeysFor
    <2> QED
      BY <1>6, <2>1, FS_AddElement
  <1>8. /\ Mint(w) => job'[w].pc = "store" /\ job'[w].tx = x /\ faults' = faults
        /\ MintLost(w) => job'[w].pc = "failed" /\ job'[w].tx = x /\ faults' = faults + 1
    BY <1>1 DEF Mint, MintLost, Goto, Job
  <1>9. CASE t = x
    <2>1. ~InHand(t)
      BY <1>0, <1>3, <1>9 DEF InHand
    <2>2. KeyBound(t) = faults
      BY <1>2, <1>9, <2>1 DEF KeyBound
    <2>3. KeyBound(t)' = faults + 1
      <3>1. CASE Mint(w)
        BY <1>1, <1>8, <1>9, <3>1 DEF KeyBound, InHand
      <3>2. CASE MintLost(w)
        <4>1. ~InHand(t)'
          BY <1>3, <1>8, <1>9, <3>2 DEF InHand
        <4> QED
          BY <1>0, <1>2, <1>8, <1>9, <3>2, <4>1 DEF KeyBound
      <3> QED
        BY <3>1, <3>2
    <2>4. Cardinality(KeysFor(t) \cup {n}) <= KeyBound(t)'
      BY <1>1, <1>6, <1>7, <2>2, <2>3
    <2> QED
      BY <1>5, <1>7, <1>9, <2>4 DEF KeysBounded
  <1>10. CASE t # x
    <2>1. InHand(t)' <=> InHand(t)
      BY <1>3, <1>8, <1>10 DEF InHand
    <2>2. KeyBound(t) \in Nat /\ KeyBound(t)' \in Nat /\ KeyBound(t) <= KeyBound(t)'
      BY <1>0, <1>1, <1>8, <2>1 DEF KeyBound
    <2>3. Cardinality(KeysFor(t)) <= KeyBound(t)'
      BY <1>6, <2>2
    <2> QED
      BY <1>5, <1>6, <1>10, <2>3 DEF KeysBounded
  <1> QED
    BY <1>9, <1>10

(* What an only request knows is kept: no other step writes its row.        *)
LEMMA SoloJobs ==
  ASSUME SoloInv, [Next]_vars, NEW v \in Workers, job'[v].tx \notin raced'
  PROVE  SoloJob(job[v])'
  <1>0. IInv /\ [Step]_state /\ raced \subseteq raced'
    BY StepOfNext, RacedGrows DEF SoloInv
  <1>1. CASE Environment \/ UNCHANGED state
    <2>1. UNCHANGED <<rows, job>>
      BY <1>1 DEF Environment, Block, Reorg, PersistQuote, Lapse, state
    <2>2. SoloJob(job[v])
      BY <1>0, <2>1 DEF SoloInv
    <2> QED
      BY <2>1, <2>2 DEF SoloJob, Existing
  <1>2. ASSUME NEW w \in Workers, Request(w) \/ Progress(w) \/ Crash(w)
        PROVE  SoloJob(job[v])'
    <2>1. CASE v = w
      <3>1. CASE Request(w)
        BY <1>0, <2>1, <3>1, SoloRequest
      <3>2. CASE Finish(w)
        <4>1. job'[w] = IdleJob
          BY <1>0, <3>2 DEF Finish, IInv, SaleTypeOK
        <4> QED
          BY <2>1, <4>1 DEF SoloJob, IdleJob
      <3>3. CASE Progress(w) /\ ~Finish(w)
        <4>1. job'[w].tx = job[w].tx
          BY <1>0, <3>3, SameTx
        <4> QED
          BY <1>0, <2>1, <3>3, <4>1, SoloStep
      <3> QED
        BY <1>2, <3>1, <3>2, <3>3 DEF Crash
    <2>2. CASE v # w
      <3>1. job'[v] = job[v] /\ \A t \in Txs \ {job[w].tx} : rows'[t] = rows[t]
        BY <1>0, <1>2, <2>2, OthersKept
      <3>2. SoloJob(job[v])
        BY <1>0, <3>1 DEF SoloInv
      <3>3. CASE job[v].pc = "idle"
        BY <3>1, <3>2, <3>3 DEF SoloJob
      <3>4. CASE job[v].pc # "idle"
        <4>1. job[v].tx \in Txs /\ job[v].tx # job[w].tx
          BY <1>0, <2>2, <3>1, <3>4, Running DEF SoloInv, InProgressTwice
        <4>2. rows'[job[v].tx] = rows[job[v].tx]
          BY <3>1, <4>1
        <4> QED
          BY <3>1, <3>2, <4>2 DEF SoloJob, Existing
      <3> QED
        BY <3>3, <3>4
    <2> QED
      BY <2>1, <2>2
  <1> QED
    BY <1>0, <1>1, <1>2 DEF Step

(* Every step keeps the invariant.                                          *)
LEMMA SoloNext ==
  ASSUME SoloInv, [Next]_vars
  PROVE  SoloInv'
  <1>0. [Step]_state /\ raced \subseteq raced'
        /\ \A t \in Txs : InProgressTwice(t)' => t \in raced'
    BY StepOfNext, RacedGrows
  <1>1. IInv'
    BY <1>0, StepInvariant DEF SoloInv
  <1>2. \A t \in Txs \ raced : KeysBounded(t)'
    <2>1. CASE UNCHANGED issued
      BY <1>0, <2>1, SoloKeysKept
    <2>2. ASSUME NEW w \in Workers, Mint(w) \/ MintLost(w)
          PROVE  \A t \in Txs \ raced : KeysBounded(t)'
      BY <2>2, SoloKeysMinted
    <2>3. UNCHANGED issued \/ \E w \in Workers : Mint(w) \/ MintLost(w)
      BY <1>0 DEF Step, state, Environment, Block, Reorg, PersistQuote, Lapse, Request, Verify,
             Recover, Progress, ReadPurchase, ReadQuote, ReadReceipt, ReadHead, CheckTenant,
             Claim, MintFails, SaveTenant, SaveTenantFails, Fulfil, RecordFailure, Reply, Crash
    <2> QED
      BY <2>1, <2>2, <2>3
  <1>3. \A t \in Txs \ raced : SoloRow(t)'
    BY <1>0, SoloRowsFinal
  <1>4. \A v \in Workers : job'[v].tx \notin raced' => SoloJob(job[v])'
    BY SoloJobs
  <1>5. HandedIsOnRecord'
    BY <1>0, SoloHanded
  <1> QED
    BY <1>0, <1>1, <1>2, <1>3, <1>4, <1>5 DEF SoloInv

(* Before any request no row holds a key and nothing has overlapped.        *)
LEMMA SoloInit == Init => SoloInv
  <1> SUFFICES ASSUME Init PROVE SoloInv
    OBVIOUS
  <1>1. \A w \in Workers : SoloJob(job[w])
    BY DEF Init, SoloJob, IdleJob
  <1>2. \A t \in Txs : SoloRow(t)
    BY DEF Init, SoloRow, NoRow
  <1>3. HandedIsOnRecord
    BY DEF Init, HandedIsOnRecord
  <1>4. \A t \in Txs : KeysBounded(t)
    <2> SUFFICES ASSUME NEW t \in Txs PROVE KeysBounded(t)
      OBVIOUS
    <2>1. KeysFor(t) = {}
      BY DEF Init, KeysFor
    <2>2. KeyBound(t) \in {0, 1}
      BY DEF Init, KeyBound
    <2> QED
      BY <2>1, <2>2, FS_EmptySet DEF KeysBounded
  <1>5. \A t \in Txs : ~InProgressTwice(t)
    BY ConstantsAssumption DEF Init, InProgressTwice, IdleJob
  <1> QED
    BY <1>1, <1>2, <1>3, <1>4, <1>5, InitInvariant DEF SoloInv

(* The invariant of the payments that requests never overlap on holds       *)
(* throughout.                                                              *)
THEOREM SoloInvariant == Spec => []SoloInv
  BY SoloInit, SoloNext, PTL DEF Spec

(* A payment whose requests did not overlap has one key too many at most    *)
(* for each crash, store failure after the mint or lost answer of Venice.   *)
THEOREM ExtraKeys == Spec => []ExtraKeysNeedFaults
  <1>1. SoloInv => ExtraKeysNeedFaults
    <2> SUFFICES ASSUME SoloInv, NEW t \in Txs \ raced
                 PROVE  Cardinality(KeysFor(t)) <= 1 + faults
      BY DEF ExtraKeysNeedFaults
    <2>1. faults \in Nat
      BY ConstantsAssumption DEF SoloInv, IInv, SaleTypeOK
    <2>2. Cardinality(KeysFor(t)) \in Nat /\ Cardinality(KeysFor(t)) <= KeyBound(t)
      BY FS_CardinalityType DEF SoloInv, KeysBounded
    <2>3. KeyBound(t) \in Nat /\ KeyBound(t) <= 1 + faults
      BY <2>1 DEF KeyBound
    <2> QED
      BY <2>1, <2>2, <2>3
  <1> QED
    BY <1>1, SoloInvariant, PTL

(* Where requests for a payment did not overlap, whatever its buyer was     *)
(* ever handed is the key on the record of the payment.                     *)
THEOREM OneKeyHanded == Spec => []HandedIsOnRecord
  <1>1. SoloInv => HandedIsOnRecord
    BY DEF SoloInv
  <1> QED
    BY <1>1, SoloInvariant, PTL

(* Where requests for a payment did not overlap, no retry or recovery       *)
(* rewrites the row of its fulfilled purchase.                              *)
THEOREM FulfilledStays == Spec => FulfilledIsFinal
  <1>1. SoloInv /\ [Next]_vars => [\A t \in Txs \ raced : rows[t].status = "fulfilled"
                                       => rows'[t] = rows[t]]_rows
    BY StepOfNext, SoloRowsFinal DEF RowsFinal
  <1> QED
    BY <1>1, SoloInvariant, PTL DEF Spec, FulfilledIsFinal

=============================================================================

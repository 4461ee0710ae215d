--------------------------- MODULE BuyFlowProofs ---------------------------
(***************************************************************************)
(* What holds of the storefront as a whole for any number of clerks,       *)
(* workers, payments, intents, quotes and rows.  Its sales are those of    *)
(* Purchases, whose invariant asks nothing of the bids.  A bid is filled   *)
(* on the word of a request that read its link several commits earlier, so *)
(* FlowInv says that, unless the bid is contested, its link and its wallet *)
(* are still what the request read.                                        *)
(***************************************************************************)
EXTENDS BuyFlow, BidBookProofs, SequenceTheorems

-----------------------------------------------------------------------------
(* The sale within the storefront: the book does nothing to quotes but put  *)
(* them on record.                                                          *)
Shop == INSTANCE KeySaleProofs

(* Up to the claim a request does here what it does alone.                  *)
LEMMA ShopReads ==
  ASSUME NEW w \in Workers
  PROVE  /\ P!Request(w) => Shop!Request(w)
         /\ P!ReadPurchase(w) => Shop!ReadPurchase(w)
         /\ P!ReadQuote(w) => Shop!ReadQuote(w)
         /\ P!ReadReceipt(w) => Shop!ReadReceipt(w)
         /\ P!ReadHead(w) => Shop!ReadHead(w)
         /\ P!CheckTenant(w) => Shop!CheckTenant(w)
         /\ P!Reply(w) => Shop!Reply(w)
         /\ P!Crash(w) => Shop!Crash(w)
  <1> USE DEF P!Finish, Shop!Finish, P!Goto, Shop!Goto, P!IdleJob, Shop!IdleJob,
              P!NoRow, Shop!NoRow, P!Existing, Shop!Existing
  <1>1. P!Request(w) => Shop!Request(w)
    BY DEF P!Request, Shop!Request, P!Verify, Shop!Verify, P!Recover, Shop!Recover,
           P!Accept, Shop!Accept, P!TenantIds, Shop!TenantIds
  <1>2. P!ReadPurchase(w) => Shop!ReadPurchase(w)
    BY DEF P!ReadPurchase, Shop!ReadPurchase
  <1>3. P!ReadQuote(w) => Shop!ReadQuote(w)
    BY DEF P!ReadQuote, Shop!ReadQuote, P!KeyRecorded, Shop!KeyRecorded, P!Payable, Shop!Payable,
           P!LinkedBids, Shop!LinkedBids, P!MayPay, Shop!MayPay
  <1>4. P!ReadReceipt(w) => Shop!ReadReceipt(w)
    BY DEF P!ReadReceipt, Shop!ReadReceipt, P!Receipts, Shop!Receipts
  <1>5. P!ReadHead(w) => Shop!ReadHead(w)
    BY DEF P!ReadHead, Shop!ReadHead, P!Covers, Shop!Covers, P!DeepEnough, Shop!DeepEnough,
           P!Depth, Shop!Depth, P!MinRequired, Shop!MinRequired
  <1>6. P!CheckTenant(w) => Shop!CheckTenant(w)
    BY DEF P!CheckTenant, Shop!CheckTenant, P!TenantGranted, Shop!TenantGranted,
           P!ChosenTenant, Shop!ChosenTenant
  <1>7. P!Reply(w) => Shop!Reply(w)
    BY DEF P!Reply, Shop!Reply
  <1>8. P!Crash(w) => Shop!Crash(w)
    BY DEF P!Crash, Shop!Crash
  <1> QED
    BY <1>1, <1>2, <1>3, <1>4, <1>5, <1>6, <1>7, <1>8

(* So it does from the claim to the last commit.                            *)
LEMMA ShopCommits ==
  ASSUME NEW w \in Workers
  PROVE  /\ P!Claim(w) => Shop!Claim(w)
         /\ P!Mint(w) => Shop!Mint(w)
         /\ P!MintLost(w) => Shop!MintLost(w)
         /\ P!MintFails(w) => Shop!MintFails(w)
         /\ P!SaveTenant(w) => Shop!SaveTenant(w)
         /\ P!SaveTenantFails(w) => Shop!SaveTenantFails(w)
         /\ P!Fulfil(w) => Shop!Fulfil(w)
         /\ P!RecordFailure(w) => Shop!RecordFailure(w)
  <1> USE DEF P!Finish, Shop!Finish, P!Goto, Shop!Goto, P!IdleJob, Shop!IdleJob,
              P!NoRow, Shop!NoRow, P!Issue, Shop!Issue
  <1>1. P!Claim(w) => Shop!Claim(w)
    BY DEF P!Claim, Shop!Claim, P!ClaimRow, Shop!ClaimRow, P!ClaimLost, Shop!ClaimLost,
           P!KeyRecorded, Shop!KeyRecorded
  <1>2. P!Mint(w) => Shop!Mint(w)
    BY DEF P!Mint, Shop!Mint
  <1>3. P!MintLost(w) => Shop!MintLost(w)
    BY DEF P!MintLost, Shop!MintLost
  <1>4. P!MintFails(w) => Shop!MintFails(w)
    BY DEF P!MintFails, Shop!MintFails
  <1>5. P!SaveTenant(w) => Shop!SaveTenant(w)
    BY DEF P!SaveTenant, Shop!SaveTenant
  <1>6. P!SaveTenantFails(w) => Shop!SaveTenantFails(w)
    BY DEF P!SaveTenantFails, Shop!SaveTenantFails
  <1>7. P!Fulfil(w) => Shop!Fulfil(w)
    BY DEF P!Fulfil, Shop!Fulfil, P!FillLinkedBid, Shop!FillLinkedBid
  <1>8. P!RecordFailure(w) => Shop!RecordFailure(w)
    BY DEF P!RecordFailure, Shop!RecordFailure
  <1> QED
    BY <1>1, <1>2, <1>3, <1>4, <1>5, <1>6, <1>7, <1>8

(* A step of a purchase in the flow is one of Purchases.                    *)
LEMMA ShopStep == Purchase => Shop!Step
  <1>1. CASE P!Block
    BY <1>1 DEF P!Block, Shop!Block, Shop!Step, Shop!Environment
  <1>2. ASSUME NEW t \in Txs, P!Reorg(t) PROVE Shop!Step
    BY <1>2 DEF P!Reorg, Shop!Reorg, P!Depth, Shop!Depth, Shop!Step, Shop!Environment
  <1>3. ASSUME NEW q \in Quotes, P!Lapse(q) PROVE Shop!Step
    BY <1>3 DEF P!Lapse, Shop!Lapse, Shop!Step, Shop!Environment
  <1>4. ASSUME NEW w \in Workers, P!Request(w) \/ P!Progress(w) \/ P!Crash(w) PROVE Shop!Step
    <2>1. Shop!Request(w) \/ Shop!Progress(w) \/ Shop!Crash(w)
      BY <1>4, ShopReads, ShopCommits DEF P!Progress, Shop!Progress
    <2> QED
      BY <2>1 DEF Shop!Step
  <1> QED
    BY <1>1, <1>2, <1>3, <1>4 DEF Purchase

(* The book records quotes, and does nothing else to a purchase.            *)
LEMMA BookRecords ==
  ASSUME BookStep, UNCHANGED purchaseVars
  PROVE  \/ \E q \in Quotes, p \in Prices : Shop!QuoteListed(q, p)
         \/ UNCHANGED <<quotes, listed>>
  <1>1. \/ UNCHANGED <<quotes, listed>>
        \/ \E q \in Quotes, p \in Prices : Record(q, p)
    BY DEF BookStep, Public, Serve, StartSave, SavePolicy, OfferQuote, PersistSpot, Overdue,
           Restart, Submit, StreamRead, SettleRead, Load, LookUp, Insert, StreamWrite,
           SettleRefuse, SettleAgain, SettlePrice, SettleUnpriced, SettleLink, Abandon
  <1> QED
    BY <1>1 DEF Record, purchaseVars, Shop!QuoteListed

(* Every step keeps what Purchases keeps, and sells as it sells.            *)
LEMMA ShopStepInv ==
  ASSUME Shop!IInv, [Next]_flowVars
  PROVE  Shop!IInv' /\ [Shop!Sale!Next]_Shop!Sale!saleVars
  <1>0. Shop!ConstantsAssumption
    BY FlowAssumption DEF P!ConstantsAssumption, Shop!ConstantsAssumption
  <1>1. CASE Purchase
    BY <1>0, <1>1, ShopStep, Shop!StepInvariant, Shop!SaleStep
  <1>2. ASSUME NEW q \in Quotes, NEW p \in Prices, Shop!QuoteListed(q, p)
        PROVE  Shop!IInv' /\ [Shop!Sale!Next]_Shop!Sale!saleVars
    BY <1>0, <1>2, Shop!OfferStep, Shop!ListingKeeps
  <1>3. CASE UNCHANGED <<quotes, listed, purchaseVars>>
    <2>1. Shop!IInv' /\ Shop!SaleVars' = Shop!SaleVars
      BY <1>0, <1>3, Shop!ElsewhereKeeps DEF purchaseVars
    <2> QED
      BY <2>1 DEF Shop!SaleVars, Shop!Sale!saleVars
  <1>4. CASE BookNext /\ UNCHANGED purchaseVars
    <2>1. BookStep
      BY <1>4 DEF BookNext
    <2> QED
      BY <1>2, <1>3, <1>4, <2>1, BookRecords
  <1>5. CASE UNCHANGED flowVars
    BY <1>3, <1>5 DEF flowVars
  <1> QED
    BY <1>1, <1>4, <1>5 DEF Next

(* Nothing is sold at the start.                                            *)
LEMMA ShopInit == Init => Shop!IInv /\ Shop!Sale!Init
  <1> SUFFICES ASSUME Init PROVE Shop!IInv /\ Shop!Sale!Init
    OBVIOUS
  <1>0. Shop!ConstantsAssumption
    BY FlowAssumption DEF P!ConstantsAssumption, Shop!ConstantsAssumption
  <1>1. /\ quotes \in [Quotes -> Shop!Quote] /\ listed \in [Quotes -> SUBSET Prices]
        /\ \A q \in Quotes : quotes[q].status # "filled" /\ Shop!QuoteOK(q)
    BY DEF Init, BookInit, NoQuoteRow, Shop!Quote, Shop!QuoteOK
  <1>2. Shop!Beginning
    BY <1>1 DEF Init, Shop!Beginning, P!NoRow, Shop!NoRow, P!NoTenant, Shop!NoTenant,
           P!IdleJob, Shop!IdleJob, P!TenantIds, Shop!TenantIds, P!NoChain, Shop!NoChain
  <1> QED
    BY <1>0, <1>2, Shop!BeginningInvariant, Shop!SaleBeginning

(* The sale is read off the same tables.                                    *)
LEMMA SameSale == Shop!SaleSpec => P!SaleSpec
  <1>1. /\ P!Deep = Shop!Deep /\ P!Dropped = Shop!Dropped
        /\ P!Sales = Shop!Sales /\ P!FilledQuotes = Shop!FilledQuotes
        /\ P!Deep' = Shop!Deep' /\ P!Dropped' = Shop!Dropped'
        /\ P!Sales' = Shop!Sales' /\ P!FilledQuotes' = Shop!FilledQuotes'
    BY DEF P!Deep, Shop!Deep, P!DeepEnough, Shop!DeepEnough, P!Depth, Shop!Depth,
           P!Dropped, Shop!Dropped, P!Sales, Shop!Sales, P!FilledQuotes, Shop!FilledQuotes,
           P!Existing, Shop!Existing, P!NoRow, Shop!NoRow
  <1>2. Shop!Sale!Init => P!Sale!Init
    BY <1>1 DEF Shop!Sale!Init, P!Sale!Init
  <1>3. UNCHANGED Shop!Sale!saleVars => UNCHANGED P!Sale!saleVars
    BY <1>1 DEF Shop!Sale!saleVars, P!Sale!saleVars
  <1>4. \A payments \in SUBSET Txs : Shop!Sale!See(payments) => P!Sale!See(payments)
    BY <1>1 DEF Shop!Sale!See, P!Sale!See
  <1>5. \A q \in Quotes, p \in Prices : Shop!Sale!Offer(q, p) => P!Sale!Offer(q, p)
    BY <1>1 DEF Shop!Sale!Offer, P!Sale!Offer
  <1>6. \A t \in Txs, b \in Buyers : Shop!Sale!Sell(t, b) => P!Sale!Sell(t, b)
    BY <1>1 DEF Shop!Sale!Sell, P!Sale!Sell
  <1>7. \A t \in Txs, b \in Buyers, q \in Quotes, p \in Prices :
          Shop!Sale!Issue(t, b, q, p) => P!Sale!Issue(t, b, q, p)
    BY <1>1 DEF Shop!Sale!Issue, P!Sale!Issue, Shop!Covers, P!Covers, Shop!MinRequired, P!MinRequired
  <1>8. \A i \in DOMAIN issued : /\ Shop!Sale!Give(i) => P!Sale!Give(i)
                                 /\ Shop!Sale!Fill(i) => P!Sale!Fill(i)
    BY <1>1 DEF Shop!Sale!Give, P!Sale!Give, Shop!Sale!Fill, P!Sale!Fill
  <1>9. [Shop!Sale!Next]_Shop!Sale!saleVars => [P!Sale!Next]_P!Sale!saleVars
    BY <1>3, <1>4, <1>5, <1>6, <1>7, <1>8 DEF Shop!Sale!Next, P!Sale!Next
  <1> QED
    BY <1>2, <1>9, PTL DEF Shop!SaleSpec, P!SaleSpec, Shop!Sale!Spec, P!Sale!Spec

(* With limit bids and their settlement beside it the storefront still      *)
(* implements the sale of KeySale, for any number of clerks, workers,       *)
(* payments, intents and quotes: quotes that settlement puts on record,     *)
(* re-prices, replaces or finds filled sell nothing.                        *)
THEOREM FlowSells == Spec => P!SaleSpec
  <1>1. Spec => Shop!SaleSpec
    BY ShopInit, ShopStepInv, PTL DEF Spec, Shop!SaleSpec, Shop!Sale!Spec
  <1> QED
    BY <1>1, SameSale

(* And the safety of the sale is that of Purchases: one wallet per payment, *)
(* keys paid for in full at a price their quote was on record at, handed to *)
(* their payer, and a default tenant of one's own, whatever the order book  *)
(* does meanwhile.                                                          *)
THEOREM FlowKeysArePaidFor ==
  Spec => [](/\ P!OneBuyerPerPayment /\ P!KeysArePaidFor /\ P!HandedToPayer
             /\ P!FilledQuoteHasKey /\ P!DefaultTenantIsOwn)
  <1>1. ASSUME Shop!IInv, NEW i \in DOMAIN issued
        PROVE  /\ rows[issued[i].tx].buyer = issued[i].buyer
               /\ issued[i].tx \in P!Deep \cup P!Dropped
               /\ issued[i].tx \notin Reverted
               /\ Paid[<<issued[i].tx, issued[i].buyer, Asset[issued[i].quote]>>]
                    >= P!MinRequired(issued[i].quote, issued[i].price)
               /\ issued[i].price \in listed[issued[i].quote]
    BY <1>1 DEF Shop!IInv, Shop!KeyOK, Shop!Recorded, Shop!Verifies, Shop!Covers,
                Shop!MinRequired, P!MinRequired, Shop!Deep, P!Deep, Shop!Dropped, P!Dropped,
                Shop!DeepEnough, P!DeepEnough, Shop!Depth, P!Depth
  <1>2. Shop!IInv => P!OneBuyerPerPayment
    BY <1>1 DEF P!OneBuyerPerPayment
  <1>3. Shop!IInv => P!KeysArePaidFor
    BY <1>1 DEF P!KeysArePaidFor
  <1>4. Shop!IInv => P!HandedToPayer
    BY DEF Shop!IInv, Shop!HandedToPayer, P!HandedToPayer
  <1>5. Shop!IInv => P!FilledQuoteHasKey /\ P!DefaultTenantIsOwn
    BY DEF Shop!IInv, Shop!FilledQuoteHasKey, P!FilledQuoteHasKey,
           Shop!DefaultTenantIsOwn, P!DefaultTenantIsOwn
  <1> QED
    BY <1>2, <1>3, <1>4, <1>5, ShopInit, ShopStepInv, PTL DEF Spec

-----------------------------------------------------------------------------
(* The bids within the storefront.                                          *)

(* A key was issued to wallet b for quote q.                                *)
Keyed(b, q) == \E i \in DOMAIN issued : issued[i].buyer = b /\ issued[i].quote = q

(* The bid a request has read is there; unless contested, it is still       *)
(* linked to the quote of the request, and of its wallet.                   *)
BidKnown(w) ==
    job[w].bid # None =>
        /\ job[w].bid \in Bids /\ job[w].quote \in Quotes
        /\ bids[job[w].bid].status # "absent"
        /\ bids[job[w].bid].offer \notin contested =>
              /\ bids[job[w].bid].quote = job[w].quote
              /\ bids[job[w].bid].buyer = job[w].buyer

FilledKeyed ==
    \A x \in Bids : bids[x].status = "filled" /\ bids[x].offer \notin contested =>
        bids[x].quote # None /\ Keyed(bids[x].buyer, bids[x].quote)

FlowInv ==
    /\ Shop!IInv
    /\ AloneInv
    /\ \A w \in Workers : BidKnown(w)
    /\ FilledKeyed

(* Bids stay those of their intent and wallet, and what is linked and       *)
(* uncontested stays so linked; keys stay issued.                           *)
FlowGrows ==
    /\ contested \subseteq contested'
    /\ \A x \in Bids : bids[x].status # "absent" =>
         /\ bids'[x].status # "absent"
         /\ bids'[x].offer = bids[x].offer /\ bids'[x].buyer = bids[x].buyer
    /\ LinksHold
    /\ \A i \in DOMAIN issued : i \in DOMAIN issued' /\ issued'[i] = issued[i]

(* The intake and settlement keep bids, and fill none.                      *)
LEMMA BookKeeps ==
  ASSUME AloneInv, [BookNext]_vars
  PROVE  /\ \A x \in Bids : bids[x].status # "absent" =>
              /\ bids'[x].status # "absent"
              /\ bids'[x].offer = bids[x].offer /\ bids'[x].buyer = bids[x].buyer
         /\ \A x \in Bids : bids'[x].status = "filled" => bids[x].status = "filled"
  <1> DEFINE Kept == /\ \A x \in Bids : bids[x].status # "absent" =>
                          /\ bids'[x].status # "absent"
                          /\ bids'[x].offer = bids[x].offer /\ bids'[x].buyer = bids[x].buyer
                     /\ \A x \in Bids : bids'[x].status = "filled" => bids[x].status = "filled"
  <1>1. bids \in [Bids -> Bid]
    BY DEF AloneInv, BookInv, BooksTypeOK
  <1>3. CASE bids' = bids
    BY <1>3
  <1>4. ASSUME NEW c \in Clerks, Insert(c) PROVE Kept
    <2>1. PICK y \in Bids, status \in Verdicts(clerk[c].late) :
            /\ bids[y].status = "absent"
            /\ bids' = [bids EXCEPT ![y] = [offer |-> clerk[c].offer,
                                            buyer |-> Signer[clerk[c].offer],
                                            quote |-> None, status |-> status]]
      BY <1>4 DEF Insert
    <2>2. bids'[y].status = status /\ \A x \in Bids \ {y} : bids'[x] = bids[x]
      BY <1>1, <2>1
    <2>3. status # "filled"
      BY DEF Verdicts, LiveStatus
    <2> QED
      BY <2>1, <2>2, <2>3
  <1>5. ASSUME NEW c \in Clerks, StreamWrite(c) \/ SettleRefuse(c) \/ SettleLink(c) PROVE Kept
    <2> DEFINE r == clerk[c].row
    <2>1. r \in Bids
      BY <1>5 DEF AloneInv, BookInv, LoadedOK, StreamWrite, SettleRefuse, SettleLink
    <2>2. PICK status \in LiveStatus \cup {"expired"} :
            \/ bids' = SetStatus(c, status)
            \/ bids' = [SetStatus(c, status) EXCEPT ![r].quote = clerk[c].quote]
      BY <1>5 DEF StreamWrite, SettleRefuse, SettleLink, Verdicts, LiveStatus
    <2> DEFINE b == SetStatus(c, status)
    <2>3. /\ b \in [Bids -> Bid]
          /\ \A x \in Bids : /\ b[x].offer = bids[x].offer /\ b[x].buyer = bids[x].buyer
                             /\ b[x].status = "absent" => bids[x].status = "absent"
                             /\ b[x].status = "filled" => bids[x].status = "filled"
      BY <1>1, <2>1 DEF SetStatus, Bid, LiveStatus
    <2> HIDE DEF b, r
    <2>4. CASE bids' = b
      BY <2>3, <2>4
    <2>5. CASE bids' = [b EXCEPT ![r].quote = clerk[c].quote]
      <3>1. \A x \in Bids : /\ bids'[x].offer = b[x].offer /\ bids'[x].buyer = b[x].buyer
                            /\ bids'[x].status = b[x].status
        BY <2>1, <2>3, <2>5 DEF Bid
      <3> QED
        BY <2>3, <3>1
    <2> QED
      BY <2>2, <2>4, <2>5 DEF b, r
  <1> QED
    BY <1>3, <1>4, <1>5
      DEF BookNext, BookStep, vars, books, Public, Serve, StartSave, SavePolicy, OfferQuote,
          PersistSpot, Overdue, Restart, Submit, StreamRead, SettleRead, Load, LookUp,
          SettleAgain, SettlePrice, SettleUnpriced, Abandon

(* A step of a purchase leaves the book in order: it fills bids and quotes  *)
(* already on record.                                                       *)
LEMMA BookKept ==
  ASSUME AloneInv, UNCHANGED <<bookVars, listed>>,
         bids' \in [Bids -> Bid], quotes' \in [Quotes -> QuoteRow],
         RowsKept, \A x \in Bids : bids'[x].quote = bids[x].quote,
         \A q \in Quotes : quotes'[q].status = "absent" => quotes[q].status = "absent"
  PROVE  AloneInv'
  <1>1. BooksTypeOK'
    BY DEF AloneInv, BookInv, BooksTypeOK, bookVars
  <1>2. RowsOK'
    BY DEF AloneInv, BookInv, RowsOK, RowsKept
  <1>3. LinkIsSound'
    <2>1. \A x \in Bids : bids[x].quote # None => bids[x].quote \in Quotes
      BY DEF AloneInv, BookInv, BooksTypeOK, Bid
    <2> QED
      BY <2>1 DEF AloneInv, BookInv, LinkIsSound, RowsKept
  <1>4. ASSUME NEW c \in Clerks
        PROVE  LoadedOK(c)' /\ PricedOK(c)' /\ AloneOK(c)'
    <2>1. /\ LoadedOK(c) /\ PricedOK(c) /\ AloneOK(c)
          /\ clerk' = clerk /\ contested' = contested
      BY DEF AloneInv, BookInv, bookVars
    <2>2. LoadedOK(c)'
      BY <2>1 DEF LoadedOK, RowsKept
    <2>3. PricedOK(c)'
      BY <2>1 DEF PricedOK, WithinLimit
    <2>4. SameNonce(clerk[c].offer)' = SameNonce(clerk[c].offer)
      BY <2>1 DEF SameNonce, RowsKept
    <2> QED
      BY <2>1, <2>2, <2>3, <2>4 DEF AloneOK, LoadedOK
  <1>5. RowsSigned' /\ OneBidUncontested'
    BY RowsKeptOne DEF AloneInv, bookVars
  <1>6. ContestedOK'
    BY DEF AloneInv, ContestedOK, bookVars, AtOnce, Rivals
  <1> QED
    BY <1>1, <1>2, <1>3, <1>4, <1>5, <1>6 DEF AloneInv, BookInv

(* A request that does not move still knows its bid, and so does one that   *)
(* moves on about the same quote and wallet.                                *)
LEMMA BidKnownKept ==
  ASSUME FlowInv, FlowGrows, NEW w \in Workers,
         \/ job'[w].bid = None
         \/ /\ job'[w].bid = job[w].bid /\ job'[w].quote = job[w].quote
            /\ job'[w].buyer = job[w].buyer
         \/ /\ job'[w].bid \in Bids /\ bids' = bids /\ contested' = contested
            /\ bids[job'[w].bid].quote = job'[w].quote /\ job'[w].quote \in Quotes
            /\ bids[job'[w].bid].buyer = job'[w].buyer
  PROVE  BidKnown(w)'
  <1>1. CASE job'[w].bid = None
    BY <1>1 DEF BidKnown
  <1>2. CASE /\ job'[w].bid = job[w].bid /\ job'[w].quote = job[w].quote
             /\ job'[w].buyer = job[w].buyer /\ job[w].bid # None
    <2> DEFINE x == job[w].bid
    <2>1. /\ x \in Bids /\ bids[x].status # "absent" /\ job[w].quote \in Quotes
          /\ bids[x].offer \notin contested =>
                bids[x].quote = job[w].quote /\ bids[x].buyer = job[w].buyer
      BY <1>2 DEF FlowInv, BidKnown
    <2>2. /\ bids'[x].status # "absent" /\ bids'[x].offer = bids[x].offer
          /\ bids'[x].buyer = bids[x].buyer
      BY <2>1 DEF FlowGrows
    <2>3. bids[x].offer \notin contested => bids'[x].quote = job[w].quote
      <3>1. bids[x].offer \notin contested => bids[x].quote # None
        BY <2>1, OffersAssumption
      <3> QED
        BY <2>1, <3>1 DEF FlowGrows, LinksHold
    <2> QED
      BY <1>2, <2>1, <2>2, <2>3 DEF BidKnown, FlowGrows
  <1>3. CASE /\ job'[w].bid \in Bids /\ bids' = bids
             /\ bids[job'[w].bid].quote = job'[w].quote /\ job'[w].quote \in Quotes
             /\ bids[job'[w].bid].buyer = job'[w].buyer
    <2>1. bids[job'[w].bid].status # "absent"
      BY <1>3, OffersAssumption DEF FlowInv, AloneInv, BookInv, RowsOK
    <2> QED
      BY <1>3, <2>1 DEF BidKnown
  <1> QED
    BY <1>1, <1>2, <1>3

(* A filled bid keeps its key while its link stays.                         *)
LEMMA FilledKept ==
  ASSUME FilledKeyed, FlowGrows,
         \A x \in Bids : bids'[x].status = "filled" => bids[x].status = "filled"
  PROVE  FilledKeyed'
  <1> SUFFICES ASSUME NEW x \in Bids, bids'[x].status = "filled",
                      bids'[x].offer \notin contested'
               PROVE  bids'[x].quote # None /\ Keyed(bids[x].buyer, bids[x].quote)'
    BY DEF FilledKeyed
  <1>1. /\ bids[x].status = "filled" /\ bids[x].status # "absent"
        /\ bids'[x].offer = bids[x].offer /\ bids'[x].buyer = bids[x].buyer
        /\ bids[x].offer \notin contested
    BY DEF FlowGrows
  <1>2. bids[x].quote # None /\ Keyed(bids[x].buyer, bids[x].quote)
    BY <1>1 DEF FilledKeyed
  <1>3. bids'[x].quote = bids[x].quote
    BY <1>1, <1>2 DEF FlowGrows, LinksHold
  <1> QED
    BY <1>1, <1>2, <1>3 DEF FlowGrows, Keyed

-----------------------------------------------------------------------------
(* The steps of a purchase.                                                 *)

(* A request about a bid either read it with its quote or keeps it.         *)
LEMMA RequestBid ==
  ASSUME FlowInv, NEW w \in Workers, P!Request(w) \/ P!Progress(w) \/ P!Crash(w)
  PROVE  /\ \A v \in Workers \ {w} : job'[v] = job[v]
         /\ \/ job'[w].bid = None
            \/ /\ job'[w].bid = job[w].bid /\ job'[w].quote = job[w].quote
               /\ job'[w].buyer = job[w].buyer
            \/ /\ job'[w].bid \in Bids /\ bids' = bids /\ job'[w].quote \in Quotes
               /\ bids[job'[w].bid].quote = job'[w].quote
               /\ bids[job'[w].bid].buyer = job'[w].buyer
  <1> DEFINE Goal == /\ \A v \in Workers \ {w} : job'[v] = job[v]
                     /\ \/ job'[w].bid = None
                        \/ /\ job'[w].bid = job[w].bid /\ job'[w].quote = job[w].quote
                           /\ job'[w].buyer = job[w].buyer
                        \/ /\ job'[w].bid \in Bids /\ bids' = bids /\ job'[w].quote \in Quotes
                           /\ bids[job'[w].bid].quote = job'[w].quote
                           /\ bids[job'[w].bid].buyer = job'[w].buyer
  <1>1. job \in [Workers -> Shop!Job]
    BY DEF FlowInv, Shop!IInv, Shop!SaleTypeOK
  <1>2. CASE P!Finish(w)
    BY <1>1, <1>2 DEF P!Finish, P!IdleJob
  <1>3. ASSUME NEW step, P!Goto(w, step) PROVE Goal
    BY <1>1, <1>3 DEF P!Goto, Shop!Job
  <1>4. CASE P!Request(w)
    <2>1. \E t \in Txs, b \in Buyers : \E q, tenant : P!Accept(w, t, b, q, tenant)
      BY <1>4 DEF P!Request, P!Verify, P!Recover
    <2> QED
      BY <1>1, <2>1 DEF P!Accept, P!IdleJob
  <1>5. CASE P!ReadPurchase(w)
    BY <1>1, <1>2, <1>5 DEF P!ReadPurchase, Shop!Job
  <1>6. CASE P!ReadQuote(w) /\ ~P!Finish(w)
    <2>1. PICK x \in P!LinkedBids(job[w].quote) \cup {None} :
            /\ IF x = None THEN P!LinkedBids(job[w].quote) = {} ELSE P!MayPay(x, job[w].buyer)
            /\ job' = [job EXCEPT ![w].pc = "chain", ![w].bid = x,
                                  ![w].price = quotes[job[w].quote].price]
      BY <1>6 DEF P!ReadQuote
    <2>2. /\ \A v \in Workers \ {w} : job'[v] = job[v]
          /\ job'[w].bid = x /\ job'[w].quote = job[w].quote /\ job'[w].buyer = job[w].buyer
      <3> DEFINE p == quotes[job[w].quote].price
      <3>1. job' = [job EXCEPT ![w].pc = "chain", ![w].bid = x, ![w].price = p]
        BY <2>1
      <3> HIDE DEF p
      <3> QED
        BY <1>1, <3>1 DEF Shop!Job
    <2>3. job[w].quote \in Quotes /\ bids' = bids
      BY <1>6 DEF P!ReadQuote, FlowInv, Shop!IInv, Shop!JobOK, Shop!RequestOK
    <2>4. CASE x = None
      BY <2>2, <2>4
    <2>5. CASE x # None
      BY <2>1, <2>2, <2>3, <2>5 DEF P!LinkedBids, P!MayPay
    <2> QED
      BY <2>4, <2>5
  <1>7. CASE P!ReadReceipt(w)
    BY <1>1, <1>2, <1>7 DEF P!ReadReceipt, Shop!Job
  <1>8. CASE P!CheckTenant(w)
    BY <1>1, <1>2, <1>8 DEF P!CheckTenant, Shop!Job
  <1>9. CASE P!Claim(w)
    BY <1>1, <1>2, <1>3, <1>9 DEF P!Claim, P!ClaimRow, P!ClaimLost, Shop!Job
  <1>10. CASE P!Mint(w)
    <2> DEFINE n == Len(issued) + 1
    <2>1. job' = [job EXCEPT ![w].pc = "store", ![w].key = n]
      BY <1>10 DEF P!Mint
    <2> HIDE DEF n
    <2> QED
      BY <1>1, <2>1 DEF Shop!Job
  <1>11. CASE \/ P!ReadHead(w) \/ P!MintLost(w) \/ P!MintFails(w) \/ P!SaveTenant(w)
              \/ P!SaveTenantFails(w) \/ P!Fulfil(w) \/ P!RecordFailure(w)
    BY <1>2, <1>3, <1>11 DEF P!ReadHead, P!MintLost, P!MintFails, P!SaveTenant,
                             P!SaveTenantFails, P!Fulfil, P!RecordFailure
  <1>12. CASE P!Reply(w) \/ P!Crash(w)
    BY <1>2, <1>12 DEF P!Reply, P!Crash
  <1> QED
    BY <1>2, <1>4, <1>5, <1>6, <1>7, <1>8, <1>9, <1>10, <1>11, <1>12 DEF P!Progress

(* The last commit fills the bid the request read, whose key exists by now. *)
LEMMA FulfilBooks ==
  ASSUME FlowInv, UNCHANGED bookVars, NEW w \in Workers, P!Fulfil(w)
  PROVE  /\ AloneInv' /\ RowsKept /\ \A x \in Bids : bids'[x].quote = bids[x].quote
         /\ \A x \in Bids :
              bids'[x].status = "filled" /\ bids[x].offer \notin contested =>
                 bids[x].quote # None /\ Keyed(bids[x].buyer, bids[x].quote)
  <1>1. /\ job[w] \in Shop!Job /\ Shop!MintedOK(job[w]) /\ Shop!RequestOK(job[w])
        /\ job[w].pc = "fulfil"
    BY DEF FlowInv, Shop!IInv, Shop!SaleTypeOK, Shop!JobOK, P!Fulfil
  <1>2. /\ bids \in [Bids -> Bid] /\ quotes \in [Quotes -> QuoteRow]
    BY DEF FlowInv, AloneInv, BookInv, BooksTypeOK
  <1>3. job[w].quote \in Quotes /\ Keyed(job[w].buyer, job[w].quote)
    BY <1>1 DEF Shop!MintedOK, Shop!RequestOK, Shop!KeyOf, Keyed
  <1>4. /\ quotes' \in [Quotes -> QuoteRow]
        /\ \A q \in Quotes : quotes'[q].status = "absent" => quotes[q].status = "absent"
    <2> DEFINE row == [quotes[job[w].quote] EXCEPT !.status = "filled"]
    <2>1. row \in QuoteRow /\ row.status = "filled"
      BY <1>2, <1>3 DEF QuoteRow
    <2>2. quotes' = [quotes EXCEPT ![job[w].quote] = row]
      BY <1>2, <1>3 DEF P!Fulfil
    <2> HIDE DEF row
    <2> QED
      BY <1>2, <1>3, <2>1, <2>2
  <1>5. /\ bids' \in [Bids -> Bid]
        /\ RowsKept /\ \A x \in Bids : bids'[x].quote = bids[x].quote
        /\ \A x \in Bids : \/ bids'[x].status = bids[x].status
                           \/ job[w].bid = x /\ job[w].bid # None
    <2>1. CASE job[w].bid = None
      BY <1>2, <2>1 DEF P!Fulfil, P!FillLinkedBid, RowsKept
    <2>2. CASE job[w].bid # None
      <3> DEFINE y == job[w].bid
                 r == [bids[y] EXCEPT !.status = "filled"]
      <3>1. y \in Bids /\ bids[y].status # "absent"
        BY <2>2 DEF FlowInv, BidKnown
      <3>2. bids' = [bids EXCEPT ![y] = r]
        BY <1>2, <2>2, <3>1 DEF P!Fulfil, P!FillLinkedBid
      <3>3. /\ r \in Bid /\ r.offer = bids[y].offer /\ r.buyer = bids[y].buyer
            /\ r.quote = bids[y].quote /\ r.status = "filled"
        BY <1>2, <3>1 DEF Bid
      <3> HIDE DEF r
      <3> QED
        BY <1>2, <2>2, <3>1, <3>2, <3>3 DEF RowsKept
    <2> QED
      BY <2>1, <2>2
  <1>6. AloneInv'
    BY <1>4, <1>5, BookKept DEF FlowInv, P!Fulfil
  <1>7. ASSUME NEW x \in Bids, bids'[x].status = "filled", bids[x].offer \notin contested
        PROVE  bids[x].quote # None /\ Keyed(bids[x].buyer, bids[x].quote)
    <2>1. CASE bids'[x].status = bids[x].status
      BY <1>7, <2>1 DEF FlowInv, FilledKeyed
    <2>2. CASE job[w].bid = x /\ job[w].bid # None
      <3>1. bids[x].quote = job[w].quote /\ bids[x].buyer = job[w].buyer
        BY <1>7, <2>2 DEF FlowInv, BidKnown
      <3> QED
        BY <1>3, <3>1, OffersAssumption
    <2> QED
      BY <1>5, <2>1, <2>2
  <1> QED
    BY <1>5, <1>6, <1>7

(* Any other step of a purchase touches neither bids nor quotes.            *)
LEMMA OtherBooks ==
  ASSUME Purchase, \A w \in Workers : ~P!Fulfil(w)
  PROVE  UNCHANGED <<bids, quotes, listed>>
  <1>1. CASE P!Block \/ (\E t \in Txs : P!Reorg(t)) \/ (\E q \in Quotes : P!Lapse(q))
    BY <1>1 DEF P!Block, P!Reorg, P!Lapse
  <1>2. ASSUME NEW w \in Workers, P!Request(w) \/ P!Crash(w)
        PROVE  UNCHANGED <<bids, quotes, listed>>
    BY <1>2 DEF P!Request, P!Verify, P!Recover, P!Crash
  <1>3. ASSUME NEW w \in Workers, P!Progress(w)
        PROVE  UNCHANGED <<bids, quotes, listed>>
    BY <1>3 DEF P!Progress, P!ReadPurchase, P!ReadQuote, P!ReadReceipt, P!ReadHead, P!CheckTenant,
                P!Claim, P!Mint, P!MintLost, P!MintFails, P!SaveTenant, P!SaveTenantFails,
                P!RecordFailure, P!Reply
  <1> QED
    BY <1>1, <1>2, <1>3 DEF Purchase

(* A step of a purchase keeps the invariant.                                *)
LEMMA PurchaseStep ==
  ASSUME FlowInv, Shop!IInv', Purchase, UNCHANGED bookVars
  PROVE  FlowInv' /\ LinksHold
  <1>0. Shop!ConstantsAssumption
    BY FlowAssumption DEF P!ConstantsAssumption, Shop!ConstantsAssumption
  <1>1. \A i \in DOMAIN issued : i \in DOMAIN issued' /\ issued'[i] = issued[i]
    <2>1. Shop!Grows
      BY <1>0, ShopStep, Shop!StepGrows DEF FlowInv
    <2> QED
      BY <2>1 DEF Shop!Grows
  <1>2. /\ AloneInv' /\ RowsKept /\ \A x \in Bids : bids'[x].quote = bids[x].quote
        /\ \A x \in Bids :
             bids'[x].status = "filled" /\ bids[x].offer \notin contested =>
                bids[x].quote # None /\ Keyed(bids[x].buyer, bids[x].quote)
    <2>1. CASE \E w \in Workers : P!Fulfil(w)
      BY <2>1, FulfilBooks
    <2>2. CASE \A w \in Workers : ~P!Fulfil(w)
      <3>1. UNCHANGED <<bids, quotes, listed>>
        BY <2>2, OtherBooks
      <3>2. bids \in [Bids -> Bid] /\ quotes \in [Quotes -> QuoteRow] /\ RowsKept
        BY <3>1 DEF FlowInv, AloneInv, BookInv, BooksTypeOK, RowsKept
      <3>3. AloneInv'
        BY <3>1, <3>2, BookKept DEF FlowInv
      <3> QED
        BY <3>1, <3>2, <3>3 DEF FlowInv, FilledKeyed
    <2> QED
      BY <2>1, <2>2
  <1>3. FlowGrows /\ LinksHold /\ contested' = contested
    BY <1>1, <1>2 DEF FlowGrows, LinksHold, RowsKept, bookVars
  <1>4. ASSUME NEW v \in Workers PROVE BidKnown(v)'
    <2>1. CASE job' = job
      BY <1>3, <2>1, BidKnownKept
    <2>2. ASSUME NEW w \in Workers, P!Request(w) \/ P!Progress(w) \/ P!Crash(w)
          PROVE  BidKnown(v)'
      BY <1>3, <2>2, RequestBid, BidKnownKept
    <2> QED
      BY <2>1, <2>2 DEF Purchase, P!Block, P!Reorg, P!Lapse
  <1>5. FilledKeyed'
    <2> SUFFICES ASSUME NEW x \in Bids, bids'[x].status = "filled",
                        bids'[x].offer \notin contested'
                 PROVE  bids'[x].quote # None /\ Keyed(bids[x].buyer, bids[x].quote)'
      BY <1>2 DEF FilledKeyed, RowsKept
    <2>1. bids[x].quote # None /\ Keyed(bids[x].buyer, bids[x].quote)
      BY <1>2, <1>3 DEF RowsKept
    <2>2. PICK i \in DOMAIN issued :
            issued[i].buyer = bids[x].buyer /\ issued[i].quote = bids[x].quote
      BY <2>1 DEF Keyed
    <2>3. bids'[x].quote = bids[x].quote /\ bids'[x].buyer = bids[x].buyer
      BY <1>2, <2>1 DEF RowsKept
    <2>4. i \in DOMAIN issued' /\ issued'[i] = issued[i]
      BY <1>1
    <2> QED
      BY <2>1, <2>2, <2>3, <2>4 DEF Keyed
  <1> QED
    BY <1>2, <1>3, <1>4, <1>5 DEF FlowInv

-----------------------------------------------------------------------------
(* Every step of the storefront keeps the invariant and the links.          *)
LEMMA FlowStep ==
  ASSUME FlowInv, [Next]_flowVars
  PROVE  FlowInv' /\ LinksHold
  <1>1. Shop!IInv'
    BY ShopStepInv DEF FlowInv
  <1>2. CASE Purchase /\ UNCHANGED bookVars
    BY <1>1, <1>2, PurchaseStep
  <1>3. CASE UNCHANGED flowVars \/ (BookNext /\ UNCHANGED purchaseVars)
    <2>1. [BookNext]_vars /\ UNCHANGED <<issued, job>>
      BY <1>3 DEF flowVars, bookVars, purchaseVars, vars, books
    <2>2. AloneInv' /\ LinksHold
      BY <2>1, AloneStep DEF FlowInv
    <2>3. contested \subseteq contested'
      BY <2>1, ContestedGrows DEF FlowInv, AloneInv, BookNext
    <2>4. FlowGrows /\ \A x \in Bids : bids'[x].status = "filled" => bids[x].status = "filled"
      BY <2>1, <2>2, <2>3, BookKeeps DEF FlowInv, FlowGrows
    <2>5. \A w \in Workers : BidKnown(w)'
      BY <2>1, <2>4, BidKnownKept
    <2>6. FilledKeyed'
      BY <2>4, FilledKept DEF FlowInv
    <2> QED
      BY <1>1, <2>2, <2>5, <2>6 DEF FlowInv
  <1> QED
    BY <1>2, <1>3 DEF Next

(* Nothing is requested, sold or issued at the start.                       *)
LEMMA FlowInit == Init => FlowInv
  <1> SUFFICES ASSUME Init PROVE FlowInv
    OBVIOUS
  <1>1. AloneInv /\ Shop!IInv
    BY AloneInit, ShopInit DEF Init
  <1>2. \A w \in Workers : BidKnown(w)
    BY DEF Init, BidKnown, P!IdleJob
  <1>3. FilledKeyed
    BY DEF Init, BookInit, NoBid, FilledKeyed
  <1> QED
    BY <1>1, <1>2, <1>3 DEF FlowInv

(* A bid that no two requests contested is filled only when its own wallet  *)
(* was issued a key for the quote it is linked to, for any number of clerks *)
(* and workers, whatever settlements, polls, payments and crashes overlap.  *)
THEOREM FilledBids == Spec => []FilledBidHasItsKey
  <1>1. FlowInv /\ [Next]_flowVars => FlowInv'
    BY FlowStep
  <1>2. FlowInv => FilledBidHasItsKey
    BY DEF FlowInv, FilledKeyed, FilledBidHasItsKey, Keyed
  <1> QED
    BY <1>1, <1>2, FlowInit, PTL DEF Spec

(* No purchase replaces the quote such a bid was settled at either.         *)
THEOREM FlowLinksAreStable == Spec => LinkIsStable
  <1>1. FlowInv /\ [Next]_flowVars => FlowInv'
    BY FlowStep
  <1>2. FlowInv /\ [Next]_flowVars =>
          [\A x \in Bids : bids[x].quote # None /\ bids[x].offer \notin contested =>
              bids'[x].quote = bids[x].quote]_bids
    BY FlowStep DEF LinksHold
  <1>3. Spec => [][\A x \in Bids : bids[x].quote # None /\ bids[x].offer \notin contested =>
                      bids'[x].quote = bids[x].quote]_bids
    BY <1>1, <1>2, FlowInit, PTL DEF Spec
  <1> QED
    BY <1>3 DEF LinkIsStable

(* Nor do purchases, which mark quotes and bids filled, undo what the book  *)
(* keeps: links are to quotes that have been on record at a price the buyer *)
(* signed for, and an uncontested nonce makes one bid.                      *)
THEOREM FlowBookIsSound == Spec => [](LinkIsSound /\ OneBidUncontested)
  <1>1. FlowInv /\ [Next]_flowVars => FlowInv'
    BY FlowStep
  <1>2. FlowInv => LinkIsSound /\ OneBidUncontested
    BY DEF FlowInv, AloneInv, BookInv
  <1> QED
    BY <1>1, <1>2, FlowInit, PTL DEF Spec
=============================================================================

--------------------------- MODULE KeySaleProofs ---------------------------
(***************************************************************************)
(* The handlers of Purchases implement the sale of KeySale: under the      *)
(* mapping `Sale' every step is a step of the sale or changes none of it.  *)
(***************************************************************************)
EXTENDS PurchasesProofs

SaleVars == <<Deep \cup Dropped, listed, Sales, issued, handed, FilledQuotes>>

-----------------------------------------------------------------------------
(* The mapping.                                                             *)

(* A sale is a recorded payment, and a pair in Sales.                       *)
LEMMA SalesAreRecorded ==
  ASSUME IInv, NEW t \in Txs, NEW b \in Buyers
  PROVE  <<t, b>> \in Sales <=> Recorded(t, b)
  BY DEF Sales, Existing, Recorded, NoRow

(* With the table as it was but for a purchase's status, tenant and key,    *)
(* the sales are the same.                                                  *)
LEMMA SalesSame ==
  ASSUME \A t \in Txs : /\ rows'[t].buyer = rows[t].buyer
                        /\ rows'[t].status = "absent" <=> rows[t].status = "absent"
  PROVE  Sales' = Sales
  BY DEF Sales, Existing, NoRow

(* A step that leaves alone what the sale is made of.                       *)
LEMMA SaleSame ==
  ASSUME UNCHANGED <<chain, quotes, listed, rows, issued, handed>>
  PROVE  SaleVars' = SaleVars
  BY ChainSame DEF SaleVars, Sales, Existing, FilledQuotes

(* A key named in a reply was given to the wallet it was issued to.         *)
LEMMA GiveStep ==
  ASSUME NEW t, NEW b, NEW k, KeyOf(k, t, b), handed' = handed \cup {<<t, b, k>>},
         UNCHANGED <<chain, quotes, listed, rows, issued>>
  PROVE  Sale!Next
  <1>1. /\ Deep' = Deep /\ Dropped' = Dropped
        /\ Sales' = Sales /\ FilledQuotes' = FilledQuotes
    BY ChainSame DEF Sales, Existing, FilledQuotes
  <1>2. k \in DOMAIN issued /\ issued[k].tx = t /\ issued[k].buyer = b
    BY DEF KeyOf
  <1>3. Sale!Give(k)
    BY <1>1, <1>2 DEF Sale!Give
  <1> QED
    BY <1>2, <1>3 DEF Sale!Next

-----------------------------------------------------------------------------
(* The steps.                                                               *)

(* A block may show payments at the required depth, and a reorganisation    *)
(* leaves a trace of one; what was seen stays seen.                         *)
LEMMA ChainStep ==
  ASSUME IInv, Block \/ \E t \in Txs : Reorg(t)
  PROVE  Sale!Next
  <1>1. /\ UNCHANGED <<listed, issued, handed>>
        /\ Sales' = Sales /\ FilledQuotes' = FilledQuotes
    BY DEF Block, Reorg, Sales, Existing, FilledQuotes
  <1>2. Deep \cup Dropped \subseteq (Deep \cup Dropped)'
    <2>1. ASSUME NEW t \in Txs, t \in Deep \cup Dropped
          PROVE  t \in (Deep \cup Dropped)'
      BY <2>1, ChainGrows DEF IInv
    <2>2. Deep \cup Dropped \subseteq Txs
      BY DEF Deep, Dropped
    <2> QED
      BY <2>1, <2>2
  <1>3. (Deep \cup Dropped)' \in SUBSET Txs
    BY DEF Deep, Dropped
  <1>4. Sale!See((Deep \cup Dropped)')
    BY <1>1, <1>2 DEF Sale!See
  <1> QED
    BY <1>3, <1>4 DEF Sale!Next

(* A quote persisted, by whatever handler: its row and the list of prices.  *)
QuoteListed(q, p) ==
    /\ quotes' = [quotes EXCEPT ![q] = [status |-> IF @.status = "absent" THEN "open"
                                                   ELSE @.status,
                                        price |-> p]]
    /\ listed' = [listed EXCEPT ![q] = @ \cup {p}]
    /\ UNCHANGED <<chain, lapsed, rows, tenants, issued, handed, faults, job>>

(* Persisting fills no quote.                                               *)
LEMMA ListedNotFilled ==
  ASSUME IInv, NEW q \in Quotes, NEW p \in Prices, QuoteListed(q, p)
  PROVE  FilledQuotes' = FilledQuotes
  <1>1. quotes \in [Quotes -> Quote]
    BY DEF IInv, SaleTypeOK
  <1>2. \A r \in Quotes : quotes'[r].status = "filled" <=> quotes[r].status = "filled"
    BY <1>1 DEF QuoteListed
  <1> QED
    BY <1>2 DEF FilledQuotes

(* A quote persisted is an offer.                                           *)
LEMMA OfferStep ==
  ASSUME IInv, NEW q \in Quotes, NEW p \in Prices, QuoteListed(q, p)
  PROVE  Sale!Next
  <1>1. Deep' = Deep /\ Dropped' = Dropped /\ Sales' = Sales /\ FilledQuotes' = FilledQuotes
    BY ChainSame, ListedNotFilled DEF QuoteListed, Sales, Existing
  <1>2. Sale!Offer(q, p)
    BY <1>1 DEF Sale!Offer, QuoteListed
  <1> QED
    BY <1>2 DEF Sale!Next

(* A claim that inserts its row is the sale; any other sells nothing, and   *)
(* the loser of a race may be given the winner's key.                       *)
LEMMA ClaimStep ==
  ASSUME IInv, NEW w \in Workers, Claim(w)
  PROVE  Sale!Next \/ SaleVars' = SaleVars
  <1> DEFINE t == job[w].tx
             b == job[w].buyer
  <1>0. /\ t \in Txs /\ b \in Buyers /\ SaleTypeOK /\ RowOK(t)
        /\ UNCHANGED <<chain, quotes, listed, issued>>
    BY Running DEF Claim, IInv
  <1>1. CASE ClaimRow(w) /\ job[w].seen.status = "absent"
    <2>1. /\ rows[t].status = "absent" /\ handed' = handed
          /\ rows' = [rows EXCEPT ![t] = [NoRow EXCEPT !.status = "confirmed", !.buyer = b,
                                                       !.quote = job[w].quote]]
      BY <1>1 DEF ClaimRow
    <2>2. /\ \A u \in Txs : u # t => rows'[u] = rows[u]
          /\ rows'[t].status = "confirmed" /\ rows'[t].buyer = b
      BY <1>0, <2>1 DEF SaleTypeOK, NoRow
    <2>3. rows[t].buyer \notin Buyers
      BY <1>0, <2>1, ConstantsAssumption DEF RowOK
    <2>4. Sales' = Sales \cup {<<t, b>>}
      <3>1. ASSUME NEW u \in Txs, NEW c \in Buyers
            PROVE  <<u, c>> \in Sales' <=> <<u, c>> \in Sales \/ (u = t /\ c = b)
        BY <2>1, <2>2, <2>3, <3>1 DEF Sales, Existing, NoRow
      <3>2. Sales \subseteq Txs \X Buyers /\ Sales' \subseteq Txs \X Buyers
        BY DEF Sales
      <3> QED
        BY <1>0, <3>1, <3>2
    <2>5. \A c \in Buyers : <<t, c>> \notin Sales
      BY <1>0, <2>3 DEF Sales, Existing, NoRow
    <2>6. t \in Deep \cup Dropped
      BY DEF Claim, IInv, JobOK, VerifiedOK, Verifies
    <2>7. Deep' = Deep /\ Dropped' = Dropped /\ FilledQuotes' = FilledQuotes
      BY <1>0, ChainSame DEF FilledQuotes
    <2>8. Sale!Sell(t, b)
      BY <1>0, <2>1, <2>4, <2>5, <2>6, <2>7 DEF Sale!Sell
    <2> QED
      BY <1>0, <2>8 DEF Sale!Next
  <1>2. CASE ClaimRow(w) /\ job[w].seen.status # "absent"
    <2>1. rows[t].buyer = b /\ rows[t] \in Row
      BY <1>0, <1>2 DEF IInv, JobOK, SeenOK, Recorded, Claim, SaleTypeOK
    <2>2. rows'[t] = [rows[t] EXCEPT !.buyer = b, !.quote = job[w].quote]
      BY <1>0, <1>2 DEF ClaimRow, SaleTypeOK
    <2>3. \A u \in Txs : u # t => rows'[u] = rows[u]
      BY <1>0, <1>2 DEF ClaimRow, SaleTypeOK
    <2>4. rows'[t].buyer = rows[t].buyer /\ rows'[t].status = rows[t].status
      BY <2>1, <2>2 DEF Row
    <2>5. Sales' = Sales
      BY <2>3, <2>4, SalesSame
    <2>6. handed' = handed
      BY <1>2 DEF ClaimRow
    <2> QED
      BY <1>0, <2>5, <2>6, ChainSame DEF SaleVars, FilledQuotes
  <1>3. CASE ClaimLost(w) /\ handed' = handed
    BY <1>0, <1>3, SaleSame DEF ClaimLost
  <1>4. CASE ClaimLost(w) /\ handed' # handed
    <2>1. /\ rows' = rows /\ rows[t].buyer = b /\ rows[t].subkey # 0
          /\ handed' = handed \cup {<<t, b, rows[t].subkey>>}
      BY <1>4 DEF ClaimLost, KeyRecorded
    <2>2. KeyOf(rows[t].subkey, t, b)
      BY <1>0, <2>1 DEF RowOK
    <2> QED
      BY <1>0, <2>1, <2>2, GiveStep
  <1> QED
    BY <1>1, <1>2, <1>3, <1>4 DEF Claim

(* A mint, heard of or not, issues a key on the request's own sale.         *)
LEMMA MintStep ==
  ASSUME IInv, NEW w \in Workers, Mint(w) \/ MintLost(w)
  PROVE  Sale!Next
  <1> DEFINE t == job[w].tx
             b == job[w].buyer
             q == job[w].quote
             p == job[w].price
  <1>0. Issue(w) /\ UNCHANGED <<chain, quotes, listed, rows, handed>>
    BY DEF Mint, MintLost
  <1>1. t \in Txs /\ b \in Buyers /\ q \in Quotes /\ JobOK(job[w]) /\ job[w].pc = "mint"
    BY <1>0, Running DEF Issue, IInv
  <1>2. Recorded(t, b) /\ Covers(t, b, q, p) /\ p \in listed[q]
    BY <1>1 DEF JobOK, ClaimedOK, VerifiedOK, Verifies
  <1>3. <<t, b>> \in Sales /\ p \in Prices
    BY <1>1, <1>2, SalesAreRecorded DEF IInv, SaleTypeOK
  <1>4. Deep' = Deep /\ Dropped' = Dropped /\ Sales' = Sales /\ FilledQuotes' = FilledQuotes
    BY <1>0, ChainSame DEF Sales, Existing, FilledQuotes
  <1>5. issued' = Append(issued, [tx |-> t, buyer |-> b, quote |-> q, price |-> p])
    BY <1>0 DEF Issue
  <1>6. Sale!Issue(t, b, q, p)
    BY <1>0, <1>2, <1>3, <1>4, <1>5 DEF Sale!Issue
  <1> QED
    BY <1>1, <1>3, <1>6 DEF Sale!Next

(* The last commit fills the quote its key was issued for, or no quote.     *)
LEMMA CommitStep ==
  ASSUME IInv, NEW w \in Workers, Fulfil(w) \/ RecordFailure(w)
  PROVE  Sale!Next \/ SaleVars' = SaleVars
  <1> DEFINE t == job[w].tx
             k == job[w].key
  <1>0. /\ t \in Txs /\ rows[t] \in Row /\ SaleTypeOK
        /\ UNCHANGED <<chain, listed, issued, handed>>
    BY Running DEF Fulfil, RecordFailure, IInv
  <1>1. rows[t].status # "absent"
    BY DEF Fulfil, RecordFailure, IInv, JobOK, ClaimedOK, Recorded
  <1>2. \A u \in Txs : u # t => rows'[u] = rows[u]
    BY <1>0 DEF Fulfil, RecordFailure, SaleTypeOK
  <1>3. CASE Fulfil(w)
    <2>1. rows'[t] = [rows[t] EXCEPT !.status = "fulfilled", !.tenant = job[w].tenant,
                                     !.subkey = k]
      BY <1>0, <1>3 DEF Fulfil, SaleTypeOK
    <2>2. rows'[t].buyer = rows[t].buyer /\ rows'[t].status = "fulfilled"
      BY <1>0, <2>1 DEF Row
    <2>3. Sales' = Sales
      BY <1>1, <1>2, <2>2, SalesSame
    <2>4. k \in DOMAIN issued /\ issued[k].quote = job[w].quote
      BY <1>3 DEF Fulfil, IInv, JobOK, MintedOK, KeyOf
    <2>5. job[w].quote \in Quotes
      BY <1>3, Running DEF Fulfil
    <2>6. \A q \in Quotes : quotes'[q].status = "filled" <=>
                              quotes[q].status = "filled" \/ q = job[w].quote
      <3>1. quotes' = [quotes EXCEPT ![job[w].quote].status = "filled"]
        BY <1>3 DEF Fulfil
      <3> QED
        BY <1>0, <2>5, <3>1 DEF SaleTypeOK, Quote
    <2>7. FilledQuotes' = FilledQuotes \cup {issued[k].quote}
      BY <2>4, <2>5, <2>6 DEF FilledQuotes
    <2>8. Sale!Fill(k)
      BY <1>0, <2>3, <2>7, ChainSame DEF Sale!Fill
    <2> QED
      BY <2>4, <2>8 DEF Sale!Next
  <1>4. CASE RecordFailure(w)
    <2>1. rows'[t] = rows[t] \/ rows'[t] = [rows[t] EXCEPT !.status = "confirmed"]
      BY <1>0, <1>4 DEF RecordFailure, SaleTypeOK
    <2>2. rows'[t].buyer = rows[t].buyer /\ rows'[t].status # "absent"
      BY <1>0, <1>1, <2>1 DEF Row
    <2>3. Sales' = Sales
      BY <1>1, <1>2, <2>2, SalesSame
    <2>4. quotes' = quotes
      BY <1>4 DEF RecordFailure
    <2> QED
      BY <1>0, <2>3, <2>4, ChainSame DEF SaleVars, FilledQuotes
  <1> QED
    BY <1>3, <1>4

(* A reply from a purchase already fulfilled, or of the last commit.        *)
LEMMA ReplyStep ==
  ASSUME IInv, NEW w \in Workers, ReadQuote(w) \/ Reply(w)
  PROVE  Sale!Next \/ SaleVars' = SaleVars
  <1>0. UNCHANGED <<chain, quotes, listed, rows, issued>>
    BY DEF ReadQuote, Reply
  <1>1. CASE handed' = handed
    BY <1>0, <1>1, SaleSame
  <1>2. CASE ReadQuote(w) /\ handed' # handed
    <2>1. /\ KeyRecorded(job[w].seen)
          /\ handed' = handed \cup {<<job[w].tx, job[w].buyer, job[w].seen.subkey>>}
      BY <1>2 DEF ReadQuote
    <2>2. KeyOf(job[w].seen.subkey, job[w].tx, job[w].buyer)
      BY <1>2, <2>1 DEF ReadQuote, KeyRecorded, IInv, JobOK, SeenOK
    <2> QED
      BY <1>0, <2>1, <2>2, GiveStep
  <1>3. CASE Reply(w) /\ handed' # handed
    <2> DEFINE t == job[w].tx
    <2>1. /\ rows[t].subkey # 0
          /\ handed' = handed \cup {<<t, job[w].buyer, rows[t].subkey>>}
      BY <1>3 DEF Reply
    <2>2. t \in Txs /\ RowOK(t) /\ rows[t].buyer = job[w].buyer
      BY <1>3, Running DEF Reply, IInv, JobOK, ClaimedOK, Recorded
    <2>3. KeyOf(rows[t].subkey, t, job[w].buyer)
      BY <2>1, <2>2 DEF RowOK
    <2> QED
      BY <1>0, <2>1, <2>3, GiveStep
  <1> QED
    BY <1>1, <1>2, <1>3

-----------------------------------------------------------------------------
(* The theorems.                                                            *)

(* A deployment with no purchase is a storefront with no sale.              *)
LEMMA SaleBeginning == Beginning => Sale!Init
  <1> SUFFICES ASSUME Beginning PROVE Sale!Init
    OBVIOUS
  <1>1. Deep = {} /\ Dropped = {}
    BY DEF Beginning, NoChain, Deep, Dropped
  <1>2. Sales = {}
    BY DEF Beginning, Sales, Existing, NoRow
  <1>3. FilledQuotes = {}
    BY DEF Beginning, FilledQuotes
  <1> QED
    BY <1>1, <1>2, <1>3 DEF Beginning, Sale!Init

(* So it is with the bids that Purchases begins with.                       *)
THEOREM SaleInit == Init => Sale!Init
  BY InitBeginning, SaleBeginning

(* Every step of the chain, the clock and the requests is a step of the     *)
(* sale or none, whatever the invariant lets the requests have seen.        *)
THEOREM SaleStep == IInv /\ [Step]_state => [Sale!Next]_(Sale!saleVars)
  <1> SUFFICES ASSUME IInv, [Step]_state
               PROVE  Sale!Next \/ SaleVars' = SaleVars
    BY DEF Sale!saleVars, SaleVars
  <1>1. CASE UNCHANGED state
    BY <1>1, SaleSame DEF state
  <1>2. CASE Block \/ \E t \in Txs : Reorg(t)
    BY <1>2, ChainStep
  <1>3. ASSUME NEW q \in Quotes, Lapse(q)
        PROVE  Sale!Next \/ SaleVars' = SaleVars
    BY <1>3, SaleSame DEF Lapse
  <1>4. ASSUME NEW q \in Quotes, NEW p \in Prices, PersistQuote(q, p)
        PROVE  Sale!Next \/ SaleVars' = SaleVars
    BY <1>4, OfferStep DEF PersistQuote, QuoteListed
  <1>5. ASSUME NEW w \in Workers, Request(w) \/ Progress(w) \/ Crash(w)
        PROVE  Sale!Next \/ SaleVars' = SaleVars
    <2>1. CASE \/ Request(w) \/ Crash(w) \/ ReadPurchase(w) \/ ReadReceipt(w) \/ ReadHead(w)
               \/ CheckTenant(w) \/ MintFails(w) \/ SaveTenant(w) \/ SaveTenantFails(w)
      BY <2>1, SaleSame DEF Request, Verify, Recover, Crash, ReadPurchase, ReadReceipt, ReadHead,
                            CheckTenant, MintFails, SaveTenant, SaveTenantFails
    <2>2. CASE Claim(w)
      BY <2>2, ClaimStep
    <2>3. CASE Mint(w) \/ MintLost(w)
      BY <2>3, MintStep
    <2>4. CASE Fulfil(w) \/ RecordFailure(w)
      BY <2>4, CommitStep
    <2>5. CASE ReadQuote(w) \/ Reply(w)
      BY <2>5, ReplyStep
    <2> QED
      BY <1>5, <2>1, <2>2, <2>3, <2>4, <2>5 DEF Progress
  <1> QED
    BY <1>1, <1>2, <1>3, <1>4, <1>5 DEF Step, Environment

(* The purchase handlers implement the sale, for any number of request      *)
(* threads, wallets, transactions, quotes, keys and crashes.                *)
THEOREM Implements == Spec => SaleSpec
  BY Invariant, SaleInit, SaleStep, StepOfNext, PTL DEF Spec, SaleSpec, Sale!Spec

-----------------------------------------------------------------------------
(* Other components write quotes: the invariant is kept, and what is sold   *)
(* stays as it was.                                                         *)
LEMMA ListingKeeps ==
  ASSUME IInv, NEW q \in Quotes, NEW p \in Prices, QuoteListed(q, p)
  PROVE  IInv'
  <1>0. SaleTypeOK /\ UNCHANGED <<chain, lapsed, rows, tenants, issued, handed, faults, job>>
    BY DEF IInv, QuoteListed
  <1>1. SaleTypeOK'
    <2>1. [status |-> IF quotes[q].status = "absent" THEN "open" ELSE quotes[q].status,
           price |-> p] \in Quote
      BY <1>0 DEF SaleTypeOK, Quote
    <2>2. quotes' \in [Quotes -> Quote] /\ listed' \in [Quotes -> SUBSET Prices]
      BY <1>0, <2>1 DEF SaleTypeOK, QuoteListed
    <2> QED
      BY <1>0, <2>2 DEF SaleTypeOK
  <1>2. Grows
    BY <1>0, ChainSame DEF Grows, QuoteListed, SaleTypeOK
  <1>3. \A w \in Workers : JobOK(job[w])'
    BY <1>0, <1>2, JobKept
  <1>4. \A t \in Txs : RowOK(t)'
    BY <1>0 DEF IInv, RowOK, KeyOf
  <1>5. \A i \in DOMAIN issued : KeyOK(issued[i])'
    BY <1>2, KeyKept
  <1>6. FilledQuoteHasKey'
    BY <1>0, ListedNotFilled DEF IInv, FilledQuotes, FilledQuoteHasKey
  <1>7. ASSUME NEW r \in Quotes
        PROVE  QuoteOK(r)'
    <2>1. CASE r = q
      <3>1. quotes'[r].price = p /\ p \in listed'[r]
        BY <1>0, <2>1 DEF QuoteListed, SaleTypeOK
      <3> QED
        BY <3>1 DEF QuoteOK
    <2>2. CASE r # q
      BY <1>0, <2>2 DEF QuoteListed, SaleTypeOK, IInv, QuoteOK
    <2> QED
      BY <2>1, <2>2
  <1>8. HandedToPayer' /\ DefaultTenantIsOwn'
    BY <1>0, <1>2, HoldersKept
  <1> QED
    BY <1>0, <1>1, <1>3, <1>4, <1>5, <1>6, <1>7, <1>8 DEF IInv

(* So does a step that touches neither payments nor quotes.                 *)
LEMMA ElsewhereKeeps ==
  ASSUME IInv,
         UNCHANGED <<chain, quotes, listed, lapsed, rows, tenants, issued, handed, faults, job>>
  PROVE  IInv' /\ SaleVars' = SaleVars
  <1>1. Grows
    BY ChainSame DEF Grows
  <1>2. SaleTypeOK' /\ \A q \in Quotes : QuoteOK(q)'
    BY DEF IInv, SaleTypeOK, QuoteOK
  <1>3. \A t \in Txs : RowOK(t)'
    BY DEF IInv, RowOK, KeyOf
  <1>4. \A w \in Workers : JobOK(job[w])'
    BY <1>1, JobKept
  <1>5. \A i \in DOMAIN issued : KeyOK(issued[i])'
    BY <1>1, KeyKept
  <1> QED
    BY <1>1, <1>2, <1>3, <1>4, <1>5, HoldersKept, SaleSame DEF IInv
============================================================================

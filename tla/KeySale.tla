------------------------------ MODULE KeySale ------------------------------
(***************************************************************************)
(* What the storefront promises of a sale, with no requests, rows, races   *)
(* or crashes in it: a payment seen on the chain is sold to one wallet,    *)
(* once; keys are issued on a sale only, to its wallet, for a quote the    *)
(* payment covers at a price the quote was offered at; a key is given only *)
(* to the wallet it was issued to; a quote is filled only by a key.        *)
(***************************************************************************)
EXTENDS Integers, Sequences

CONSTANTS
    Txs,               \* payments
    Buyers,            \* wallets
    Quotes,            \* quotes
    Prices,            \* unit prices
    Covers(_, _, _, _) \* Covers(t, b, q, p): t transfers what q costs at p from b

VARIABLES
    seen,    \* payments seen on the chain: as deep as required, or dropped since
    offers,  \* offers[q]: the prices q has been offered at
    sales,   \* <<payment, wallet>> sold
    keys,    \* keys issued, a key id being its place
    given,   \* keys given: <<payment, wallet, key>>
    filled   \* quotes off the market

saleVars == <<seen, offers, sales, keys, given, filled>>

Init ==
    /\ seen = {} /\ offers \in [Quotes -> SUBSET Prices]
    /\ sales = {} /\ keys = <<>> /\ given = {} /\ filled = {}

See(payments) ==
    /\ seen' = seen \cup payments
    /\ UNCHANGED <<offers, sales, keys, given, filled>>

Offer(q, p) ==
    /\ offers' = [offers EXCEPT ![q] = @ \cup {p}]
    /\ UNCHANGED <<seen, sales, keys, given, filled>>

Sell(t, b) ==
    /\ t \in seen
    /\ \A c \in Buyers : <<t, c>> \notin sales
    /\ sales' = sales \cup {<<t, b>>}
    /\ UNCHANGED <<seen, offers, keys, given, filled>>

Issue(t, b, q, p) ==
    /\ <<t, b>> \in sales
    /\ p \in offers[q]
    /\ Covers(t, b, q, p)
    /\ keys' = Append(keys, [tx |-> t, buyer |-> b, quote |-> q, price |-> p])
    /\ UNCHANGED <<seen, offers, sales, given, filled>>

Give(i) ==
    /\ given' = given \cup {<<keys[i].tx, keys[i].buyer, i>>}
    /\ UNCHANGED <<seen, offers, sales, keys, filled>>

Fill(i) ==
    /\ filled' = filled \cup {keys[i].quote}
    /\ UNCHANGED <<seen, offers, sales, keys, given>>

Next ==
    \/ \E payments \in SUBSET Txs : See(payments)
    \/ \E q \in Quotes, p \in Prices : Offer(q, p)
    \/ \E t \in Txs, b \in Buyers : Sell(t, b)
    \/ \E t \in Txs, b \in Buyers, q \in Quotes, p \in Prices : Issue(t, b, q, p)
    \/ \E i \in DOMAIN keys : Give(i) \/ Fill(i)

Spec == Init /\ [][Next]_saleVars
============================================================================

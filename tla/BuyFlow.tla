------------------------------ MODULE BuyFlow ------------------------------
(***************************************************************************)
(* The storefront as a buyer meets it: quotes and limit bids (BidBook)     *)
(* beside payment and key issue (Purchases), over one quote table and one  *)
(* bid table.  Every step is a step of one of the two components.          *)
(***************************************************************************)
EXTENDS BidBook, Sequences

CONSTANTS Workers, Txs, Assets, Allowlist, Asset, Cost, Paid, Reverted, MinConf,
          ToleranceBps, MaxHeight, MaxKeys, MaxFaults

VARIABLES chain, lapsed, rows, tenants, issued, handed, faults, job, raced

P == INSTANCE Purchases

ASSUME FlowAssumption == P!ConstantsAssumption

bookVars == <<overdue, policy, cached, offered, clerk, contested>>

purchaseVars == <<chain, lapsed, rows, tenants, issued, handed, faults, job, raced>>

flowVars == <<bids, quotes, listed, bookVars, purchaseVars>>

Init ==
    /\ BookInit
    /\ chain = P!NoChain
    /\ lapsed = {}
    /\ rows = [t \in Txs |-> P!NoRow]
    /\ tenants = [t \in P!TenantIds |-> P!NoTenant]
    /\ issued = <<>>
    /\ handed = {}
    /\ faults = 0
    /\ job = [w \in Workers |-> P!IdleJob]
    /\ raced = {}

(* Of the environment of a purchase, the quote rows are written by BidBook: *)
(* a spot quote only after GET /v1/quotes has handed it out.                *)
Purchase ==
    \/ P!Block
    \/ \E t \in Txs : P!Reorg(t)
    \/ \E q \in Quotes : P!Lapse(q)
    \/ \E w \in Workers : P!Request(w) \/ P!Progress(w) \/ P!Crash(w)

Next ==
    \/ BookNext /\ UNCHANGED purchaseVars
    \/ Purchase /\ P!History /\ UNCHANGED bookVars

Spec == Init /\ [][Next]_flowVars

---------------------------------------------------------------------------
(* Properties.                                                              *)

(* Where requests about its nonce did not overlap, a bid is marked filled   *)
(* only when a key was issued to its own wallet for the very quote it is    *)
(* linked to, whichever payments race and settles and polls intervene.      *)
FilledBidHasItsKey ==
    \A x \in Bids : bids[x].status = "filled" /\ bids[x].offer \notin contested =>
        \E i \in DOMAIN issued : /\ issued[i].buyer = bids[x].buyer
                                 /\ issued[i].quote = bids[x].quote

(* "Mint the key and mark the bid filled" (docs/API_REFERENCE.md): a filled *)
(* bid is filled for good.                                                  *)
FilledIsFinal ==
    [][\A x \in Bids : bids[x].status = "filled" => bids'[x].status = "filled"]_bids
============================================================================

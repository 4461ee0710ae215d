------------------------------ MODULE BidBook ------------------------------
(***************************************************************************)
(* Limit bids and the public intake: POST /v1/bids, the bid stream and     *)
(* POST /v1/settlement/{id}/settle (apps/broker_api/routers/bids.py and    *)
(* settlement.py), GET /v1/quotes, and the inventory policy that pauses    *)
(* them (services/broker/inventory.py).                                    *)
(*                                                                         *)
(* `Clerks' requests interleave at every read and commit.  The bid table   *)
(* has no unique column, so a lookup may return any of the rows it matches.*)
(* A signed PurchaseIntent is a member of Offers: its bid id is a hash of  *)
(* the fields compared on a retry, so an offer stands for its bid id.  The *)
(* clearing price moves freely, so a live bid may classify either way.     *)
(* A quote id names the second, the asset and the units it was priced at   *)
(* (libs/pricing/engine.py), but prices are read before the second is, from *)
(* a cache of the process: two requests may give one id two prices, and    *)
(* persist_quote keeps the last.                                           *)
(***************************************************************************)
EXTENDS Integers, FiniteSets

CONSTANTS
    Clerks,      \* request threads
    Buyers,      \* wallets
    Offers,      \* signed purchase intents
    Quotes,      \* quote ids
    Bids,        \* rows of the bid table (a bound)
    Policies,    \* what the capacity broker finds: "open" (normal, calm), "hot"
    Signer,      \* Signer[o]: the wallet recovered from the signature of o
    Nonce,       \* Nonce[o]
    Limit,       \* Limit[o]: maxPrice
    Prices,      \* unit prices
    None         \* SQL NULL, an absent option

ASSUME OffersAssumption ==
    /\ Signer \in [Offers -> Buyers]
    /\ Nonce \in [Offers -> Nat]
    /\ Limit \in [Offers -> Nat]
    /\ Prices \subseteq Nat \ {0}
    /\ Policies \subseteq {"open", "hot"}
    /\ None \notin Buyers \cup Offers \cup Quotes \cup Bids

VARIABLES
    bids,      \* the bid table: offer, buyer_address, quote_id, status
    quotes,    \* quote rows: status ("absent" before it is persisted) and unit_price
    listed,    \* history: the prices each quote has ever been on record at
    overdue,   \* offers whose expiry has passed
    policy,    \* the inventory policy file
    cached,    \* the API process's copy of it
    offered,   \* quotes returned by GET /v1/quotes
    clerk,     \* what each clerk is doing
    contested  \* history: offers whose nonce two clerks ever worked on at once

books == <<bids, quotes, listed, overdue, policy, cached, offered, clerk>>

vars == <<books, contested>>

LiveStatus == {"received", "out_of_band", "in_band", "accepted_window"}

Bid == [offer: Offers \cup {None}, buyer: Buyers \cup {None},
        quote: Quotes \cup {None},
        status: LiveStatus \cup {"absent", "expired", "filled"}]

NoBid == [offer |-> None, buyer |-> None, quote |-> None, status |-> "absent"]

QuoteRow == [status: {"absent", "open", "filled"}, price: Prices \cup {0}]

NoQuoteRow == [status |-> "absent", price |-> 0]

(* A request in progress: the offer or row it is about, the status and link *)
(* of the row as the session loaded it, the quote it has priced, and        *)
(* whether the offer was overdue when the handler read the clock.           *)
Task == [pc: {"idle", "create", "insert", "stream", "settle", "link"},
         offer: Offers \cup {None}, row: Bids \cup {None},
         seen: Bid, quote: Quotes \cup {None}, late: BOOLEAN]

NoTask == [pc |-> "idle", offer |-> None, row |-> None, seen |-> NoBid,
           quote |-> None, late |-> FALSE]

BooksTypeOK ==
    /\ bids \in [Bids -> Bid]
    /\ quotes \in [Quotes -> QuoteRow]
    /\ listed \in [Quotes -> SUBSET Prices]
    /\ overdue \subseteq Offers
    /\ policy \in {"none", "torn", "open", "hot"}
    /\ cached \in {"none", "open", "hot"}
    /\ offered \subseteq Quotes
    /\ clerk \in [Clerks -> Task]

BookTypeOK == BooksTypeOK /\ contested \subseteq Offers

BookInit ==
    /\ bids = [x \in Bids |-> NoBid]
    /\ quotes = [q \in Quotes |-> NoQuoteRow]
    /\ listed = [q \in Quotes |-> {}]
    /\ overdue = {}
    /\ policy = "none"
    /\ cached = "none"
    /\ offered = {}
    /\ clerk = [c \in Clerks |-> NoTask]
    /\ contested = {}

---------------------------------------------------------------------------
(* The inventory policy.  The capacity broker runs in the loop's process    *)
(* and rewrites the file.                                                   *)
StartSave ==
    /\ Policies # {}
    /\ policy' = "torn"
    /\ UNCHANGED <<bids, quotes, listed, overdue, cached, offered, clerk>>

SavePolicy(status) ==
    /\ policy = "torn"
    /\ policy' = status
    /\ UNCHANGED <<bids, quotes, listed, overdue, cached, offered, clerk>>

(* load_inventory_policy: the first snapshot read serves ever after; a      *)
(* missing or torn file is no policy, which assert_intake_open lets pass.   *)
Loaded == IF cached # "none" THEN cached
          ELSE IF policy = "torn" THEN "none" ELSE policy

LoadPolicy == cached' = Loaded

IntakeOpen == Loaded # "hot"

(* persist_quote: a row already on record is given the new price, and keeps *)
(* its status (and its expiry, which the second fixes).                     *)
Record(q, p) ==
    /\ quotes' = [quotes EXCEPT ![q] = [status |-> IF @.status = "absent" THEN "open"
                                                   ELSE @.status,
                                        price |-> p]]
    /\ listed' = [listed EXCEPT ![q] = @ \cup {p}]

(* GET /v1/quotes hands out a quote; its row is written in the handler, or  *)
(* in a background task after the reply, whose failure is only logged.      *)
OfferQuote(q) ==
    /\ LoadPolicy
    /\ offered' = IF IntakeOpen THEN offered \cup {q} ELSE offered
    /\ UNCHANGED <<bids, quotes, listed, overdue, policy, clerk>>

PersistSpot(q, p) ==
    /\ q \in offered
    /\ Record(q, p)
    /\ UNCHANGED <<bids, overdue, policy, cached, offered, clerk>>

Overdue(o) ==
    /\ overdue' = overdue \cup {o}
    /\ UNCHANGED <<bids, quotes, listed, policy, cached, offered, clerk>>

---------------------------------------------------------------------------
(* Requests.                                                                *)

Done(c) == clerk' = [clerk EXCEPT ![c] = NoTask]

(* bids_create: the intake check and the signature, then the lookup by      *)
(* (buyer, nonce), which answers a replay, then the insert.                 *)
Submit(c, o) ==
    /\ clerk[c].pc = "idle"
    /\ LoadPolicy
    /\ clerk' = IF IntakeOpen
                THEN [clerk EXCEPT ![c] = [NoTask EXCEPT !.pc = "create", !.offer = o,
                                                         !.late = o \in overdue]]
                ELSE clerk
    /\ UNCHANGED <<bids, quotes, listed, overdue, policy, offered>>

SameOffer(o) == {x \in Bids : bids[x].offer = o}    \* mutant: only the same payload

SameNonce(o) ==
    {x \in Bids : /\ bids[x].status # "absent"
                  /\ bids[x].buyer = Signer[o]
                  /\ Nonce[bids[x].offer] = Nonce[o]}

LookUp(c) ==
    /\ clerk[c].pc = "create"
    /\ clerk' = IF SameNonce(clerk[c].offer) # {}
                THEN [clerk EXCEPT ![c] = NoTask]
                ELSE [clerk EXCEPT ![c].pc = "insert"]
    /\ UNCHANGED <<bids, quotes, listed, overdue, policy, cached, offered>>

(* classify_bid_status, with no clearing price in sight or one that moves.  *)
Verdicts(late) == IF late THEN {"expired"} ELSE LiveStatus

Insert(c) ==
    /\ clerk[c].pc = "insert"
    /\ \E x \in Bids, status \in Verdicts(clerk[c].late) :
         /\ bids[x].status = "absent"
         /\ bids' = [bids EXCEPT ![x] = [offer |-> clerk[c].offer,
                                         buyer |-> Signer[clerk[c].offer],
                                         quote |-> None, status |-> status]]
    /\ Done(c)
    /\ UNCHANGED <<quotes, listed, overdue, policy, cached, offered>>

Rows(o) == {x \in Bids : bids[x].offer = o}

(* bids_stream and bids_settle load a row of the bid id and the clock.      *)
Load(c, o, step) ==
    /\ clerk[c].pc = "idle"
    /\ \E x \in Rows(o) :
         clerk' = [clerk EXCEPT ![c] = [NoTask EXCEPT !.pc = step, !.offer = o, !.row = x,
                                                      !.seen = bids[x], !.late = o \in overdue]]
    /\ UNCHANGED <<bids, quotes, listed, overdue, policy, cached, offered>>

StreamRead(c, o) == Load(c, o, "stream")

SettleRead(c, o) == Load(c, o, "settle")

(* A status is written back only where it differs from the one loaded.      *)
SetStatus(c, status) ==
    IF status = clerk[c].seen.status THEN bids
    ELSE [bids EXCEPT ![clerk[c].row].status = status]

(* One poll of the stream reclassifies whatever the status was.             *)
StreamWrite(c) ==
    /\ clerk[c].pc = "stream"
    /\ \E status \in Verdicts(clerk[c].late) : bids' = SetStatus(c, status)
    /\ Done(c)
    /\ UNCHANGED <<quotes, listed, overdue, policy, cached, offered>>

(* Settlement refuses an expired or out-of-band bid, and says so in its row.*)
SettleRefuse(c) ==
    /\ clerk[c].pc = "settle"
    /\ \E status \in Verdicts(clerk[c].late) \cap {"expired", "out_of_band"} :
         bids' = SetStatus(c, status)
    /\ Done(c)
    /\ UNCHANGED <<quotes, listed, overdue, policy, cached, offered>>

(* A bid whose quote is on record gets that quote again.                    *)
LinkedQuote(c) == clerk[c].seen.quote

SettledWhileOpen(c) ==                   \* mutant: a filled quote is settled anew
    LinkedQuote(c) # None /\ quotes[LinkedQuote(c)].status = "open"

AlreadySettled(c) == LinkedQuote(c) # None /\ quotes[LinkedQuote(c)].status # "absent"

SettleAgain(c) ==
    /\ clerk[c].pc = "settle" /\ ~clerk[c].late
    /\ AlreadySettled(c)
    /\ Done(c)
    /\ UNCHANGED <<bids, quotes, listed, overdue, policy, cached, offered>>

(* Otherwise it is priced, and the quote persisted in a transaction of its  *)
(* own: an id another request was given may be on record already, and linked.*)
AnyPrice(c, p) == TRUE                   \* mutant: maxPrice is not compared

WithinLimit(c, p) == p <= Limit[clerk[c].offer]

SettlePrice(c) ==
    /\ clerk[c].pc = "settle" /\ ~clerk[c].late
    /\ ~AlreadySettled(c)
    /\ \E q \in Quotes, p \in Prices :
         /\ WithinLimit(c, p)
         /\ Record(q, p)
         /\ clerk' = [clerk EXCEPT ![c].pc = "link", ![c].quote = q]
    /\ UNCHANGED <<bids, overdue, policy, cached, offered>>

(* There is no price, it exceeds the bid's maximum, or the write failed.    *)
SettleUnpriced(c) ==
    /\ clerk[c].pc = "settle" /\ ~clerk[c].late
    /\ ~AlreadySettled(c)
    /\ Done(c)
    /\ UNCHANGED <<bids, quotes, listed, overdue, policy, cached, offered>>

SettleLinkAsOpen(c) ==                   \* mutant: the quote's word for the bid
    /\ clerk[c].pc = "link"
    /\ bids' = [SetStatus(c, "open") EXCEPT ![clerk[c].row].quote = clerk[c].quote]
    /\ Done(c)
    /\ UNCHANGED <<quotes, listed, overdue, policy, cached, offered>>

SettleLink(c) ==
    /\ clerk[c].pc = "link"
    /\ bids' = [SetStatus(c, "accepted_window") EXCEPT ![clerk[c].row].quote = clerk[c].quote]
    /\ Done(c)
    /\ UNCHANGED <<quotes, listed, overdue, policy, cached, offered>>

(* The request is cut off; or the API process restarts.                     *)
Abandon(c) ==
    /\ clerk[c].pc # "idle"
    /\ Done(c)
    /\ UNCHANGED <<bids, quotes, listed, overdue, policy, cached, offered>>

Restart ==
    /\ cached' = "none"
    /\ clerk' = [c \in Clerks |-> NoTask]
    /\ UNCHANGED <<bids, quotes, listed, overdue, policy, offered>>

---------------------------------------------------------------------------
Public ==
    \/ StartSave
    \/ \E status \in Policies : SavePolicy(status)
    \/ \E q \in Quotes : OfferQuote(q) \/ \E p \in Prices : PersistSpot(q, p)
    \/ \E o \in Offers : Overdue(o)
    \/ Restart

Serve(c) ==
    \/ \E o \in Offers : Submit(c, o) \/ StreamRead(c, o) \/ SettleRead(c, o)
    \/ LookUp(c) \/ Insert(c) \/ StreamWrite(c) \/ SettleRefuse(c) \/ SettleAgain(c)
    \/ SettlePrice(c) \/ SettleUnpriced(c) \/ SettleLink(c) \/ Abandon(c)

BookStep == Public \/ \E c \in Clerks : Serve(c)

(* No handler reads `contested': it tells the nonces that requests have     *)
(* worked on at the same time from those they have worked on one by one.    *)
Rivals(o) == {r \in Offers : Signer[r] = Signer[o] /\ Nonce[r] = Nonce[o]}

AtOnce(o) == \E c, d \in Clerks : c # d /\ {clerk[c].offer, clerk[d].offer} \subseteq Rivals(o)

BookHistory == contested' = contested \cup {o \in Offers : AtOnce(o)'}

BookNext == BookStep /\ BookHistory

BookSpec == BookInit /\ [][BookNext]_vars

---------------------------------------------------------------------------
(* Properties.                                                              *)

(* A settled bid is linked to a quote that is on record, and that has been  *)
(* on record at a unit price its buyer signed for, however ids collide and  *)
(* whichever clerks overlap.                                                *)
LinkIsSound ==
    \A x \in Bids : bids[x].quote # None =>
        /\ quotes[bids[x].quote].status # "absent"
        /\ \E p \in listed[bids[x].quote] : p <= Limit[bids[x].offer]

(* Where requests about a nonce did not overlap, the quote a bid was        *)
(* settled at is never replaced: the buyer may pay the one first returned.  *)
LinkIsStable ==
    [][\A x \in Bids : bids[x].quote # None /\ bids[x].offer \notin contested =>
          bids'[x].quote = bids[x].quote]_bids

SameBid(x, y) ==
    /\ bids[x].status # "absent" /\ bids[y].status # "absent"
    /\ bids[x].buyer = bids[y].buyer
    /\ Nonce[bids[x].offer] = Nonce[bids[y].offer]

(* "Idempotency on (buyer, nonce)" (bids.py): a signed nonce makes one bid. *)
OneBidPerNonce == \A x, y \in Bids : SameBid(x, y) => x = y

(* Where requests about a nonce did not overlap, replays, rewordings and    *)
(* restarts make one bid of it.                                             *)
OneBidUncontested ==
    \A x, y \in Bids : SameBid(x, y) /\ bids[x].offer \notin contested => x = y

(* "Failsafe hot pauses new quotes and bids" (docs): nothing is let in      *)
(* while the policy on record is hot.                                       *)
HotPausesIntake ==
    [][policy = "hot" =>
          /\ offered' = offered
          /\ \A c \in Clerks : clerk[c].pc = "idle" => clerk'[c].pc # "create"]_vars
============================================================================

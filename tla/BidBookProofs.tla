--------------------------- MODULE BidBookProofs ---------------------------
(***************************************************************************)
(* What holds of BidBook for any number of clerks, intents, quotes and     *)
(* rows.  That a link is sound is not inductive: the price is compared and *)
(* the quote persisted steps before the link is written, to a row loaded   *)
(* still earlier, so the invariant says what a clerk knows meanwhile.      *)
(***************************************************************************)
EXTENDS BidBook, TLAPS

(* A row is blank until it is inserted.                                     *)
RowsOK ==
    \A x \in Bids : bids[x].status = "absent" => bids[x].offer = None /\ bids[x].quote = None

(* A clerk is about one intent, and has loaded a row of it.                 *)
LoadedOK(c) ==
    /\ clerk[c].pc # "idle" => clerk[c].offer \in Offers
    /\ clerk[c].pc \in {"stream", "settle", "link"} =>
         /\ clerk[c].row \in Bids
         /\ bids[clerk[c].row].offer = clerk[c].offer

(* Past the pricing, the quote is on record and has been within the limit.  *)
PricedOK(c) ==
    clerk[c].pc = "link" =>
        /\ clerk[c].quote \in Quotes
        /\ quotes[clerk[c].quote].status # "absent"
        /\ \E p \in listed[clerk[c].quote] : WithinLimit(c, p)

BookInv ==
    /\ BooksTypeOK
    /\ RowsOK
    /\ \A c \in Clerks : LoadedOK(c) /\ PricedOK(c)
    /\ LinkIsSound

-----------------------------------------------------------------------------
(* Types.                                                                   *)

(* A clerk with no request, and a row with no bid or quote, are typed.      *)
LEMMA BlankTypes == NoTask \in Task /\ NoBid \in Bid /\ NoQuoteRow \in QuoteRow
  BY DEF NoTask, Task, NoBid, Bid, LiveStatus, NoQuoteRow, QuoteRow

(* A broker with no bid yet satisfies the invariant.                        *)
THEOREM BookInitInv == BookInit => BookInv
  <1> SUFFICES ASSUME BookInit PROVE BookInv
    OBVIOUS
  <1>1. BooksTypeOK
    BY BlankTypes DEF BookInit, BooksTypeOK
  <1>2. RowsOK /\ LinkIsSound
    BY DEF BookInit, RowsOK, LinkIsSound, NoBid
  <1>3. \A c \in Clerks : LoadedOK(c) /\ PricedOK(c)
    BY DEF BookInit, LoadedOK, PricedOK, NoTask
  <1> QED
    BY <1>1, <1>2, <1>3 DEF BookInv

(* The policy, the clock, and requests that end leave the bids alone.       *)
LEMMA QuietInv ==
  ASSUME BookInv, bids' = bids, quotes' = quotes, listed' = listed,
         overdue' \subseteq Offers, policy' \in {"none", "torn", "open", "hot"},
         cached' \in {"none", "open", "hot"}, offered' \subseteq Quotes,
         clerk' \in [Clerks -> Task],
         \A c \in Clerks : clerk'[c] = clerk[c] \/ clerk'[c] = NoTask
  PROVE  BookInv'
  <1>1. BooksTypeOK'
    BY DEF BookInv, BooksTypeOK
  <1>2. RowsOK' /\ LinkIsSound'
    BY DEF BookInv, RowsOK, LinkIsSound
  <1>3. ASSUME NEW c \in Clerks PROVE (LoadedOK(c) /\ PricedOK(c))'
    <2>1. CASE clerk'[c] = clerk[c]
      BY <2>1 DEF BookInv, LoadedOK, PricedOK, WithinLimit
    <2>2. CASE clerk'[c] = NoTask
      BY <2>2 DEF NoTask, LoadedOK, PricedOK
    <2> QED
      BY <1>3, <2>1, <2>2
  <1> QED
    BY <1>1, <1>2, <1>3 DEF BookInv

(* A poll of the policy file reads one of the two policies, or none.        *)
LEMMA LoadedType == BooksTypeOK => Loaded \in {"none", "open", "hot"}
  BY DEF BooksTypeOK, Loaded

(* A step from a clerk to its end keeps the clerks typed.                   *)
LEMMA DoneType ==
  ASSUME BookInv, NEW c \in Clerks, Done(c)
  PROVE  /\ clerk' \in [Clerks -> Task]
         /\ \A d \in Clerks : clerk'[d] = clerk[d] \/ clerk'[d] = NoTask
         /\ clerk'[c] = NoTask
  BY BlankTypes DEF BookInv, BooksTypeOK, Done

(* A quote recorded stays on record, and its earlier prices stay listed.    *)
LEMMA RecordKeeps ==
  ASSUME BooksTypeOK, NEW q \in Quotes, NEW p \in Prices, Record(q, p)
  PROVE  /\ quotes' \in [Quotes -> QuoteRow] /\ listed' \in [Quotes -> SUBSET Prices]
         /\ quotes'[q].status # "absent" /\ p \in listed'[q]
         /\ \A r \in Quotes : /\ quotes[r].status # "absent" => quotes'[r].status # "absent"
                              /\ listed[r] \subseteq listed'[r]
  <1>1. /\ quotes \in [Quotes -> QuoteRow] /\ listed \in [Quotes -> SUBSET Prices]
    BY DEF BooksTypeOK
  <1> DEFINE row == [status |-> IF quotes[q].status = "absent" THEN "open" ELSE quotes[q].status,
                     price |-> p]
  <1>2. row \in QuoteRow /\ row.status # "absent"
    <2>1. quotes[q] \in QuoteRow
      BY <1>1
    <2> QED
      BY <2>1 DEF QuoteRow
  <1>3. quotes' = [quotes EXCEPT ![q] = row] /\ listed' = [listed EXCEPT ![q] = @ \cup {p}]
    BY DEF Record
  <1> HIDE DEF row
  <1> QED
    BY <1>1, <1>2, <1>3

(* The capacity broker, the clock, a spot quote and a restart keep it.      *)
LEMMA PublicInv == ASSUME BookInv, Public PROVE BookInv'
  <1> USE DEF BookInv, BooksTypeOK
  <1>1. CASE StartSave
    BY <1>1, QuietInv DEF StartSave
  <1>2. ASSUME NEW status \in Policies, SavePolicy(status) PROVE BookInv'
    BY <1>2, QuietInv, OffersAssumption DEF SavePolicy
  <1>3. ASSUME NEW q \in Quotes, OfferQuote(q) PROVE BookInv'
    BY <1>3, QuietInv, LoadedType DEF OfferQuote, LoadPolicy
  <1>4. ASSUME NEW o \in Offers, Overdue(o) PROVE BookInv'
    BY <1>4, QuietInv DEF Overdue
  <1>5. CASE Restart
    BY <1>5, QuietInv, BlankTypes DEF Restart
  <1>6. ASSUME NEW q \in Quotes, NEW p \in Prices, PersistSpot(q, p) PROVE BookInv'
    <2>1. /\ UNCHANGED <<bids, overdue, policy, cached, offered, clerk>> /\ Record(q, p)
      BY <1>6 DEF PersistSpot
    <2>2. BooksTypeOK'
      BY <2>1, RecordKeeps
    <2>3. RowsOK'
      BY <2>1 DEF RowsOK
    <2>4. LinkIsSound'
      BY <2>1, RecordKeeps DEF LinkIsSound, Bid
    <2>5. \A c \in Clerks : (LoadedOK(c) /\ PricedOK(c))'
      BY <2>1, RecordKeeps DEF LoadedOK, PricedOK, WithinLimit
    <2> QED
      BY <2>2, <2>3, <2>4, <2>5
  <1> QED
    BY <1>1, <1>2, <1>3, <1>4, <1>5, <1>6 DEF Public

-----------------------------------------------------------------------------
(* The steps of a request.                                                  *)

(* A request that starts, or moves on, with no row yet.                     *)
LEMMA CreateInv ==
  ASSUME BookInv, NEW c \in Clerks, NEW o \in Offers, Submit(c, o) \/ LookUp(c)
  PROVE  BookInv'
  <1> USE DEF BookInv
  <1>1. CASE Submit(c, o)
    <2>1. cached' \in {"none", "open", "hot"}
      BY <1>1, LoadedType DEF Submit, LoadPolicy
    <2>2. CASE ~IntakeOpen
      BY <1>1, <2>1, <2>2, QuietInv DEF Submit, BooksTypeOK
    <2>3. CASE IntakeOpen
      <3> DEFINE late == o \in overdue
                 task == [NoTask EXCEPT !.pc = "create", !.offer = o, !.late = late]
      <3>0. late \in BOOLEAN
        OBVIOUS
      <3> HIDE DEF late
      <3>1. task \in Task /\ task.pc = "create" /\ task.offer = o
        BY <3>0, BlankTypes DEF Task, NoTask
      <3>2. clerk' = [clerk EXCEPT ![c] = task]
        BY <1>1, <2>3 DEF Submit, late
      <3> HIDE DEF task
      <3>3. BooksTypeOK'
        BY <1>1, <2>1, <3>1, <3>2 DEF Submit, BooksTypeOK
      <3>4. \A d \in Clerks : (LoadedOK(d) /\ PricedOK(d))'
        BY <1>1, <3>1, <3>2 DEF Submit, BooksTypeOK, LoadedOK, PricedOK, WithinLimit
      <3> QED
        BY <1>1, <3>3, <3>4 DEF Submit, RowsOK, LinkIsSound
    <2> QED
      BY <2>2, <2>3
  <1>2. CASE LookUp(c) /\ SameNonce(clerk[c].offer) # {}
    BY <1>2, QuietInv, BlankTypes DEF LookUp, BooksTypeOK
  <1>3. CASE LookUp(c) /\ SameNonce(clerk[c].offer) = {}
    <2>1. clerk' = [clerk EXCEPT ![c].pc = "insert"]
      BY <1>3 DEF LookUp
    <2>2. BooksTypeOK'
      BY <1>3, <2>1 DEF LookUp, BooksTypeOK, Task
    <2>3. \A d \in Clerks : (LoadedOK(d) /\ PricedOK(d))'
      BY <1>3, <2>1 DEF LookUp, BooksTypeOK, LoadedOK, PricedOK, WithinLimit
    <2> QED
      BY <1>3, <2>2, <2>3 DEF LookUp, RowsOK, LinkIsSound
  <1> QED
    BY <1>1, <1>2, <1>3

(* An insert takes a blank row, which no clerk has loaded and no link uses. *)
LEMMA InsertInv ==
  ASSUME BookInv, NEW c \in Clerks, Insert(c)
  PROVE  BookInv'
  <1> USE DEF BookInv
  <1>1. PICK x \in Bids, status \in Verdicts(clerk[c].late) :
          /\ bids[x].status = "absent"
          /\ bids' = [bids EXCEPT ![x] = [offer |-> clerk[c].offer,
                                          buyer |-> Signer[clerk[c].offer],
                                          quote |-> None, status |-> status]]
    BY DEF Insert
  <1>2. clerk[c].offer \in Offers /\ status \in LiveStatus \cup {"expired"}
    BY DEF Insert, LoadedOK, Verdicts
  <1>3. BooksTypeOK'
    BY <1>1, <1>2, DoneType, OffersAssumption DEF Insert, BooksTypeOK, Bid
  <1>4. RowsOK' /\ LinkIsSound'
    BY <1>1, <1>2 DEF Insert, BooksTypeOK, RowsOK, LinkIsSound, LiveStatus
  <1>5. ASSUME NEW d \in Clerks PROVE (LoadedOK(d) /\ PricedOK(d))'
    <2>1. CASE d = c
      BY <2>1, DoneType DEF Insert, NoTask, LoadedOK, PricedOK
    <2>2. CASE d # c
      <3>1. clerk'[d] = clerk[d] /\ quotes' = quotes /\ listed' = listed
        BY <2>2 DEF Insert, Done, BooksTypeOK
      <3>2. clerk[d].pc \in {"stream", "settle", "link"} => clerk[d].row # x
        BY <1>1, OffersAssumption DEF LoadedOK, RowsOK
      <3> QED
        BY <1>1, <3>1, <3>2 DEF LoadedOK, PricedOK, WithinLimit, BooksTypeOK
    <2> QED
      BY <2>1, <2>2
  <1> QED
    BY <1>3, <1>4, <1>5

(* A poll or a settlement that starts has loaded a row of its intent.       *)
LEMMA LoadInv ==
  ASSUME BookInv, NEW c \in Clerks, NEW o \in Offers, StreamRead(c, o) \/ SettleRead(c, o)
  PROVE  BookInv'
  <1> USE DEF BookInv
  <1>1. PICK step \in {"stream", "settle"} : Load(c, o, step)
    BY DEF StreamRead, SettleRead
  <1>2. PICK x \in Rows(o) :
          clerk' = [clerk EXCEPT ![c] = [NoTask EXCEPT !.pc = step, !.offer = o, !.row = x,
                                                       !.seen = bids[x], !.late = o \in overdue]]
    BY <1>1 DEF Load
  <1> DEFINE late == o \in overdue
             task == [NoTask EXCEPT !.pc = step, !.offer = o, !.row = x,
                                    !.seen = bids[x], !.late = late]
  <1>0. late \in BOOLEAN
    OBVIOUS
  <1> HIDE DEF late
  <1>3. x \in Bids /\ bids[x].offer = o /\ bids[x] \in Bid
    BY <1>2 DEF Rows, BooksTypeOK
  <1>4. task \in Task /\ task.pc = step /\ task.offer = o /\ task.row = x
    BY <1>0, <1>3, BlankTypes DEF Task, NoTask
  <1> HIDE DEF task
  <1>5. clerk' = [clerk EXCEPT ![c] = task]
    BY <1>2 DEF task, late
  <1>6. BooksTypeOK'
    BY <1>1, <1>4, <1>5 DEF Load, BooksTypeOK
  <1>7. \A d \in Clerks : (LoadedOK(d) /\ PricedOK(d))'
    BY <1>1, <1>3, <1>4, <1>5 DEF Load, BooksTypeOK, LoadedOK, PricedOK, WithinLimit
  <1> QED
    BY <1>1, <1>6, <1>7 DEF Load, RowsOK, LinkIsSound

(* A new status for a loaded row disturbs neither its intent nor its link.  *)
LEMMA StatusInv ==
  ASSUME BookInv, NEW c \in Clerks, StreamWrite(c) \/ SettleRefuse(c)
  PROVE  BookInv'
  <1> USE DEF BookInv
  <1>1. PICK status \in LiveStatus \cup {"expired"} : bids' = SetStatus(c, status)
    BY DEF StreamWrite, SettleRefuse, Verdicts
  <1>2. clerk[c].row \in Bids /\ bids[clerk[c].row].offer \in Offers
    BY DEF StreamWrite, SettleRefuse, LoadedOK
  <1>3. /\ quotes' = quotes /\ listed' = listed /\ overdue' = overdue /\ policy' = policy
        /\ cached' = cached /\ offered' = offered /\ Done(c)
    BY DEF StreamWrite, SettleRefuse
  <1>4. \A x \in Bids : /\ bids'[x].offer = bids[x].offer /\ bids'[x].quote = bids[x].quote
                        /\ bids'[x] \in Bid
                        /\ bids'[x].status = "absent" => bids[x].status = "absent"
    BY <1>1, <1>2 DEF SetStatus, BooksTypeOK, Bid, LiveStatus
  <1>5. BooksTypeOK'
    BY <1>1, <1>3, <1>4, DoneType DEF BooksTypeOK, SetStatus
  <1>6. RowsOK' /\ LinkIsSound'
    BY <1>3, <1>4 DEF RowsOK, LinkIsSound
  <1>7. ASSUME NEW d \in Clerks PROVE (LoadedOK(d) /\ PricedOK(d))'
    <2>1. CASE clerk'[d] = clerk[d]
      BY <1>3, <1>4, <2>1 DEF LoadedOK, PricedOK, WithinLimit
    <2>2. CASE clerk'[d] = NoTask
      BY <2>2 DEF NoTask, LoadedOK, PricedOK
    <2> QED
      BY <1>3, <2>1, <2>2, DoneType
  <1> QED
    BY <1>5, <1>6, <1>7

(* A priced settlement knows a persisted quote within the limit it signed.  *)
LEMMA PriceInv ==
  ASSUME BookInv, NEW c \in Clerks, SettlePrice(c)
  PROVE  BookInv'
  <1> USE DEF BookInv
  <1>1. PICK q \in Quotes, p \in Prices :
          /\ WithinLimit(c, p) /\ Record(q, p)
          /\ clerk' = [clerk EXCEPT ![c].pc = "link", ![c].quote = q]
    BY DEF SettlePrice
  <1>2. clerk[c].pc = "settle" /\ UNCHANGED <<bids, overdue, policy, cached, offered>>
    BY DEF SettlePrice
  <1>3. clerk' \in [Clerks -> Task]
    <2>1. clerk[c] \in Task
      BY DEF BooksTypeOK
    <2>2. [clerk[c] EXCEPT !.pc = "link", !.quote = q] \in Task
      BY <2>1 DEF Task
    <2> QED
      BY <1>1, <2>2 DEF BooksTypeOK
  <1>4. BooksTypeOK'
    BY <1>1, <1>2, <1>3, RecordKeeps DEF BooksTypeOK
  <1>5. RowsOK'
    BY <1>2 DEF RowsOK
  <1>6. LinkIsSound'
    <2>1. \A x \in Bids : bids[x].quote # None => bids[x].quote \in Quotes
      BY DEF BooksTypeOK, Bid
    <2> QED
      BY <1>1, <1>2, <2>1, RecordKeeps DEF LinkIsSound
  <1>7. ASSUME NEW d \in Clerks PROVE (LoadedOK(d) /\ PricedOK(d))'
    <2>1. CASE d = c
      <3>1. /\ clerk'[d].pc = "link" /\ clerk'[d].quote = q
            /\ clerk'[d].offer = clerk[d].offer /\ clerk'[d].row = clerk[d].row
        BY <1>1, <2>1 DEF BooksTypeOK, Task
      <3>2. LoadedOK(d)'
        BY <1>2, <2>1, <3>1 DEF LoadedOK
      <3>3. quotes'[q].status # "absent" /\ p \in listed'[q]
        BY <1>1, RecordKeeps
      <3>4. WithinLimit(d, p)'
        BY <1>1, <2>1, <3>1 DEF WithinLimit
      <3> QED
        BY <3>1, <3>2, <3>3, <3>4 DEF PricedOK
    <2>2. CASE d # c
      <3>1. clerk'[d] = clerk[d]
        BY <1>1, <2>2 DEF BooksTypeOK
      <3>2. LoadedOK(d)'
        BY <1>2, <3>1 DEF LoadedOK
      <3> QED
        BY <1>1, <3>1, <3>2, RecordKeeps DEF PricedOK, WithinLimit
    <2> QED
      BY <2>1, <2>2
  <1> QED
    BY <1>4, <1>5, <1>6, <1>7

(* The link is written to a row of the intent whose limit was compared.     *)
LEMMA SettleLinkInv ==
  ASSUME BookInv, NEW c \in Clerks, SettleLink(c)
  PROVE  BookInv'
  <1> USE DEF BookInv
  <1> DEFINE r == clerk[c].row
             q == clerk[c].quote
  <1>1. /\ r \in Bids /\ bids[r].offer = clerk[c].offer /\ clerk[c].offer \in Offers
        /\ q \in Quotes /\ quotes[q].status # "absent"
        /\ \E p \in listed[q] : p <= Limit[clerk[c].offer]
    BY DEF SettleLink, LoadedOK, PricedOK, WithinLimit
  <1>2. /\ quotes' = quotes /\ listed' = listed /\ overdue' = overdue /\ policy' = policy
        /\ cached' = cached /\ offered' = offered /\ Done(c)
    BY DEF SettleLink
  <1>3. \A x \in Bids :
          /\ bids'[x] \in Bid /\ bids'[x].offer = bids[x].offer
          /\ bids'[x].status = "absent" => bids[x].status = "absent"
          /\ bids'[x].quote = IF x = r THEN q ELSE bids[x].quote
    BY <1>1 DEF SettleLink, SetStatus, BooksTypeOK, Bid, LiveStatus
  <1>4. bids' \in [Bids -> Bid]
    BY <1>1, <1>3 DEF SettleLink, SetStatus, BooksTypeOK
  <1>5. bids[r].status # "absent"
    BY <1>1, OffersAssumption DEF RowsOK
  <1>6. BooksTypeOK'
    BY <1>2, <1>4, DoneType DEF BooksTypeOK
  <1>7. RowsOK' /\ LinkIsSound'
    BY <1>1, <1>2, <1>3, <1>5 DEF RowsOK, LinkIsSound
  <1>8. ASSUME NEW d \in Clerks PROVE (LoadedOK(d) /\ PricedOK(d))'
    <2>1. CASE clerk'[d] = clerk[d]
      BY <1>2, <1>3, <2>1 DEF LoadedOK, PricedOK, WithinLimit
    <2>2. CASE clerk'[d] = NoTask
      BY <2>2 DEF NoTask, LoadedOK, PricedOK
    <2> QED
      BY <1>2, <2>1, <2>2, DoneType
  <1> QED
    BY <1>6, <1>7, <1>8

-----------------------------------------------------------------------------
(* The theorems.                                                            *)

(* Every step of the intake, the stream and settlement keeps the invariant. *)
THEOREM BookStepInv == BookInv /\ [BookStep]_books => BookInv'
  <1> SUFFICES ASSUME BookInv, [BookStep]_books PROVE BookInv'
    OBVIOUS
  <1>1. CASE Public
    BY <1>1, PublicInv
  <1>2. ASSUME NEW c \in Clerks, Serve(c) PROVE BookInv'
    <2>1. ASSUME NEW o \in Offers, Submit(c, o) PROVE BookInv'
      BY <2>1, CreateInv
    <2>2. CASE LookUp(c)
      <3>1. clerk[c].offer \in Offers
        BY <2>2 DEF LookUp, BookInv, LoadedOK
      <3> QED
        BY <2>2, <3>1, CreateInv
    <2>3. CASE Insert(c)
      BY <2>3, InsertInv
    <2>4. ASSUME NEW o \in Offers, StreamRead(c, o) \/ SettleRead(c, o) PROVE BookInv'
      BY <2>4, LoadInv
    <2>5. CASE StreamWrite(c) \/ SettleRefuse(c)
      BY <2>5, StatusInv
    <2>6. CASE SettleAgain(c) \/ SettleUnpriced(c) \/ Abandon(c)
      BY <2>6, DoneType, QuietInv
        DEF SettleAgain, SettleUnpriced, Abandon, BookInv, BooksTypeOK
    <2>7. CASE SettlePrice(c)
      BY <2>7, PriceInv
    <2>8. CASE SettleLink(c)
      BY <2>8, SettleLinkInv
    <2> QED
      BY <1>2, <2>1, <2>2, <2>3, <2>4, <2>5, <2>6, <2>7, <2>8 DEF Serve
  <1>3. CASE UNCHANGED books
    BY <1>3 DEF books, BookInv, BooksTypeOK, RowsOK, LoadedOK, PricedOK, WithinLimit, LinkIsSound
  <1> QED
    BY <1>1, <1>2, <1>3 DEF BookStep

(* A step of the bid book is a step that keeps the invariant.               *)
LEMMA StepOfBookNext == [BookNext]_vars => [BookStep]_books
  BY DEF BookNext, vars

(* What clerks know of rows and quotes holds in every behaviour.            *)
THEOREM BookInvariant == BookSpec => []BookInv
  BY BookInitInv, BookStepInv, StepOfBookNext, PTL DEF BookSpec

(* Every variable of the bid book keeps its type.                           *)
THEOREM BookTypeCorrect == BookSpec => []BookTypeOK
  <1>1. BookInit => contested \subseteq Offers
    BY DEF BookInit
  <1>2. contested \subseteq Offers /\ [BookNext]_vars => (contested \subseteq Offers)'
    BY DEF BookNext, BookHistory, vars
  <1>3. BookInv /\ contested \subseteq Offers => BookTypeOK
    BY DEF BookInv, BookTypeOK
  <1> QED
    BY <1>1, <1>2, <1>3, BookInvariant, PTL DEF BookSpec

(* A bid is only ever linked to a quote that has been on record at a price  *)
(* its buyer signed for, for any number of clerks, however quote ids        *)
(* collide and whatever prices they are recorded at.                        *)
THEOREM Links == BookSpec => []LinkIsSound
  <1>1. BookInv => LinkIsSound
    BY DEF BookInv
  <1> QED
    BY <1>1, BookInvariant, PTL
-----------------------------------------------------------------------------
(* Overlap.  Where no two clerks have worked on a nonce at once, what the    *)
(* clerk at work on it has looked up or loaded is still so when it writes.   *)

(* A row holds an intent and the wallet that signed it.                      *)
RowsSigned ==
    \A x \in Bids : bids[x].status # "absent" =>
        bids[x].offer \in Offers /\ bids[x].buyer = Signer[bids[x].offer]

(* Offers of one nonce are contested together, and while two clerks are at   *)
(* work on it.                                                               *)
ContestedOK ==
    /\ contested \subseteq Offers
    /\ \A o \in contested : Rivals(o) \subseteq contested
    /\ \A o \in Offers : AtOnce(o) => o \in contested

AloneOK(c) ==
    clerk[c].offer \in Offers \ contested =>
        /\ clerk[c].pc = "insert" => SameNonce(clerk[c].offer) = {}
        /\ clerk[c].pc \in {"stream", "settle", "link"} =>
              clerk[c].seen.quote = bids[clerk[c].row].quote
        /\ clerk[c].pc = "link" => clerk[c].seen.quote = None

AloneInv ==
    /\ BookInv /\ RowsSigned /\ ContestedOK /\ OneBidUncontested
    /\ \A c \in Clerks : AloneOK(c)

LinksHold ==
    \A x \in Bids : bids[x].quote # None /\ bids[x].offer \notin contested =>
        bids'[x].quote = bids[x].quote

(* Rows that keep their intent and their link, and are there or not as       *)
(* before.                                                                   *)
RowsKept == \A x \in Bids : /\ bids'[x].offer = bids[x].offer
                            /\ bids'[x].buyer = bids[x].buyer
                            /\ bids'[x].status = "absent" <=> bids[x].status = "absent"

(* A step that keeps the rows leaves one bid to a nonce.                     *)
LEMMA RowsKeptOne ==
  ASSUME RowsSigned, OneBidUncontested, RowsKept, contested \subseteq contested'
  PROVE  RowsSigned' /\ OneBidUncontested'
  <1>1. RowsSigned'
    BY DEF RowsKept, RowsSigned
  <1>2. \A x, y \in Bids : SameBid(x, y)' => SameBid(x, y)
    BY DEF RowsKept, SameBid
  <1>3. OneBidUncontested'
    BY <1>2 DEF RowsKept, OneBidUncontested
  <1> QED
    BY <1>1, <1>3

(* Every step of the history keeps whole nonces contested.                   *)
LEMMA ContestedGrows ==
  ASSUME ContestedOK, BookHistory \/ UNCHANGED vars
  PROVE  ContestedOK' /\ contested \subseteq contested'
  <1>1. CASE BookHistory
    <2>1. \A o \in Offers : \A r \in Rivals(o) : r \in Offers /\ Rivals(r) = Rivals(o)
      BY DEF Rivals
    <2>2. \A o \in Offers : \A r \in Rivals(o) : AtOnce(o)' => AtOnce(r)'
      BY <2>1 DEF AtOnce, Rivals
    <2>3. contested' = contested \cup {o \in Offers : AtOnce(o)'}
      BY <1>1 DEF BookHistory
    <2>4. \A o \in contested' : Rivals(o) \subseteq contested'
      BY <2>1, <2>2, <2>3 DEF ContestedOK
    <2> QED
      BY <2>3, <2>4 DEF ContestedOK, Rivals
  <1>2. CASE UNCHANGED vars
    BY <1>2 DEF ContestedOK, vars, books, AtOnce, Rivals
  <1> QED
    BY <1>1, <1>2

(* Two clerks on the offers of one nonce make it contested.                  *)
LEMMA Apart ==
  ASSUME ContestedOK, NEW c \in Clerks, NEW d \in Clerks, c # d,
         clerk[c].offer \in Offers, clerk[d].offer \in Offers \ contested
  PROVE  clerk[c].offer \notin Rivals(clerk[d].offer)
  <1>1. clerk[d].offer \in Rivals(clerk[d].offer)
    BY DEF Rivals
  <1>2. ~AtOnce(clerk[d].offer)
    BY DEF ContestedOK
  <1> QED
    BY <1>1, <1>2 DEF AtOnce

(* What a clerk writes to the rows of its intent is no matter to a clerk     *)
(* whose nonce is not contested.                                             *)
LEMMA OtherAlone ==
  ASSUME AloneInv, ContestedOK', contested \subseteq contested',
         NEW c \in Clerks, NEW d \in Clerks, c # d, clerk'[d] = clerk[d],
         bids' = bids \/ clerk[c].offer \in Offers,
         \A x \in Bids : \/ bids'[x] = bids[x]
                         \/ /\ bids[x].status = "absent" \/ bids[x].offer = clerk[c].offer
                            /\ bids'[x].offer = clerk[c].offer
                            /\ bids'[x].buyer = Signer[clerk[c].offer]
  PROVE  AloneOK(d)'
  <1> SUFFICES ASSUME clerk[d].offer \in Offers \ contested' PROVE AloneOK(d)'
    BY DEF AloneOK
  <1> DEFINE o == clerk[d].offer
  <1>1. o \in Offers \ contested
    OBVIOUS
  <1>2. bids' = bids \/ (clerk[c].offer \in Offers \ Rivals(o))
    BY <1>1, Apart DEF AloneInv
  <1>3. SameNonce(o) = {} => SameNonce(o)' = {}
    BY <1>1, <1>2 DEF SameNonce, Rivals
  <1>4. clerk[d].pc \in {"stream", "settle", "link"} =>
          bids'[clerk[d].row].quote = bids[clerk[d].row].quote
    <2>1. SUFFICES ASSUME clerk[d].pc \in {"stream", "settle", "link"}
                   PROVE bids'[clerk[d].row].quote = bids[clerk[d].row].quote
      OBVIOUS
    <2>2. clerk[d].row \in Bids /\ bids[clerk[d].row].offer = o
      BY <2>1 DEF AloneInv, BookInv, LoadedOK
    <2>3. bids[clerk[d].row].status # "absent"
      BY <1>1, <2>2, OffersAssumption DEF AloneInv, BookInv, RowsOK
    <2>4. clerk[c].offer = o => o \in Rivals(o)
      BY <1>1 DEF Rivals
    <2> QED
      BY <1>2, <2>2, <2>3, <2>4
  <1>5. AloneOK(d)
    BY DEF AloneInv
  <1> QED
    BY <1>1, <1>3, <1>4, <1>5 DEF AloneOK

(* Requests that end, and steps of no request, keep it.                      *)
LEMMA QuietAlone ==
  ASSUME AloneInv, BookInv', ContestedOK', contested \subseteq contested', bids' = bids,
         \A c \in Clerks : clerk'[c] = clerk[c] \/ clerk'[c] = NoTask
  PROVE  AloneInv' /\ LinksHold
  <1>1. RowsKept /\ LinksHold
    BY DEF RowsKept, LinksHold
  <1>2. RowsSigned' /\ OneBidUncontested'
    BY <1>1, RowsKeptOne DEF AloneInv
  <1>3. ASSUME NEW c \in Clerks PROVE AloneOK(c)'
    <2>1. CASE clerk'[c] = clerk[c]
      <3>1. SameNonce(clerk[c].offer)' = SameNonce(clerk[c].offer)
        BY <2>1 DEF SameNonce
      <3> QED
        BY <2>1, <3>1 DEF AloneInv, AloneOK
    <2>2. CASE clerk'[c] = NoTask
      BY <2>2, OffersAssumption DEF AloneOK, NoTask
    <2> QED
      BY <1>3, <2>1, <2>2
  <1> QED
    BY <1>1, <1>2, <1>3 DEF AloneInv

(* A clerk inserts where its lookup found nothing, or contests the nonce.    *)
LEMMA InsertAlone ==
  ASSUME AloneInv, BookInv', ContestedOK', contested \subseteq contested',
         NEW c \in Clerks, Insert(c)
  PROVE  AloneInv' /\ LinksHold
  <1>1. PICK x \in Bids, status \in Verdicts(clerk[c].late) :
          /\ bids[x].status = "absent"
          /\ bids' = [bids EXCEPT ![x] = [offer |-> clerk[c].offer,
                                          buyer |-> Signer[clerk[c].offer],
                                          quote |-> None, status |-> status]]
    BY DEF Insert
  <1> DEFINE o == clerk[c].offer
  <1>2. o \in Offers /\ status # "absent" /\ (o \notin contested => SameNonce(o) = {})
    BY DEF Insert, AloneInv, AloneOK, BookInv, LoadedOK, Verdicts, LiveStatus
  <1>3. bids \in [Bids -> Bid]
    BY DEF AloneInv, BookInv, BooksTypeOK
  <1>4. /\ bids'[x].offer = o /\ bids'[x].buyer = Signer[o] /\ bids'[x].status = status
        /\ \A y \in Bids \ {x} : bids'[y] = bids[y]
    BY <1>1, <1>3
  <1>5. RowsSigned'
    BY <1>2, <1>4 DEF AloneInv, RowsSigned
  <1>6. OneBidUncontested'
    <2>1. SUFFICES ASSUME NEW y \in Bids, NEW z \in Bids, SameBid(y, z)',
                          bids'[y].offer \notin contested', y # z
                   PROVE  FALSE
      BY DEF OneBidUncontested
    <2>2. CASE y # x /\ z # x
      <3>1. SameBid(y, z) /\ bids[y].offer \notin contested
        BY <1>4, <2>1, <2>2 DEF SameBid
      <3> QED
        BY <2>1, <3>1 DEF AloneInv, OneBidUncontested
    <2>3. CASE y = x
      <3>1. z \in SameNonce(o)
        BY <1>4, <2>1, <2>3 DEF SameBid, SameNonce
      <3> QED
        BY <1>2, <1>4, <2>1, <2>3, <3>1
    <2>4. CASE z = x
      <3>1. y \in SameNonce(o) /\ bids[y].offer = bids'[y].offer
        BY <1>4, <2>1, <2>4 DEF SameBid, SameNonce
      <3>2. bids[y].offer \in Rivals(o)
        BY <3>1 DEF SameNonce, AloneInv, RowsSigned, Rivals
      <3>3. o \notin contested
        BY <2>1, <3>1, <3>2 DEF AloneInv, ContestedOK
      <3> QED
        BY <1>2, <3>1, <3>3
    <2> QED
      BY <2>2, <2>3, <2>4
  <1>7. ASSUME NEW d \in Clerks PROVE AloneOK(d)'
    <2>1. CASE d = c
      <3>1. clerk'[d] = NoTask
        BY <2>1, DoneType DEF Insert, AloneInv
      <3> QED
        BY <3>1, OffersAssumption DEF AloneOK, NoTask
    <2>2. CASE d # c
      <3>1. clerk'[d] = clerk[d]
        BY <2>2 DEF Insert, Done, AloneInv, BookInv, BooksTypeOK
      <3>2. \A y \in Bids : \/ bids'[y] = bids[y]
                            \/ /\ bids[y].status = "absent"
                               /\ bids'[y].offer = o /\ bids'[y].buyer = Signer[o]
        BY <1>1, <1>4
      <3> QED
        BY <1>2, <2>2, <3>1, <3>2, OtherAlone
    <2> QED
      BY <2>1, <2>2
  <1>8. LinksHold
    BY <1>1, <1>4 DEF LinksHold, AloneInv, BookInv, RowsOK
  <1> QED
    BY <1>5, <1>6, <1>7, <1>8 DEF AloneInv

(* It writes a status or a link to the row it loaded and no other.           *)
LEMMA WriteAlone ==
  ASSUME AloneInv, BookInv', ContestedOK', contested \subseteq contested',
         NEW c \in Clerks, StreamWrite(c) \/ SettleRefuse(c) \/ SettleLink(c)
  PROVE  AloneInv' /\ LinksHold
  <1> DEFINE r == clerk[c].row
  <1>1. /\ r \in Bids /\ bids[r].offer = clerk[c].offer /\ clerk[c].offer \in Offers
        /\ bids \in [Bids -> Bid]
    BY DEF AloneInv, BookInv, BooksTypeOK, LoadedOK, StreamWrite, SettleRefuse, SettleLink
  <1>2. bids[r].status # "absent"
    BY <1>1, OffersAssumption DEF AloneInv, BookInv, RowsOK
  <1>3. PICK status \in LiveStatus \cup {"expired"} :
          \/ bids' = SetStatus(c, status)
          \/ /\ clerk[c].pc = "link"
             /\ bids' = [SetStatus(c, status) EXCEPT ![r].quote = clerk[c].quote]
    BY DEF StreamWrite, SettleRefuse, SettleLink, Verdicts, LiveStatus
  <1> HIDE DEF r
  <1>4. status # "absent"
    BY DEF LiveStatus
  <1> DEFINE b == SetStatus(c, status)
  <1>5. /\ b \in [Bids -> Bid]
        /\ \A x \in Bids : /\ b[x].offer = bids[x].offer /\ b[x].buyer = bids[x].buyer
                           /\ b[x].quote = bids[x].quote
                           /\ b[x].status = "absent" <=> bids[x].status = "absent"
                           /\ x # r => b[x] = bids[x]
    BY <1>1, <1>2, <1>4 DEF SetStatus, Bid, LiveStatus, r
  <1> HIDE DEF b
  <1>6. /\ RowsKept
        /\ \A x \in Bids : bids'[x].quote = bids[x].quote \/ (x = r /\ clerk[c].pc = "link")
        /\ \A x \in Bids \ {r} : bids'[x] = bids[x]
    <2>1. CASE bids' = b
      BY <1>5, <2>1 DEF RowsKept
    <2>2. CASE clerk[c].pc = "link" /\ bids' = [b EXCEPT ![r].quote = clerk[c].quote]
      BY <1>1, <1>5, <2>2 DEF RowsKept, Bid
    <2> QED
      BY <1>3, <2>1, <2>2 DEF b
  <1>7. clerk[c].pc = "link" /\ bids[r].offer \notin contested => bids[r].quote = None
    BY <1>1 DEF AloneInv, AloneOK, r
  <1>8. LinksHold
    BY <1>6, <1>7 DEF LinksHold
  <1>9. ASSUME NEW d \in Clerks PROVE AloneOK(d)'
    <2>1. CASE d = c
      <3>1. clerk'[d] = NoTask
        BY <2>1, DoneType DEF StreamWrite, SettleRefuse, SettleLink, AloneInv
      <3> QED
        BY <3>1, OffersAssumption DEF AloneOK, NoTask
    <2>2. CASE d # c
      <3>1. clerk'[d] = clerk[d]
        BY <2>2 DEF StreamWrite, SettleRefuse, SettleLink, Done, AloneInv, BookInv, BooksTypeOK
      <3>2. bids[r].buyer = Signer[clerk[c].offer]
        BY <1>1, <1>2 DEF AloneInv, RowsSigned
      <3>3. \A x \in Bids : \/ bids'[x] = bids[x]
                            \/ /\ bids[x].offer = clerk[c].offer
                               /\ bids'[x].offer = clerk[c].offer
                               /\ bids'[x].buyer = Signer[clerk[c].offer]
        BY <1>1, <1>6, <3>2 DEF RowsKept
      <3> QED
        BY <1>1, <2>2, <3>1, <3>3, OtherAlone
    <2> QED
      BY <2>1, <2>2
  <1> QED
    BY <1>6, <1>8, <1>9, RowsKeptOne DEF AloneInv

(* A request that goes on knows what it has looked up, loaded or priced.     *)
LEMMA GoOnAlone ==
  ASSUME AloneInv, BookInv', ContestedOK', contested \subseteq contested',
         NEW c \in Clerks, bids' = bids, AloneOK(c)',
         \A d \in Clerks \ {c} : clerk'[d] = clerk[d]
  PROVE  AloneInv' /\ LinksHold
  <1>1. RowsKept /\ LinksHold
    BY DEF RowsKept, LinksHold
  <1>2. ASSUME NEW d \in Clerks \ {c} PROVE AloneOK(d)'
    BY OtherAlone
  <1> QED
    BY <1>1, <1>2, RowsKeptOne DEF AloneInv

(* Every step keeps it, and no link of an uncontested bid is replaced.       *)
LEMMA AloneStep ==
  ASSUME AloneInv, [BookNext]_vars
  PROVE  AloneInv' /\ LinksHold
  <1>1. BookInv'
    BY BookStepInv, StepOfBookNext DEF AloneInv
  <1>2. clerk \in [Clerks -> Task]
    BY DEF AloneInv, BookInv, BooksTypeOK
  <1>0. ContestedOK' /\ contested \subseteq contested'
    BY ContestedGrows DEF AloneInv, BookNext
  <1>3. CASE bids' = bids /\ \A d \in Clerks : clerk'[d] = clerk[d] \/ clerk'[d] = NoTask
    BY <1>0, <1>1, <1>3, QuietAlone
  <1>4. CASE Public
    BY <1>3, <1>4 DEF Public, StartSave, SavePolicy, OfferQuote, PersistSpot, Overdue, Restart
  <1>5. ASSUME NEW c \in Clerks, Serve(c)
        PROVE  AloneInv' /\ LinksHold
    <2>1. CASE StreamWrite(c) \/ SettleRefuse(c) \/ SettleLink(c)
      BY <1>0, <1>1, <2>1, WriteAlone
    <2>2. CASE Insert(c)
      BY <1>0, <1>1, <2>2, InsertAlone
    <2>3. CASE SettleAgain(c) \/ SettleUnpriced(c) \/ Abandon(c)
      BY <1>3, <2>3, DoneType DEF SettleAgain, SettleUnpriced, Abandon, AloneInv
    <2>4. ASSUME NEW o \in Offers, Submit(c, o)
          PROVE  AloneInv' /\ LinksHold
      <3>1. AloneOK(c)' \/ clerk' = clerk
        BY <1>2, <2>4 DEF Submit, AloneOK, NoTask
      <3>2. bids' = bids /\ \A d \in Clerks \ {c} : clerk'[d] = clerk[d]
        BY <1>2, <2>4 DEF Submit
      <3> QED
        BY <1>0, <1>1, <1>3, <3>1, <3>2, GoOnAlone
    <2>5. CASE LookUp(c)
      <3>1. CASE clerk' = [clerk EXCEPT ![c] = NoTask]
        BY <1>2, <1>3, <2>5, <3>1 DEF LookUp
      <3>2. CASE SameNonce(clerk[c].offer) = {} /\ clerk' = [clerk EXCEPT ![c].pc = "insert"]
        <4>1. clerk'[c].pc = "insert" /\ clerk'[c].offer = clerk[c].offer /\ bids' = bids
          BY <1>2, <2>5, <3>2 DEF LookUp, Task
        <4>2. SameNonce(clerk[c].offer)' = SameNonce(clerk[c].offer)
          BY <4>1 DEF SameNonce
        <4>3. AloneOK(c)'
          BY <3>2, <4>1, <4>2 DEF AloneOK
        <4>4. \A d \in Clerks \ {c} : clerk'[d] = clerk[d]
          BY <1>2, <3>2
        <4> QED
          BY <1>0, <1>1, <4>1, <4>3, <4>4, GoOnAlone
      <3> QED
        BY <2>5, <3>1, <3>2 DEF LookUp
    <2>6. ASSUME NEW o \in Offers, StreamRead(c, o) \/ SettleRead(c, o)
          PROVE  AloneInv' /\ LinksHold
      <3>1. PICK step \in {"stream", "settle"}, x \in Rows(o) :
              clerk' = [clerk EXCEPT ![c] = [NoTask EXCEPT !.pc = step, !.offer = o, !.row = x,
                                                           !.seen = bids[x],
                                                           !.late = o \in overdue]]
        BY <2>6 DEF StreamRead, SettleRead, Load
      <3>2. /\ clerk'[c].pc = step /\ clerk'[c].row = x /\ clerk'[c].seen = bids[x]
            /\ bids' = bids
        BY <1>2, <2>6, <3>1 DEF StreamRead, SettleRead, Load, NoTask
      <3>3. AloneOK(c)'
        BY <3>2 DEF AloneOK
      <3>4. \A d \in Clerks \ {c} : clerk'[d] = clerk[d]
        BY <1>2, <3>1
      <3> QED
        BY <1>0, <1>1, <3>2, <3>3, <3>4, GoOnAlone
    <2>7. CASE SettlePrice(c)
      <3>1. PICK q \in Quotes : clerk' = [clerk EXCEPT ![c].pc = "link", ![c].quote = q]
        BY <2>7 DEF SettlePrice
      <3>2. /\ clerk'[c].pc = "link" /\ clerk'[c].seen = clerk[c].seen
            /\ clerk'[c].row = clerk[c].row /\ clerk'[c].offer = clerk[c].offer
            /\ bids' = bids
        BY <1>2, <2>7, <3>1 DEF SettlePrice, Task
      <3>3. clerk[c].row \in Bids
        BY <2>7 DEF SettlePrice, AloneInv, BookInv, LoadedOK
      <3>4. clerk[c].offer \in Offers \ contested =>
              clerk[c].seen.quote = bids[clerk[c].row].quote /\ clerk[c].seen.quote = None
        BY <2>7, <3>3
          DEF SettlePrice, AlreadySettled, LinkedQuote, AloneInv, AloneOK, BookInv, LinkIsSound
      <3>5. AloneOK(c)'
        BY <1>0, <3>2, <3>4 DEF AloneOK
      <3>6. \A d \in Clerks \ {c} : clerk'[d] = clerk[d]
        BY <1>2, <3>1
      <3> QED
        BY <1>0, <1>1, <3>2, <3>5, <3>6, GoOnAlone
    <2> QED
      BY <1>5, <2>1, <2>2, <2>3, <2>4, <2>5, <2>6, <2>7 DEF Serve
  <1>6. CASE UNCHANGED vars
    BY <1>3, <1>6 DEF vars, books
  <1> QED
    BY <1>4, <1>5, <1>6 DEF BookNext, BookStep

(* Nothing is bid or loaded at the start.                                    *)
LEMMA AloneInit == BookInit => AloneInv
  <1> SUFFICES ASSUME BookInit PROVE AloneInv
    OBVIOUS
  <1>1. BookInv
    BY BookInitInv
  <1>2. RowsSigned /\ OneBidUncontested
    BY DEF BookInit, RowsSigned, OneBidUncontested, SameBid, NoBid
  <1>3. \A c \in Clerks : AloneOK(c)
    BY OffersAssumption DEF BookInit, AloneOK, NoTask
  <1>4. ContestedOK
    BY OffersAssumption DEF BookInit, ContestedOK, AtOnce, Rivals, NoTask
  <1> QED
    BY <1>1, <1>2, <1>3, <1>4 DEF AloneInv

(* For any number of clerks: a signed nonce that no two requests worked on   *)
(* at once makes one bid, however replays, rewordings, polls, settlements    *)
(* and restarts follow one another.                                          *)
THEOREM OneBid == BookSpec => []OneBidUncontested
  <1>1. AloneInv /\ [BookNext]_vars => AloneInv'
    BY AloneStep
  <1>2. AloneInv => OneBidUncontested
    BY DEF AloneInv
  <1> QED
    BY <1>1, <1>2, AloneInit, PTL DEF BookSpec

(* For any number of clerks: the quote a bid was settled at is never         *)
(* replaced, unless two requests worked on its nonce at once.                *)
THEOREM LinksAreStable == BookSpec => LinkIsStable
  <1>1. AloneInv /\ [BookNext]_vars => AloneInv'
    BY AloneStep
  <1>2. AloneInv /\ [BookNext]_vars =>
          [\A x \in Bids : bids[x].quote # None /\ bids[x].offer \notin contested =>
              bids'[x].quote = bids[x].quote]_bids
    BY AloneStep DEF LinksHold
  <1>3. BookSpec =>
          [][\A x \in Bids : bids[x].quote # None /\ bids[x].offer \notin contested =>
                bids'[x].quote = bids[x].quote]_bids
    BY <1>1, <1>2, AloneInit, PTL DEF BookSpec
  <1> QED
    BY <1>3 DEF LinkIsStable
============================================================================

-------------------------- MODULE ListingPage_proofs --------------------------
(* Lemmas about ListingPage, for any prices, requests and capacities: its      *)
(* invariant is kept by its own steps, and by the steps of the other pages,    *)
(* which may leave them for "elsewhere" and nothing else. App_proofs has the   *)
(* theorems.                                                                   *)
EXTENDS ListingPage, WellFoundedInduction, TLAPS

USE ListingPageAssumption

-----------------------------------------------------------------------------
(* The invariant, by the variable it is about. *)

Results   == [price : Prices, max : Prices, sold : BOOLEAN, order : Orders]
PageCall  == [kind : {"fetch", "bid", "chat", "pay", "ship", "delete"},
              at : Phases \cup {"committed"}, amount : Prices, result : Results]
ShownType == [view : {"loading", "listing", "error"}, price : Prices, userMax : Prices,
              sold : BOOLEAN, order : Orders, auctionStatus : Verdicts,
              bidLoading : BOOLEAN, chatLoading : BOOLEAN, deleting : BOOLEAN]
Items     == [type : {"auction", "fixed"}, mine : BOOLEAN, verdict : Verdicts, order : Orders,
              deleted : BOOLEAN]

\* Events that tell of a commit.
TrueEvents == {e \in Events : e.type = "new_bid" => e.price \in ledger}

\* Who does not lead has been outbid.
ServerOK ==
    /\ item \in Items /\ ledger \subseteq Prices
    /\ bids \in [taken : SUBSET Prices, lead : BOOLEAN]
    /\ ~bids.lead => \A q \in bids.taken : q <= Top

\* What waits for its broadcast, and what is on its way, was committed.
StreamOK ==
    /\ news \subseteq TrueEvents
    /\ stream \in [at : {"none", "connecting", "open", "closed"}, queue : Seq(TrueEvents)]
    /\ Len(stream.queue) <= StreamCap
    /\ StreamEndsWithPage

ShownOK == shown \in ShownType /\ ShownWasCommitted

\* What a request brings back was committed. The fetch is answered before anything
\* is shown or streamed; a bid that is taken is not below the maximum shown.
CallOK(c) ==
    /\ c \in PageCall
    /\ c.result.price \in ledger \cup {0} /\ c.result.max \in bids.taken \cup {0}
    /\ c.at = "committed" => c.kind = "bid" /\ c.result.price \in ledger
    /\ c.kind = "bid" /\ c.at \in {"committed", "answered"} => c.amount \in bids.taken
    /\ c.kind = "fetch" => route = "listing" /\ shown.view = "loading" /\ stream.at = "none"
    /\ c.kind = "bid" /\ route = "listing" =>
         /\ shown.bidLoading /\ shown.view = "listing"
         /\ c.at \in {"committed", "answered"} => shown.userMax <= c.amount

\* There is one fetch and nothing with it, and one bid at a time.
CallsOK ==
    /\ \A c \in pageCalls : CallOK(c)
    /\ \A c, d \in pageCalls : c.kind = "fetch" => c = d
    /\ route = "listing" => \A c, d \in pageCalls : c.kind = "bid" /\ d.kind = "bid" => c = d
    /\ pageCalls # {} => route \in {"listing", "elsewhere"}

ListingInv == ServerOK /\ StreamOK /\ ShownOK /\ CallsOK

-----------------------------------------------------------------------------
(* Helpers. *)

LEMMA WiderSequences ==
  ASSUME NEW S, NEW T, S \subseteq T, NEW q \in Seq(S)
  PROVE  q \in Seq(T)
  OBVIOUS

\* A set of prices that is not empty has a highest one.
LEMMA Highest ==
  ASSUME NEW S \in SUBSET Prices, S # {}
  PROVE  \E p \in S : \A q \in S : q <= p
<1> DEFINE T == {MaxPrice - p : p \in S}
<1>1. T \subseteq Nat /\ T # {}
  <2>1. \A p \in S : MaxPrice - p \in Nat
    BY DEF Prices
  <2> QED
    BY <2>1
<1>2. PICK m \in T : \A k \in T : <<k, m>> \notin OpToRel(<, Nat)
  BY <1>1, NatLessThanWellFounded, WFMin
<1>3. \A k \in T : ~(k < m)
  BY <1>1, <1>2 DEF OpToRel
<1>4. PICK p \in S : m = MaxPrice - p
  OBVIOUS
<1>5. \A q \in S : MaxPrice - q \in T /\ q \in Int /\ p \in Int
  BY DEF Prices
<1> HIDE DEF T
<1> QED
  BY <1>3, <1>4, <1>5

LEMMA TopIsHighest ==
  ASSUME ledger \subseteq Prices
  PROVE  /\ Top \in ledger \cup {0} /\ Top \in Prices
         /\ \A q \in ledger : q <= Top
<1>1. CASE ledger = {}
  BY <1>1 DEF Top, Prices
<1>2. CASE ledger # {}
  <2>1. \E p \in ledger : \A q \in ledger : q <= p
    BY <1>2, Highest
  <2> QED
    BY <1>2, <2>1 DEF Top
<1> QED
  BY <1>1, <1>2

LEMMA MyMaxIsHighest ==
  ASSUME bids \in [taken : SUBSET Prices, lead : BOOLEAN]
  PROVE  /\ MyMax \in bids.taken \cup {0} /\ MyMax \in Prices
         /\ \A q \in bids.taken : q <= MyMax
<1>0. bids.taken \subseteq Prices
  OBVIOUS
<1>1. CASE bids.taken = {}
  BY <1>1 DEF MyMax, Prices
<1>2. CASE bids.taken # {}
  <2>1. \E p \in bids.taken : \A q \in bids.taken : q <= p
    BY <1>0, <1>2, Highest
  <2> QED
    BY <1>0, <1>2, <2>1 DEF MyMax
<1> QED
  BY <1>1, <1>2

\* A ledger that grows keeps what is true of events.
LEMMA StillTrue ==
  ASSUME ledger \subseteq ledger'
  PROVE  TrueEvents \subseteq TrueEvents'
  BY DEF TrueEvents

\* What comes of a request in flight.
LEMMA NewAt ==
  ASSUME NEW c \in PageCall
  PROVE  /\ Answered(c) \in PageCall /\ Answered(c).kind = c.kind /\ Answered(c).at = "answered"
         /\ Answered(c).amount = c.amount /\ Answered(c).result = c.result
         /\ Failed(c) \in PageCall /\ Failed(c).kind = c.kind /\ Failed(c).at = "failed"
         /\ Failed(c).amount = c.amount /\ Failed(c).result = c.result
  BY DEF PageCall, Answered, Failed, Phases

-----------------------------------------------------------------------------
(* The steps of the page. *)

\* A request that goes on: it is the only one that changes.
LEMMA CallBecomes ==
  ASSUME CallsOK, NEW c \in pageCalls, NEW d, pageCalls' = Becomes(pageCalls, c, d),
         d.kind = c.kind, CallOK(d)', \A e \in pageCalls \ {c} : CallOK(e)', route' = route
  PROVE  CallsOK'
<1>1. \A e \in pageCalls' : CallOK(e)'
  BY DEF Becomes
<1> QED
  BY <1>1 DEF CallsOK, Becomes

\* Requests that end, with the page or before it.
LEMMA CallsEnd ==
  ASSUME CallsOK, pageCalls' \subseteq pageCalls, \A e \in pageCalls' : CallOK(e)',
         route' = route \/ (route' = "elsewhere" /\ route \in {"listing", "elsewhere"})
  PROVE  CallsOK'
  BY DEF CallsOK

LEMMA AskKeeps ==
  ASSUME ListingInv, ListingShown, NEW a \in Prices,
         NEW kind \in {"bid", "chat", "pay", "ship", "delete"}, NEW s \in ShownType,
         Ask(NewCall(kind, a), s),
         s.view = shown.view, s.price = shown.price, s.userMax = shown.userMax,
         kind = "bid" => ~shown.bidLoading /\ s.bidLoading,
         kind # "bid" => s.bidLoading = shown.bidLoading
  PROVE  ListingInv'
<1> DEFINE n == NewCall(kind, a)
<1>1. /\ n \in PageCall /\ n.kind = kind /\ n.at = "sent" /\ n.result = NoResult
      /\ n.result.price = 0 /\ n.result.max = 0
  BY DEF NewCall, PageCall, NoResult, Results, Phases, Prices, Orders
<1> HIDE DEF n
<1>2. /\ pageCalls' = pageCalls \cup {n} /\ shown' = s
      /\ UNCHANGED <<route, item, ledger, bids, news, stream>>
  BY DEF Ask, n
<1>3. route = "listing" /\ shown.view = "listing"
  BY DEF ListingShown
<1>4. ServerOK' /\ StreamOK' /\ ShownOK'
  BY <1>2 DEF ListingInv, ServerOK, StreamOK, ShownOK, ShownWasCommitted, PriceShown, MaxShown,
              StreamEndsWithPage, TrueEvents, Top
<1>5. \A e \in pageCalls : CallOK(e)'
  <2> SUFFICES ASSUME NEW e \in pageCalls PROVE CallOK(e)'
    OBVIOUS
  <2>1. CallOK(e)
    BY DEF ListingInv, CallsOK
  <2> QED
    BY <1>2, <1>3, <2>1 DEF CallOK
<1>6. CallOK(n)'
  BY <1>1, <1>2, <1>3 DEF CallOK
<1>7. kind = "bid" => \A e \in pageCalls : e.kind # "bid"
  BY <1>3 DEF ListingInv, CallsOK, CallOK
<1>8. CallsOK'
  <2>1. \A e \in pageCalls : e.kind # "fetch"
    BY <1>3 DEF ListingInv, CallsOK, CallOK
  <2> QED
    BY <1>1, <1>2, <1>3, <1>5, <1>6, <1>7, <2>1 DEF ListingInv, CallsOK
<1> QED
  BY <1>4, <1>8 DEF ListingInv

LEMMA NewPageTyped == NewPage \in ShownType /\ NewPage.price = 0 /\ NewPage.userMax = 0
  BY DEF NewPage, ShownType, Prices, Orders, Verdicts

\* The page is left: nothing is shown or streamed any more.
LEMMA Left ==
  ASSUME ListingInv, Navigate, shown' = NewPage, stream' = NoStream,
         UNCHANGED <<item, ledger, bids, news>>,
         pageCalls' \subseteq pageCalls, \A c \in pageCalls' : c.kind # "fetch",
         route \in {"listing", "elsewhere"}
  PROVE  ListingInv'
<1>1. route' = "elsewhere"
  BY DEF Navigate
<1>2. ServerOK'
  BY DEF ListingInv, ServerOK, Top
<1>3. StreamOK'
  <2>1. <<>> \in Seq(TrueEvents')
    OBVIOUS
  <2>2. TrueEvents' = TrueEvents
    BY DEF TrueEvents
  <2> QED
    BY <1>1, <2>1, <2>2 DEF ListingInv, StreamOK, NoStream, StreamEndsWithPage
<1>4. ShownOK'
  BY NewPageTyped DEF ListingInv, ShownOK, ShownWasCommitted, PriceShown, MaxShown
<1>5. \A e \in pageCalls' : CallOK(e)'
  BY <1>1 DEF ListingInv, CallsOK, CallOK
<1> QED
  BY <1>1, <1>2, <1>3, <1>4, <1>5, CallsEnd DEF ListingInv

LEMMA VisitorSteps ==
  ASSUME ListingInv
  PROVE  /\ FollowLink => ListingInv'
         /\ ListingSessionExpires => ListingInv'
         /\ handleChat \/ handlePayment \/ handleShipOrder \/ handleDelete => ListingInv'
         /\ \A a \in Prices : BidFunc(a) => ListingInv'
<1>0. shown \in ShownType /\ 0 \in Prices
  BY DEF ListingInv, ShownOK, Prices
<1>1. ASSUME route = "listing", LeaveListing PROVE ListingInv'
  BY <1>1, Left DEF LeaveListing
<1>2. CASE FollowLink
  BY <1>1, <1>2 DEF FollowLink
<1>3. CASE ListingSessionExpires
  BY <1>3 DEF ListingSessionExpires, listingVars, ListingInv, ServerOK, StreamOK, ShownOK, CallsOK,
              CallOK, ShownWasCommitted, PriceShown, MaxShown, StreamEndsWithPage, TrueEvents, Top
<1>4. CASE handleChat
  <2>1. ListingShown
    BY <1>4 DEF handleChat, BuyForm
  <2>2. CASE LeaveListing
    BY <1>1, <2>1, <2>2 DEF ListingShown
  <2>3. CASE Ask(NewCall("chat", 0), [shown EXCEPT !.chatLoading = TRUE])
    <3> DEFINE s == [shown EXCEPT !.chatLoading = TRUE]
    <3>1. /\ s \in ShownType /\ s.view = shown.view /\ s.price = shown.price
          /\ s.userMax = shown.userMax /\ s.bidLoading = shown.bidLoading
      BY <1>0 DEF ShownType
    <3> HIDE DEF s
    <3> QED
      BY <1>0, <2>1, <2>3, <3>1, AskKeeps DEF s
  <2> QED
    BY <1>4, <2>2, <2>3 DEF handleChat
<1>5. CASE handlePayment
  <2>1. ListingShown /\ Ask(NewCall("pay", 0), shown)
    BY <1>5 DEF handlePayment, SoldBanner, BuyForm
  <2> QED
    BY <1>0, <2>1, AskKeeps
<1>6. CASE handleShipOrder
  <2>1. ListingShown /\ Ask(NewCall("ship", 0), shown)
    BY <1>6 DEF handleShipOrder, Dashboard
  <2> QED
    BY <1>0, <2>1, AskKeeps
<1>7. CASE handleDelete
  <2> DEFINE s == [shown EXCEPT !.deleting = TRUE]
  <2>1. ListingShown /\ Ask(NewCall("delete", 0), s)
    BY <1>7 DEF handleDelete, OwnerActions
  <2>2. /\ s \in ShownType /\ s.view = shown.view /\ s.price = shown.price
        /\ s.userMax = shown.userMax /\ s.bidLoading = shown.bidLoading
    BY <1>0 DEF ShownType
  <2> HIDE DEF s
  <2> QED
    BY <1>0, <2>1, <2>2, AskKeeps
<1>8. ASSUME NEW a \in Prices, BidFunc(a) PROVE ListingInv'
  <2>1. ListingShown /\ ~shown.bidLoading
    BY <1>8 DEF BidFunc, BidForm
  <2>2. CASE LeaveListing
    BY <1>1, <2>1, <2>2 DEF ListingShown
  <2>3. CASE Ask(NewCall("bid", a), [shown EXCEPT !.bidLoading = TRUE])
    <3> DEFINE s == [shown EXCEPT !.bidLoading = TRUE]
    <3>1. /\ s \in ShownType /\ s.view = shown.view /\ s.price = shown.price
          /\ s.userMax = shown.userMax /\ s.bidLoading
      BY <1>0 DEF ShownType
    <3> HIDE DEF s
    <3> QED
      BY <2>1, <2>3, <3>1, AskKeeps DEF s
  <2> QED
    BY <1>8, <2>2, <2>3 DEF BidFunc
<1> QED
  BY <1>2, <1>3, <1>4, <1>5, <1>6, <1>7, <1>8

\* The server goes on with a request. The page takes no notice yet.
LEMMA ServeKeeps ==
  ASSUME ListingInv, NEW c \in pageCalls, NEW d \in PageCall, Serve(c, d), d.kind = c.kind,
         ServerOK', ledger \subseteq ledger', bids.taken \subseteq bids'.taken,
         d.result.price \in ledger' \cup {0}, d.result.max \in bids'.taken \cup {0},
         d.at = "committed" => d.kind = "bid" /\ d.result.price \in ledger',
         d.kind = "bid" /\ d.at \in {"committed", "answered"} =>
           /\ d.amount \in bids'.taken
           /\ route = "listing" => shown.userMax <= d.amount
  PROVE  ListingInv'
<1>1. /\ pageCalls' = Becomes(pageCalls, c, d)
      /\ UNCHANGED <<route, viewer, news, stream, shown>>
  BY DEF Serve
<1>2. TrueEvents \subseteq TrueEvents'
  BY StillTrue
<1>3. StreamOK'
  <2>1. stream.queue \in Seq(TrueEvents')
    BY <1>2, WiderSequences DEF ListingInv, StreamOK
  <2>2. stream' \in [at : {"none", "connecting", "open", "closed"}, queue : Seq(TrueEvents')]
    BY <1>1, <2>1 DEF ListingInv, StreamOK
  <2> QED
    BY <1>1, <1>2, <2>2 DEF ListingInv, StreamOK, StreamEndsWithPage
<1>4. ShownOK'
  BY <1>1 DEF ListingInv, ShownOK, ShownWasCommitted, PriceShown, MaxShown
<1>5. \A e \in pageCalls : CallOK(e)
  BY DEF ListingInv, CallsOK
<1>6. \A e \in pageCalls \ {c} : CallOK(e)'
  BY <1>1, <1>5 DEF CallOK
<1>7. CallOK(d)'
  BY <1>1, <1>5 DEF CallOK
<1>8. CallsOK'
  BY <1>1, <1>6, <1>7, CallBecomes DEF ListingInv
<1> QED
  BY <1>3, <1>4, <1>8 DEF ListingInv

LEMMA ServerSteps ==
  ASSUME ListingInv, NEW c \in pageCalls
  PROVE  /\ c.at = "sent" /\ GetListingByID(c) => ListingInv'
         /\ c.at = "sent" /\ (\/ MarkOrderShipped(c) \/ DeleteListing(c) \/ ServeElsewhere(c)) => ListingInv'
         /\ CallFails(c) => ListingInv'
<1>0. /\ CallOK(c) /\ c \in PageCall /\ item \in Items
      /\ ledger \subseteq Prices /\ bids \in [taken : SUBSET Prices, lead : BOOLEAN]
  BY DEF ListingInv, CallsOK, CallOK, ServerOK
<1>1. /\ c.result.price \in ledger \cup {0} /\ c.result.max \in bids.taken \cup {0}
  BY <1>0 DEF CallOK
<1>2. ASSUME Serve(c, Failed(c)), UNCHANGED <<ledger, bids>>, ServerOK'
      PROVE  ListingInv'
  BY <1>0, <1>1, <1>2, NewAt, ServeKeeps
<1>3. ASSUME Serve(c, Answered(c)), UNCHANGED <<ledger, bids>>, ServerOK', c.kind # "bid"
      PROVE  ListingInv'
  BY <1>0, <1>1, <1>3, NewAt, ServeKeeps
<1>4. UNCHANGED <<item, ledger, bids>> => ServerOK'
  BY DEF ListingInv, ServerOK, Top
<1>5. ASSUME GetListingByID(c) PROVE ListingInv'
  <2> DEFINE r == [price |-> Top, max |-> IF bids.lead THEN MyMax ELSE 0,
                   sold |-> item.verdict = "sold",
                   order |-> IF IsOwner /\ item.verdict = "sold" THEN item.order ELSE "none"]
             d == [Answered(c) EXCEPT !.result = r]
  <2>1. /\ Top \in ledger \cup {0} /\ Top \in Prices
        /\ MyMax \in bids.taken \cup {0} /\ MyMax \in Prices
    BY <1>0, TopIsHighest, MyMaxIsHighest
  <2>2. /\ r \in Results /\ r.price \in ledger \cup {0} /\ r.max \in bids.taken \cup {0}
    BY <1>0, <2>1 DEF Results, Items, Prices, Orders
  <2> HIDE DEF r
  <2>3. /\ d \in PageCall /\ d.kind = c.kind /\ d.result = r /\ d.at = "answered"
    BY <1>0, <2>2 DEF PageCall, Answered, Phases
  <2>4. CASE Serve(c, Failed(c)) /\ UNCHANGED <<item, ledger, bids>>
    BY <1>2, <1>4, <2>4
  <2>5. CASE Serve(c, d) /\ UNCHANGED <<item, ledger, bids>> /\ c.kind = "fetch"
    <3> HIDE DEF d
    <3> QED
      BY <1>4, <2>2, <2>3, <2>5, ServeKeeps
  <2> QED
    BY <1>5, <2>4, <2>5 DEF GetListingByID, r
<1>6. ASSUME MarkOrderShipped(c) \/ DeleteListing(c) PROVE ListingInv'
  <2>1. item' \in Items
    BY <1>0, <1>6 DEF MarkOrderShipped, DeleteListing, Items, Orders
  <2>2. ServerOK' /\ UNCHANGED <<ledger, bids>>
    BY <1>6, <2>1 DEF MarkOrderShipped, DeleteListing, ListingInv, ServerOK, Top
  <2>3. Serve(c, Failed(c)) \/ (Serve(c, Answered(c)) /\ c.kind # "bid")
    BY <1>6 DEF MarkOrderShipped, DeleteListing
  <2> QED
    BY <1>2, <1>3, <2>2, <2>3
<1>7. ASSUME ServeElsewhere(c) \/ CallFails(c) PROVE ListingInv'
  <2>1. UNCHANGED <<item, ledger, bids>> /\ ServerOK'
    BY <1>4, <1>7 DEF ServeElsewhere, CallFails
  <2>2. Serve(c, Failed(c)) \/ (Serve(c, Answered(c)) /\ c.kind # "bid")
    BY <1>7 DEF ServeElsewhere, CallFails
  <2> QED
    BY <1>2, <1>3, <2>1, <2>2
<1> QED
  BY <1>5, <1>6, <1>7

\* A price that joins the ledger: it is the top if it is above it.
LEMMA NewTop ==
  ASSUME ledger \subseteq Prices, NEW p \in Prices, ledger' = ledger \cup {p}
  PROVE  /\ ledger' \subseteq Prices /\ Top' \in Prices
         /\ p <= Top' /\ Top <= Top' /\ (p <= Top => Top' = Top)
<1>1. ledger' \subseteq Prices
  OBVIOUS
<1>2. Top' = IF ledger' = {} THEN 0 ELSE CHOOSE x \in ledger' : \A q \in ledger' : q <= x
  BY DEF Top
<1>3. \E x \in ledger' : \A q \in ledger' : q <= x
  BY <1>1, Highest
<1>4. Top' \in ledger' /\ \A q \in ledger' : q <= Top'
  BY <1>2, <1>3
<1>5. Top \in ledger \cup {0} /\ Top \in Prices /\ \A q \in ledger : q <= Top
  BY TopIsHighest
<1>6. p \in 0..MaxPrice /\ Top \in 0..MaxPrice /\ Top' \in 0..MaxPrice
  BY <1>1, <1>4, <1>5 DEF Prices
<1>7. p <= Top' /\ Top <= Top'
  BY <1>4, <1>5, <1>6
<1>8. p <= Top => Top' <= Top
  BY <1>4, <1>5, <1>6
<1> QED
  BY <1>1, <1>4, <1>6, <1>7, <1>8 DEF Prices

LEMMA BidSteps ==
  ASSUME ListingInv, NEW c \in pageCalls, c.at = "sent", BidHandler(c)
  PROVE  ListingInv'
<1>0. /\ CallOK(c) /\ c \in PageCall /\ item \in Items /\ c.amount \in Prices
      /\ ledger \subseteq Prices /\ bids \in [taken : SUBSET Prices, lead : BOOLEAN]
  BY DEF ListingInv, CallsOK, CallOK, ServerOK, PageCall
<1>1. /\ c.result.price \in ledger \cup {0} /\ c.result.max \in bids.taken \cup {0}
      /\ c.kind = "bid" /\ shown.userMax \in bids.taken \cup {0}
      /\ ~bids.lead => \A q \in bids.taken : q <= Top
  BY <1>0 DEF CallOK, BidHandler, ListingInv, ShownOK, ShownWasCommitted, MaxShown, ServerOK
<1>2. CASE Takes(c.amount)
  <2>1. PICK n \in NewPrices(c.amount) :
          /\ ledger' = ledger \cup {n.price}
          /\ bids' = [taken |-> bids.taken \cup {c.amount}, lead |-> n.lead]
          /\ Serve(c, [c EXCEPT !.at = "committed", !.result.price = n.price])
          /\ item' = item
    BY <1>2 DEF BidHandler
  <2> DEFINE r == [c.result EXCEPT !.price = n.price]
             d == [c EXCEPT !.at = "committed", !.result = r]
  <2>2. /\ Top \in Prices /\ MyMax \in Prices /\ \A q \in bids.taken : q <= MyMax
        /\ c.amount \in 0..MaxPrice /\ Top \in 0..MaxPrice /\ MyMax \in 0..MaxPrice
        /\ \A q \in bids.taken : q \in 0..MaxPrice
    BY <1>0, TopIsHighest, MyMaxIsHighest DEF Prices
  <2>3. c.amount > Top /\ (bids.lead => c.amount > MyMax)
    BY <1>2 DEF Takes
  <2>4. n.price \in Prices /\ n.lead \in BOOLEAN /\ (~n.lead => ~bids.lead /\ c.amount <= n.price)
    <3>1. CASE bids.lead
      <4>1. n = [price |-> Top, lead |-> TRUE]
        BY <2>1, <3>1 DEF NewPrices
      <4>2. n.price = Top /\ n.lead = TRUE
        BY <4>1
      <4> QED
        BY <2>2, <4>2
    <3>2. CASE ~bids.lead
      <4>1. \/ \E p \in Prices : n = [price |-> p, lead |-> TRUE]
            \/ \E p \in {c.amount, c.amount + 1} : p <= MaxPrice /\ n = [price |-> p, lead |-> FALSE]
        BY <2>1, <3>2 DEF NewPrices
      <4>2. CASE \E p \in Prices : n = [price |-> p, lead |-> TRUE]
        <5>1. n.price \in Prices /\ n.lead = TRUE
          BY <4>2
        <5> QED
          BY <5>1
      <4>3. CASE \E p \in {c.amount, c.amount + 1} : p <= MaxPrice /\ n = [price |-> p, lead |-> FALSE]
        <5>1. n.price \in {c.amount, c.amount + 1} /\ n.price <= MaxPrice /\ n.lead = FALSE
          BY <4>3
        <5>2. n.price \in 0..MaxPrice /\ c.amount <= n.price
          BY <2>2, <5>1
        <5> QED
          BY <3>2, <5>1, <5>2 DEF Prices
      <4> QED
        BY <4>1, <4>2, <4>3
    <3> QED
      BY <3>1, <3>2
  <2>5. r \in Results /\ r.price = n.price /\ r.max = c.result.max
    BY <1>0, <2>4 DEF PageCall, Results
  <2>6. d = [c EXCEPT !.at = "committed", !.result.price = n.price]
    BY <1>0 DEF PageCall
  <2>7. /\ d \in PageCall /\ d.kind = "bid" /\ d.at = "committed" /\ d.amount = c.amount
        /\ d.result = r
    BY <1>0, <1>1, <2>5 DEF PageCall
  <2>8. ServerOK'
    <3>1. ledger' \subseteq Prices /\ Top' \in Prices /\ n.price <= Top' /\ Top <= Top'
      BY <1>0, <2>1, <2>4, NewTop
    <3>2. /\ bids' \in [taken : SUBSET Prices, lead : BOOLEAN]
          /\ bids'.taken = bids.taken \cup {c.amount} /\ bids'.lead = n.lead
      BY <1>0, <2>1, <2>4
    <3>3. ~n.lead => \A q \in bids.taken \cup {c.amount} : q <= Top'
      <4>1. n.price \in 0..MaxPrice /\ Top' \in 0..MaxPrice
        BY <2>4, <3>1 DEF Prices
      <4> QED
        BY <1>1, <2>2, <2>4, <3>1, <4>1
    <3> QED
      BY <1>0, <2>1, <3>1, <3>2, <3>3 DEF ServerOK
  <2>9. shown.userMax <= c.amount
    BY <1>1, <2>2, <2>3
  <2> HIDE DEF d, r
  <2>10. /\ ledger \subseteq ledger' /\ n.price \in ledger' /\ bids.taken \subseteq bids'.taken
         /\ c.amount \in bids'.taken
    BY <2>1
  <2>11. Serve(c, d)
    BY <2>1, <2>6
  <2> QED
    BY <1>1, <2>5, <2>7, <2>8, <2>9, <2>10, <2>11, ServeKeeps
<1>3. CASE ~Takes(c.amount)
  <2>1. Serve(c, Failed(c)) /\ UNCHANGED <<item, ledger, bids>>
    BY <1>3 DEF BidHandler
  <2>2. ServerOK'
    BY <2>1 DEF ListingInv, ServerOK, Top
  <2> QED
    BY <1>0, <1>1, <2>1, <2>2, NewAt, ServeKeeps
<1> QED
  BY <1>2, <1>3

\* A step of others, or of the stream, to which requests in flight are nothing.
LEMMA CallsSame ==
  ASSUME CallsOK, UNCHANGED <<route, pageCalls>>, ledger \subseteq ledger',
         bids.taken \subseteq bids'.taken, stream.at = "none" => stream'.at = "none",
         shown'.view = shown.view, shown'.bidLoading = shown.bidLoading,
         shown'.userMax = shown.userMax
  PROVE  CallsOK'
<1>1. \A e \in pageCalls : CallOK(e)'
  BY DEF CallsOK, CallOK
<1> QED
  BY <1>1 DEF CallsOK

LEMMA PushedTyped ==
  ASSUME StreamOK, NEW e \in TrueEvents
  PROVE  /\ Pushed(e) \in [at : {"none", "connecting", "open", "closed"}, queue : Seq(TrueEvents)]
         /\ Len(Pushed(e).queue) <= StreamCap /\ Pushed(e).at = stream.at
<1>1. CASE stream.at = "open" /\ Len(stream.queue) < StreamCap
  <2> DEFINE q == Append(stream.queue, e)
  <2>1. Pushed(e) = [stream EXCEPT !.queue = q]
    BY <1>1 DEF Pushed
  <2>2. q \in Seq(TrueEvents) /\ Len(q) = Len(stream.queue) + 1 /\ Len(stream.queue) \in Nat
    BY DEF StreamOK
  <2>3. Len(q) <= StreamCap
    BY <1>1, <2>2
  <2> HIDE DEF q
  <2> QED
    BY <2>1, <2>2, <2>3 DEF StreamOK
<1>2. CASE ~(stream.at = "open" /\ Len(stream.queue) < StreamCap)
  <2>1. Pushed(e) = stream
    BY <1>2 DEF Pushed
  <2> QED
    BY <2>1 DEF StreamOK
<1> QED
  BY <1>1, <1>2

LEMMA MarketSteps ==
  ASSUME ListingInv
  PROVE  /\ \A p \in Prices : OthersBid(p) => ListingInv'
         /\ \A v \in Verdicts : ClosesAuction(v) => ListingInv'
<1>0. /\ item \in Items /\ ledger \subseteq Prices /\ bids \in [taken : SUBSET Prices, lead : BOOLEAN]
      /\ ~bids.lead => \A q \in bids.taken : q <= Top
      /\ StreamOK /\ ShownOK /\ CallsOK
  BY DEF ListingInv, ServerOK
<1>1. ASSUME NEW p \in Prices, OthersBid(p) PROVE ListingInv'
  <2>1. /\ ledger' = ledger \cup {p} /\ item' = item
        /\ bids' = [bids EXCEPT !.lead = bids.lead /\ p <= MyMax]
        /\ news' = news \cup {[type |-> "new_bid", price |-> p]}
        /\ UNCHANGED <<route, stream, shown, pageCalls>>
    BY <1>1 DEF OthersBid
  <2>2. ledger' \subseteq Prices /\ Top' \in Prices /\ p <= Top' /\ Top <= Top' /\ Top \in Prices
    BY <1>0, <2>1, NewTop, TopIsHighest
  <2>3. MyMax \in Prices /\ \A q \in bids.taken : q <= MyMax
    BY <1>0, MyMaxIsHighest
  <2>4. /\ bids' \in [taken : SUBSET Prices, lead : BOOLEAN] /\ bids'.taken = bids.taken
        /\ ~bids'.lead => ~bids.lead \/ MyMax < p
    <3>1. (p <= MyMax) \in BOOLEAN /\ (~(p <= MyMax) => MyMax < p)
      BY <2>3 DEF Prices
    <3> QED
      BY <1>0, <2>1, <3>1
  <2>5. ~bids'.lead => \A q \in bids'.taken : q <= Top'
    <3>1. /\ p \in 0..MaxPrice /\ MyMax \in 0..MaxPrice /\ Top \in 0..MaxPrice
          /\ Top' \in 0..MaxPrice /\ \A q \in bids.taken : q \in 0..MaxPrice
      BY <1>0, <2>2, <2>3 DEF Prices
    <3> QED
      BY <1>0, <2>2, <2>3, <2>4, <3>1
  <2>6. ServerOK'
    BY <1>0, <2>1, <2>2, <2>4, <2>5 DEF ServerOK
  <2>7. TrueEvents \subseteq TrueEvents'
    BY <2>1, StillTrue
  <2>8. StreamOK'
    <3>1. [type |-> "new_bid", price |-> p] \in TrueEvents'
      BY <2>1 DEF TrueEvents, Events
    <3>2. news' \subseteq TrueEvents'
      BY <1>0, <2>1, <2>7, <3>1 DEF StreamOK
    <3>3. stream.queue \in Seq(TrueEvents')
      BY <1>0, <2>7, WiderSequences DEF StreamOK
    <3>4. stream' \in [at : {"none", "connecting", "open", "closed"}, queue : Seq(TrueEvents')]
      BY <1>0, <2>1, <3>3 DEF StreamOK
    <3> QED
      BY <1>0, <2>1, <3>2, <3>4 DEF StreamOK, StreamEndsWithPage
  <2>9. ShownOK'
    BY <1>0, <2>1, <2>4 DEF ShownOK, ShownWasCommitted, PriceShown, MaxShown
  <2>10. CallsOK'
    BY <1>0, <2>1, <2>4, CallsSame
  <2> QED
    BY <2>6, <2>8, <2>9, <2>10 DEF ListingInv
<1>2. ASSUME NEW v \in Verdicts, ClosesAuction(v) PROVE ListingInv'
  <2>1. /\ item' = [item EXCEPT !.verdict = v]
        /\ news' = news \cup {[type |-> "auction_closed", verdict |-> v]}
        /\ UNCHANGED <<route, ledger, bids, stream, shown, pageCalls>>
    BY <1>2 DEF ClosesAuction
  <2>2. item' \in Items
    BY <1>0, <2>1 DEF Items
  <2>3. ServerOK'
    BY <1>0, <2>1, <2>2 DEF ServerOK, Top
  <2>4. TrueEvents' = TrueEvents
    BY <2>1 DEF TrueEvents
  <2>5. [type |-> "auction_closed", verdict |-> v] \in TrueEvents
    BY DEF TrueEvents, Events
  <2>6. StreamOK'
    BY <1>0, <2>1, <2>4, <2>5 DEF StreamOK, StreamEndsWithPage
  <2>7. ShownOK'
    BY <1>0, <2>1 DEF ShownOK, ShownWasCommitted, PriceShown, MaxShown
  <2>8. CallsOK'
    BY <1>0, <2>1, CallsSame
  <2> QED
    BY <2>3, <2>6, <2>7, <2>8 DEF ListingInv
<1> QED
  BY <1>1, <1>2

LEMMA StreamSteps ==
  ASSUME ListingInv
  PROVE  /\ \A e \in news : Broadcast(e) => ListingInv'
         /\ \A c \in pageCalls : BroadcastOwn(c) => ListingInv'
         /\ StreamBid \/ OnMessage \/ OnError => ListingInv'
<1>0. StreamOK /\ ShownOK /\ CallsOK /\ ServerOK /\ ledger \subseteq Prices
  BY DEF ListingInv, ServerOK
<1>1. /\ UNCHANGED <<item, ledger, bids>> => ServerOK'
      /\ UNCHANGED ledger => TrueEvents' = TrueEvents
      /\ UNCHANGED <<ledger, bids, shown>> => ShownOK'
  BY <1>0 DEF ServerOK, Top, TrueEvents, ShownOK, ShownWasCommitted, PriceShown, MaxShown
<1>2. ASSUME NEW e \in news, Broadcast(e) PROVE ListingInv'
  <2>1. e \in TrueEvents
    BY <1>0 DEF StreamOK
  <2>2. /\ stream' = Pushed(e) /\ news' = news \ {e}
        /\ UNCHANGED <<route, item, ledger, bids, shown, pageCalls>>
    BY <1>2 DEF Broadcast
  <2>3. StreamOK'
    BY <1>0, <1>1, <2>1, <2>2, PushedTyped DEF StreamOK, StreamEndsWithPage
  <2>4. CallsOK'
    BY <1>0, <2>1, <2>2, PushedTyped, CallsSame
  <2> QED
    BY <1>1, <2>2, <2>3, <2>4 DEF ListingInv
<1>3. ASSUME NEW c \in pageCalls, BroadcastOwn(c) PROVE ListingInv'
  <2> DEFINE e == [type |-> "new_bid", price |-> c.result.price]
  <2>1. /\ c.at = "committed" /\ stream' = Pushed(e)
        /\ pageCalls' = Becomes(pageCalls, c, Answered(c))
        /\ UNCHANGED <<route, viewer, item, ledger, bids, news, shown>>
    BY <1>3 DEF BroadcastOwn
  <2>2. CallOK(c) /\ c \in PageCall /\ c.kind = "bid" /\ c.result.price \in ledger
    BY <1>0, <2>1 DEF CallsOK, CallOK
  <2>3. e \in TrueEvents
    BY <1>0, <2>2 DEF TrueEvents, Events
  <2> HIDE DEF e
  <2>4. StreamOK' /\ stream'.at = stream.at
    BY <1>0, <1>1, <2>1, <2>3, PushedTyped DEF StreamOK, StreamEndsWithPage
  <2>5. \A d \in pageCalls : CallOK(d)'
    BY <1>0, <2>1, <2>4 DEF CallsOK, CallOK
  <2>6. CallOK(Answered(c))'
    BY <2>1, <2>2, <2>4, NewAt DEF CallOK
  <2>7. CallsOK'
    BY <1>0, <2>1, <2>2, <2>5, <2>6, NewAt, CallBecomes
  <2> QED
    BY <1>1, <2>1, <2>4, <2>7 DEF ListingInv
<1>4. ASSUME StreamBid \/ OnError PROVE ListingInv'
  <2>1. /\ stream.at \in {"connecting", "open"}
        /\ UNCHANGED <<route, viewer, item, ledger, bids, news, shown, pageCalls>>
    BY <1>4 DEF StreamBid, OnError
  <2>2. /\ stream' \in [at : {"none", "connecting", "open", "closed"}, queue : Seq(TrueEvents)]
        /\ Len(stream'.queue) <= StreamCap
    <3>1. CASE StreamBid
      BY <1>0, <3>1 DEF StreamBid, StreamOK
    <3>2. CASE OnError
      <4>1. stream' = [at |-> "closed", queue |-> <<>>] /\ <<>> \in Seq(TrueEvents) /\ Len(<<>>) = 0
        BY <3>2 DEF OnError
      <4>2. 0 <= StreamCap
        OBVIOUS
      <4> QED
        BY <4>1, <4>2
    <3> QED
      BY <1>4, <3>1, <3>2
  <2>3. StreamOK'
    BY <1>0, <1>1, <2>1, <2>2 DEF StreamOK, StreamEndsWithPage
  <2>4. CallsOK'
    BY <1>0, <2>1, CallsSame
  <2> QED
    BY <1>1, <2>1, <2>3, <2>4 DEF ListingInv
<1>5. ASSUME OnMessage PROVE ListingInv'
  <2> DEFINE e == Head(stream.queue)
             q == Tail(stream.queue)
  <2>1. stream.queue \in Seq(TrueEvents) /\ stream.queue # <<>>
    BY <1>0, <1>5 DEF StreamOK, OnMessage
  <2>2. /\ e \in TrueEvents /\ q \in Seq(TrueEvents)
        /\ Len(q) = Len(stream.queue) - 1 /\ Len(stream.queue) \in Nat
    BY <2>1
  <2>3. /\ stream.at = "open" /\ stream' = [stream EXCEPT !.queue = q]
        /\ shown' = IF e.type = "new_bid" THEN [shown EXCEPT !.price = e.price]
                    ELSE [shown EXCEPT !.auctionStatus = e.verdict, !.sold = (e.verdict = "sold")]
        /\ UNCHANGED <<route, viewer, item, ledger, bids, news, pageCalls>>
    BY <1>5 DEF OnMessage
  <2> HIDE DEF e, q
  <2>4. /\ e.type = "new_bid" => e.price \in ledger /\ e.price \in Prices
        /\ e.type # "new_bid" => e.verdict \in Verdicts
    BY <1>0, <2>2 DEF TrueEvents, Events
  <2>5. StreamOK' /\ stream'.at = stream.at
    BY <1>0, <1>1, <2>2, <2>3 DEF StreamOK, StreamEndsWithPage, ShownOK, ShownType
  <2>6. /\ shown' \in ShownType /\ shown'.userMax = shown.userMax /\ shown'.view = shown.view
        /\ shown'.bidLoading = shown.bidLoading
        /\ shown'.price = shown.price \/ shown'.price \in ledger
    BY <1>0, <2>3, <2>4 DEF ShownOK, ShownType
  <2>7. ShownOK'
    BY <1>0, <2>3, <2>6 DEF ShownOK, ShownWasCommitted, PriceShown, MaxShown
  <2>8. CallsOK'
    BY <1>0, <2>3, <2>5, <2>6, CallsSame
  <2> QED
    BY <1>1, <2>3, <2>5, <2>7, <2>8 DEF ListingInv
<1> QED
  BY <1>2, <1>3, <1>4, <1>5

\* An answer that leaves the route and the stream alone: c is gone, and what is
\* shown is as new requests expect it.
LEMMA Answers ==
  ASSUME ListingInv, NEW c \in pageCalls, pageCalls' = pageCalls \ {c},
         UNCHANGED <<route, stream, item, ledger, bids, news>>,
         shown' \in ShownType,
         shown'.price \in ledger \cup {0}, shown'.userMax \in bids.taken \cup {0},
         shown'.view = shown.view \/ (c.kind = "fetch" /\ stream.at = "none"),
         \/ c.kind = "bid"
         \/ shown'.bidLoading = shown.bidLoading /\ shown'.userMax = shown.userMax
         \/ route # "listing"
  PROVE  ListingInv'
<1>0. StreamOK /\ ShownOK /\ CallsOK /\ ServerOK
  BY DEF ListingInv
<1>1. ServerOK' /\ TrueEvents' = TrueEvents
  BY <1>0 DEF ServerOK, Top, TrueEvents
<1>2. StreamOK'
  BY <1>0, <1>1 DEF StreamOK, StreamEndsWithPage
<1>3. ShownOK'
  BY DEF ShownOK, ShownWasCommitted, PriceShown, MaxShown
<1>4. \A e \in pageCalls' : CallOK(e)'
  <2> SUFFICES ASSUME NEW e \in pageCalls', e # c PROVE CallOK(e)'
    OBVIOUS
  <2>1. CallOK(e) /\ c.kind # "fetch" /\ e \in pageCalls
    BY <1>0 DEF CallsOK
  <2>2. c.kind = "bid" /\ route = "listing" => e.kind # "bid"
    BY <1>0, <2>1 DEF CallsOK
  <2> QED
    BY <2>1, <2>2 DEF CallOK
<1>5. CallsOK'
  BY <1>0, <1>4, CallsEnd
<1> QED
  BY <1>1, <1>2, <1>3, <1>5 DEF ListingInv

LEMMA AnswerSteps ==
  ASSUME ListingInv, NEW c \in pageCalls, AnswerListing(c)
  PROVE  ListingInv'
<1>0. /\ StreamOK /\ ShownOK /\ CallsOK /\ ServerOK /\ CallOK(c) /\ c \in PageCall
      /\ shown \in ShownType /\ shown.price \in ledger \cup {0}
      /\ shown.userMax \in bids.taken \cup {0} /\ c.result \in Results /\ c.amount \in Prices
  BY DEF ListingInv, CallsOK, CallOK, PageCall, ShownOK, ShownWasCommitted, PriceShown, MaxShown
<1>1. /\ pageCalls' = pageCalls \ {c}
      /\ UNCHANGED <<viewer, item, ledger, bids, news>>
  BY DEF AnswerListing
<1>2. /\ c.result.price \in ledger \cup {0} /\ c.result.max \in bids.taken \cup {0}
      /\ c.kind = "bid" /\ c.at = "answered" => c.amount \in bids.taken
      /\ c.kind = "fetch" => route = "listing" /\ shown.view = "loading" /\ stream.at = "none"
  BY <1>0 DEF CallOK
<1>3. CASE fetchListing(c)
  <2>1. /\ c.kind = "fetch" /\ route' = route /\ route = "listing"
        /\ stream' = IF IsAuction THEN [at |-> "connecting", queue |-> <<>>] ELSE stream
    BY <1>2, <1>3 DEF fetchListing
  <2>2. /\ shown' \in ShownType /\ shown'.view = "listing"
        /\ shown'.price = c.result.price /\ shown'.userMax = c.result.max
    BY <1>0, <1>3 DEF fetchListing, ShownType, Results
  <2>3. ServerOK' /\ TrueEvents' = TrueEvents
    BY <1>0, <1>1 DEF ServerOK, Top, TrueEvents
  <2>4. stream' \in [at : {"none", "connecting", "open", "closed"}, queue : Seq(TrueEvents)]
        /\ Len(stream'.queue) <= StreamCap
    <3>1. CASE IsAuction
      <4>1. stream' = [at |-> "connecting", queue |-> <<>>] /\ <<>> \in Seq(TrueEvents) /\ Len(<<>>) = 0
        BY <2>1, <3>1
      <4>2. 0 <= StreamCap
        OBVIOUS
      <4> QED
        BY <4>1, <4>2
    <3>2. CASE ~IsAuction
      BY <1>0, <2>1, <3>2 DEF StreamOK
    <3> QED
      BY <3>1, <3>2
  <2>5. StreamOK'
    BY <1>0, <1>1, <2>1, <2>2, <2>3, <2>4 DEF StreamOK, StreamEndsWithPage
  <2>6. ShownOK'
    BY <1>1, <1>2, <2>2 DEF ShownOK, ShownWasCommitted, PriceShown, MaxShown
  <2>7. pageCalls' = {}
    BY <1>0, <1>1, <2>1 DEF CallsOK
  <2>8. CallsOK'
    BY <2>7 DEF CallsOK
  <2> QED
    BY <2>3, <2>5, <2>6, <2>8 DEF ListingInv
<1>4. CASE BidAnswered(c)
  <2> DEFINE s == [shown EXCEPT !.price = c.result.price, !.userMax = c.amount, !.bidLoading = FALSE]
  <2>1. /\ c.kind = "bid" /\ c.amount \in bids.taken /\ UNCHANGED <<route, stream>>
        /\ shown' = IF route = "listing" THEN s ELSE shown
    BY <1>2, <1>4 DEF BidAnswered, Hears
  <2>2. /\ s \in ShownType /\ s.price = c.result.price /\ s.userMax = c.amount /\ s.view = shown.view
    BY <1>0 DEF ShownType, Results
  <2> HIDE DEF s
  <2> QED
    BY <1>0, <1>1, <1>2, <2>1, <2>2, Answers
<1>5. CASE ShipAnswered(c)
  <2> DEFINE s == [shown EXCEPT !.order = "shipped"]
  <2>1. UNCHANGED <<route, stream>> /\ shown' = IF route = "listing" THEN s ELSE shown
    BY <1>5 DEF ShipAnswered, Hears
  <2>2. /\ s \in ShownType /\ s.price = shown.price /\ s.userMax = shown.userMax
        /\ s.view = shown.view /\ s.bidLoading = shown.bidLoading
    BY <1>0 DEF ShownType, Orders
  <2> HIDE DEF s
  <2> QED
    BY <1>0, <1>1, <2>1, <2>2, Answers
<1>6. CASE PayIgnored(c)
  BY <1>0, <1>1, <1>6, Answers DEF PayIgnored
<1>7. CASE GoesOn(c)
  <2>1. /\ c.kind # "fetch" /\ Navigate /\ shown' = NewPage /\ stream' = NoStream
        /\ route \in {"listing", "elsewhere"}
    BY <1>0, <1>7 DEF GoesOn, CallsOK
  <2>2. \A e \in pageCalls' : e.kind # "fetch"
    BY <1>0, <1>1, <2>1 DEF CallsOK
  <2> QED
    BY <1>1, <2>1, <2>2, Left
<1>8. CASE AnswerFailed(c)
  <2> DEFINE s == CASE c.kind = "fetch" -> [shown EXCEPT !.view = "error"]
                    [] c.kind = "bid" -> [shown EXCEPT !.bidLoading = FALSE]
                    [] c.kind = "chat" -> [shown EXCEPT !.chatLoading = FALSE]
                    [] c.kind = "delete" -> [shown EXCEPT !.deleting = FALSE]
                    [] OTHER -> shown
  <2>1. UNCHANGED <<route, stream>> /\ shown' = IF route = "listing" THEN s ELSE shown
    BY <1>8 DEF AnswerFailed, Hears
  <2>2. /\ s \in ShownType /\ s.price = shown.price /\ s.userMax = shown.userMax
        /\ s.view = shown.view \/ c.kind = "fetch"
        /\ s.bidLoading = shown.bidLoading \/ c.kind = "bid"
    <3>1. CASE c.kind = "fetch"
      <4>1. s = [shown EXCEPT !.view = "error"]
        BY <3>1
      <4> HIDE DEF s
      <4> QED
        BY <1>0, <3>1, <4>1 DEF ShownType
    <3>2. CASE c.kind = "bid"
      <4>1. s = [shown EXCEPT !.bidLoading = FALSE]
        BY <3>2
      <4> HIDE DEF s
      <4> QED
        BY <1>0, <3>2, <4>1 DEF ShownType
    <3>3. CASE c.kind = "chat"
      <4>1. s = [shown EXCEPT !.chatLoading = FALSE]
        BY <3>3
      <4> HIDE DEF s
      <4> QED
        BY <1>0, <3>3, <4>1 DEF ShownType
    <3>4. CASE c.kind = "delete"
      <4>1. s = [shown EXCEPT !.deleting = FALSE]
        BY <3>4
      <4> HIDE DEF s
      <4> QED
        BY <1>0, <3>4, <4>1 DEF ShownType
    <3>5. CASE c.kind \notin {"fetch", "bid", "chat", "delete"}
      <4>1. s = shown
        BY <3>5
      <4> HIDE DEF s
      <4> QED
        BY <1>0, <3>5, <4>1
    <3> QED
      BY <3>1, <3>2, <3>3, <3>4, <3>5
  <2> HIDE DEF s
  <2> QED
    BY <1>0, <1>1, <1>2, <2>1, <2>2, Answers
<1> QED
  BY <1>3, <1>4, <1>5, <1>6, <1>7, <1>8 DEF AnswerListing

-----------------------------------------------------------------------------
(* What App_proofs needs of the page. *)

LEMMA ListingStart ==
  ASSUME ListingInit
  PROVE  ListingInv
<1>1. news = {} /\ stream = NoStream /\ shown = NewPage
  BY DEF ListingInit
<1>2. ShownOK
  BY <1>1, NewPageTyped DEF ShownOK, ShownWasCommitted, PriceShown, MaxShown
<1>3. StreamOK
  <2>1. <<>> \in Seq(TrueEvents) /\ Len(<<>>) = 0 /\ 0 <= StreamCap
    OBVIOUS
  <2> QED
    BY <1>1, <2>1 DEF StreamOK, NoStream, StreamEndsWithPage
<1>4. ServerOK
  <2>1. item \in Items
    <3>1. CASE route = "listing"
      BY <3>1 DEF ListingInit, Items, Orders, Verdicts
    <3>2. CASE route # "listing"
      <4>1. item = [type |-> "fixed", mine |-> FALSE, verdict |-> "active", order |-> "none",
                    deleted |-> FALSE]
        BY <3>2 DEF ListingInit
      <4> QED
        BY <4>1 DEF Items, Orders, Verdicts
    <3> QED
      BY <3>1, <3>2
  <2>2. ledger \subseteq Prices
    <3>1. ledger = {} \/ ledger = {1}
      BY DEF ListingInit
    <3>2. 1 \in Prices
      BY DEF Prices
    <3> QED
      BY <3>1, <3>2
  <2>3. bids = [taken |-> {}, lead |-> FALSE] \/ bids = [taken |-> {2}, lead |-> TRUE]
    BY DEF ListingInit
  <2>4. 2 \in Prices
    BY DEF Prices
  <2> QED
    <3>1. CASE bids = [taken |-> {}, lead |-> FALSE]
      <4>1. bids.taken = {} /\ bids.lead = FALSE
        BY <3>1
      <4> QED
        BY <2>1, <2>2, <3>1, <4>1 DEF ServerOK
    <3>2. CASE bids = [taken |-> {2}, lead |-> TRUE]
      BY <2>1, <2>2, <2>4, <3>2 DEF ServerOK
    <3> QED
      BY <2>3, <3>1, <3>2
<1>5. CallsOK
  <2>1. CASE route = "listing"
    <3> DEFINE n == NewCall("fetch", 0)
    <3>1. pageCalls = {n}
      BY <2>1 DEF ListingInit
    <3>2. /\ n \in PageCall /\ n.kind = "fetch" /\ n.at = "sent"
          /\ n.result.price = 0 /\ n.result.max = 0
      BY DEF NewCall, PageCall, NoResult, Results, Phases, Prices, Orders
    <3> HIDE DEF n
    <3>3. CallOK(n)
      BY <1>1, <2>1, <3>2 DEF CallOK, NewPage, NoStream
    <3> QED
      BY <2>1, <3>1, <3>2, <3>3 DEF CallsOK
  <2>2. CASE route # "listing"
    <3>1. pageCalls = {}
      BY <2>2 DEF ListingInit
    <3> QED
      BY <3>1 DEF CallsOK
  <2> QED
    BY <2>1, <2>2
<1> QED
  BY <1>2, <1>3, <1>4, <1>5 DEF ListingInv

LEMMA ListingStep ==
  ASSUME ListingInv, ListingPageNext
  PROVE  ListingInv'
<1> QED
  BY VisitorSteps, ServerSteps, BidSteps, MarketSteps, StreamSteps, AnswerSteps DEF ListingPageActs, ListingPageNext

\* The step of another page, which may leave that page.
LEMMA ListingStutter ==
  ASSUME ListingInv, UNCHANGED listingVars,
         route' = route \/ (route # "listing" /\ route' = "elsewhere")
  PROVE  ListingInv'
<1>1. UNCHANGED <<item, ledger, bids, news, stream, shown, pageCalls>>
  BY DEF listingVars
<1>2. ServerOK' /\ ShownOK'
  BY <1>1 DEF ListingInv, ServerOK, Top, ShownOK, ShownWasCommitted, PriceShown, MaxShown
<1>3. StreamOK'
  BY <1>1 DEF ListingInv, StreamOK, TrueEvents, StreamEndsWithPage
<1>4. \A c \in pageCalls : CallOK(c)'
  BY <1>1 DEF ListingInv, CallsOK, CallOK
<1>5. CallsOK'
  BY <1>1, <1>4 DEF ListingInv, CallsOK
<1> QED
  BY <1>2, <1>3, <1>5 DEF ListingInv

\* The page is left, and by an answer whatever page there is since; a session may end.
LEMMA ListingRoute ==
  ASSUME ListingInv, ListingPageNext
  PROVE  /\ route' = route \/ (route \in {"listing", "elsewhere"} /\ route' = "elsewhere")
         /\ viewer' = viewer \/ viewer' = Nobody
<1>1. pageCalls # {} => route \in {"listing", "elsewhere"}
  BY DEF ListingInv, CallsOK
<1>2. ASSUME \/ FollowLink \/ ListingSessionExpires \/ handleChat \/ handlePayment
             \/ handleShipOrder \/ handleDelete \/ \E a \in Prices : BidFunc(a)
      PROVE  /\ route' = route \/ (route = "listing" /\ route' = "elsewhere")
             /\ viewer' = viewer \/ viewer' = Nobody
  BY <1>2 DEF FollowLink, ListingSessionExpires, handleChat, handlePayment, handleShipOrder,
              handleDelete, BidFunc, LeaveListing, Ask, Navigate, BuyForm, BidForm, ListingShown
<1>3. ASSUME NEW c \in pageCalls,
             \/ GetListingByID(c) \/ BidHandler(c) \/ MarkOrderShipped(c) \/ DeleteListing(c)
             \/ ServeElsewhere(c) \/ CallFails(c) \/ BroadcastOwn(c)
      PROVE  route' = route /\ viewer' = viewer
  BY <1>3 DEF GetListingByID, BidHandler, MarkOrderShipped, DeleteListing, ServeElsewhere,
              CallFails, BroadcastOwn, Serve
<1>4. ASSUME NEW c \in pageCalls, AnswerListing(c)
      PROVE  /\ route' = route \/ route' = "elsewhere"
             /\ viewer' = viewer
  BY <1>4 DEF AnswerListing, fetchListing, BidAnswered, ShipAnswered, PayIgnored, GoesOn,
              AnswerFailed, Navigate
<1>5. ASSUME \/ StreamBid \/ OnMessage \/ OnError \/ \E e \in news : Broadcast(e)
             \/ \E a \in Prices : OthersBid(a)
             \/ \E v \in Verdicts : ClosesAuction(v)
      PROVE  route' = route /\ viewer' = viewer
  BY <1>5 DEF OthersBid, ClosesAuction, Broadcast, StreamBid, OnMessage, OnError
<1> QED
  BY <1>1, <1>2, <1>3, <1>4, <1>5 DEF ListingPageActs, ListingPageNext

\* Only the answers of the fetch and of bids change the maximum that is shown.
LEMMA MaxStep ==
  ASSUME ListingInv, ListingPageNext, ListingShown, ListingShown'
  PROVE  shown'.userMax >= shown.userMax
<1>0. /\ route = "listing" /\ route' = "listing" /\ shown.view = "listing"
      /\ shown \in ShownType /\ shown.userMax \in 0..MaxPrice
  BY DEF ListingShown, ListingInv, ShownOK, ShownType, Prices
<1>1. shown.userMax >= shown.userMax
  BY <1>0
<1>2. ASSUME \/ FollowLink \/ ListingSessionExpires \/ handleChat \/ handlePayment
             \/ handleShipOrder \/ handleDelete \/ \E a \in Prices : BidFunc(a)
      PROVE  shown'.userMax = shown.userMax
  <2>1. ~LeaveListing
    BY <1>0 DEF LeaveListing, Navigate
  <2> QED
    BY <1>0, <1>2, <2>1 DEF FollowLink, ListingSessionExpires, listingVars, handleChat, handlePayment,
              handleShipOrder, handleDelete, BidFunc, Ask, ShownType
<1>3. ASSUME NEW c \in pageCalls,
             \/ GetListingByID(c) \/ BidHandler(c) \/ MarkOrderShipped(c) \/ DeleteListing(c)
             \/ ServeElsewhere(c) \/ CallFails(c) \/ BroadcastOwn(c)
      PROVE  shown' = shown
  BY <1>3 DEF GetListingByID, BidHandler, MarkOrderShipped, DeleteListing, ServeElsewhere,
              CallFails, BroadcastOwn, Serve
<1>4. ASSUME NEW c \in pageCalls, AnswerListing(c)
      PROVE  shown'.userMax >= shown.userMax
  <2>1. CallOK(c) /\ c \in PageCall /\ c.amount \in 0..MaxPrice
    BY DEF ListingInv, CallsOK, CallOK, PageCall, Prices
  <2>2. CASE BidAnswered(c)
    <3>1. shown'.userMax = c.amount /\ shown.userMax <= c.amount
      BY <1>0, <2>1, <2>2 DEF BidAnswered, Hears, ShownType, CallOK
    <3> QED
      BY <1>0, <2>1, <3>1
  <2>3. CASE fetchListing(c)
    BY <1>0, <2>1, <2>3 DEF fetchListing, CallOK
  <2>4. CASE ShipAnswered(c) \/ PayIgnored(c)
    <3>1. shown'.userMax = shown.userMax
      BY <1>0, <2>4 DEF ShipAnswered, PayIgnored, Hears, ShownType
    <3> QED
      BY <1>1, <3>1
  <2>5. CASE GoesOn(c)
    BY <1>0, <2>5 DEF GoesOn, Navigate
  <2>6. CASE AnswerFailed(c)
    <3>1. \/ shown' = [shown EXCEPT !.view = "error"] \/ shown' = [shown EXCEPT !.bidLoading = FALSE]
          \/ shown' = [shown EXCEPT !.chatLoading = FALSE]
          \/ shown' = [shown EXCEPT !.deleting = FALSE] \/ shown' = shown
      BY <1>0, <2>6, Zenon DEF AnswerFailed, Hears
    <3>2. shown'.userMax = shown.userMax
      BY <1>0, <3>1 DEF ShownType
    <3> QED
      BY <1>1, <3>2
  <2> QED
    BY <1>4, <2>2, <2>3, <2>4, <2>5, <2>6 DEF AnswerListing
<1>5. ASSUME \/ StreamBid \/ OnError \/ \E e \in news : Broadcast(e)
             \/ \E a \in Prices : OthersBid(a)
             \/ \E v \in Verdicts : ClosesAuction(v)
      PROVE  shown' = shown
  BY <1>5 DEF OthersBid, ClosesAuction, Broadcast, StreamBid, OnError
<1>6. ASSUME OnMessage PROVE shown'.userMax = shown.userMax
  BY <1>0, <1>6 DEF OnMessage, ShownType
<1> QED
  BY <1>1, <1>2, <1>3, <1>4, <1>5, <1>6 DEF ListingPageActs, ListingPageNext
=============================================================================

------------------------------ MODULE ListingPage ------------------------------
(* ListingDetailPage.jsx of one listing: the first fetch, the live price over  *)
(* the event stream (hub.go, stream.go), bids, chat, payment, shipping and     *)
(* deletion. The server's side of a bid is what ProxyBidding says of it, for   *)
(* one viewer and everybody else.                                              *)
EXTENDS WebPage, Sequences

CONSTANTS
    MaxPrice,      \* bound: the highest price
    StreamCap,     \* capacity of a subscriber's channel (10 in stream.go)
    MaxPageCalls   \* bound: requests in flight

ASSUME ListingPageAssumption ==
    /\ MaxPrice \in Nat \ {0, 1} /\ StreamCap \in Nat \ {0}
    /\ MaxPageCalls \in Nat

VARIABLES
    item,        \* the listing's row, and its order if it has one in escrow or later
    ledger,      \* the public prices that were committed
    bids,        \* the viewer's bids the server took, and if the proxy row is hers
    news,        \* events of committed changes that are not broadcast yet
    stream,      \* the page's EventSource and what is on its way to it
    shown,       \* the state of the page
    pageCalls    \* its requests in flight

listingVars == <<item, ledger, bids, news, stream, shown, pageCalls>>

Prices   == 0..MaxPrice    \* 0: no bid, no maximum
Verdicts == {"active", "sold", "reserve_not_met"}
Orders   == {"none", "paid_in_escrow", "shipped"}
Events   == [type : {"new_bid"}, price : Prices] \cup [type : {"auction_closed"}, verdict : Verdicts]

\* What a request brings back of the row.
NoResult == [price |-> 0, max |-> 0, sold |-> FALSE, order |-> "none"]

ListingTypeOK ==
    /\ item \in [type : {"auction", "fixed"}, mine : BOOLEAN, verdict : Verdicts, order : Orders,
                 deleted : BOOLEAN]
    /\ ledger \subseteq Prices
    /\ bids \in [taken : SUBSET Prices, lead : BOOLEAN]
    /\ news \subseteq Events
    /\ stream \in [at : {"none", "connecting", "open", "closed"}, queue : Seq(Events)]
    /\ Len(stream.queue) <= StreamCap
    /\ shown \in [view : {"loading", "listing", "error"}, price : Prices, userMax : Prices,
                  sold : BOOLEAN, order : Orders, auctionStatus : Verdicts,
                  bidLoading : BOOLEAN, chatLoading : BOOLEAN, deleting : BOOLEAN]
    /\ pageCalls \subseteq
         [kind : {"fetch", "bid", "chat", "pay", "ship", "delete"},
          at : Phases \cup {"committed"}, amount : Prices,
          result : [price : Prices, max : Prices, sold : BOOLEAN, order : Orders]]

NewCall(kind, amount) == [kind |-> kind, at |-> "sent", amount |-> amount, result |-> NoResult]

NewPage ==
    [view |-> "loading", price |-> 0, userMax |-> 0, sold |-> FALSE, order |-> "none",
     auctionStatus |-> "active", bidLoading |-> FALSE, chatLoading |-> FALSE,
     deleting |-> FALSE]

NoStream == [at |-> "none", queue |-> <<>>]

Top   == IF ledger = {} THEN 0 ELSE CHOOSE p \in ledger : \A q \in ledger : q <= p
MyMax == IF bids.taken = {} THEN 0
         ELSE CHOOSE p \in bids.taken : \A q \in bids.taken : q <= p

\* The page asks for the listing when it is mounted, whatever the listing's past.
ListingInit ==
    /\ IF route = "listing"
         THEN /\ item \in [type : {"auction", "fixed"}, mine : {TRUE, FALSE}, verdict : Verdicts,
                           order : {"none", "paid_in_escrow"}, deleted : BOOLEAN]
              /\ item.mine => IsAuthenticated
              /\ item.verdict = "reserve_not_met" => item.type = "auction"
              /\ item.order # "none" => item.verdict = "sold"
              /\ \/ ledger = {} /\ bids = [taken |-> {}, lead |-> FALSE]
                 \/ /\ item.type = "auction" /\ ledger = {1}
                    /\ bids \in {[taken |-> {}, lead |-> FALSE], [taken |-> {2}, lead |-> TRUE]}
                    /\ bids.lead => IsAuthenticated /\ ~item.mine
              /\ pageCalls = {NewCall("fetch", 0)}
         ELSE /\ item = [type |-> "fixed", mine |-> FALSE, verdict |-> "active", order |-> "none",
                         deleted |-> FALSE]
              /\ ledger = {} /\ bids = [taken |-> {}, lead |-> FALSE]
              /\ pageCalls = {}
    /\ news = {} /\ stream = NoStream /\ shown = NewPage

-----------------------------------------------------------------------------
(* What the page shows. *)

ListingShown == route = "listing" /\ shown.view = "listing"

IsAuction == item.type = "auction"
IsOwner   == item.mine /\ IsAuthenticated

BidForm      == ListingShown /\ ~shown.sold /\ ~IsOwner /\ shown.auctionStatus = "active" /\ IsAuction
BuyForm      == ListingShown /\ ~shown.sold /\ ~IsOwner /\ ~IsAuction
SoldBanner   == ListingShown /\ shown.auctionStatus = "sold"
Dashboard    == ListingShown /\ IsOwner /\ shown.sold /\ shown.order # "none"
OwnerActions == ListingShown /\ IsOwner

\* The price block and the notice above the bid field.
PriceShown == shown.price
MaxShown   == shown.userMax

-----------------------------------------------------------------------------
(* The handlers of the page. *)

Ask(c, s) ==
    /\ Cardinality(pageCalls) < MaxPageCalls /\ c \notin pageCalls
    /\ pageCalls' = pageCalls \cup {c}
    /\ shown' = s
    /\ UNCHANGED <<route, viewer, item, ledger, bids, news, stream>>

\* slip: the effect has no cleanup
LeaveListingStreaming ==
    /\ Navigate /\ shown' = NewPage
    /\ stream' = stream /\ pageCalls' = {c \in pageCalls : c.kind # "fetch"}
    /\ UNCHANGED <<viewer, item, ledger, bids, news>>

\* Leaving closes the stream; requests go on and their answers are lost.
LeaveListing ==
    /\ Navigate /\ shown' = NewPage
    /\ stream' = NoStream /\ pageCalls' = {c \in pageCalls : c.kind # "fetch"}
    /\ UNCHANGED <<viewer, item, ledger, bids, news>>

\* A link of the page or of the bar above it.
FollowLink == route = "listing" /\ LeaveListing

\* An expired token signs the user out (NotificationsContext.jsx) and stays.
ListingSessionExpires ==
    /\ route = "listing" /\ IsAuthenticated /\ viewer' = Nobody
    /\ UNCHANGED <<route, listingVars>>

handleChat ==
    /\ BuyForm
    /\ IF IsAuthenticated THEN Ask(NewCall("chat", 0), [shown EXCEPT !.chatLoading = TRUE])
       ELSE LeaveListing

\* slip: the button is not disabled while a bid is being placed
BidFuncTwice(a) ==
    /\ BidForm
    /\ IF ~IsAuthenticated THEN LeaveListing
       ELSE a > 0 /\ Ask(NewCall("bid", a), [shown EXCEPT !.bidLoading = TRUE])

\* The button does not look at the minimum of the field.
BidFunc(a) ==
    /\ BidForm /\ ~shown.bidLoading
    /\ IF ~IsAuthenticated THEN LeaveListing
       ELSE a > 0 /\ Ask(NewCall("bid", a), [shown EXCEPT !.bidLoading = TRUE])

\* Any number of times: nothing is disabled.
handlePayment == ((SoldBanner /\ ~IsOwner) \/ BuyForm) /\ Ask(NewCall("pay", 0), shown)

handleShipOrder ==
    Dashboard /\ shown.order = "paid_in_escrow" /\ Ask(NewCall("ship", 0), shown)

handleDelete ==
    /\ OwnerActions /\ ~shown.deleting
    /\ Ask(NewCall("delete", 0), [shown EXCEPT !.deleting = TRUE])

-----------------------------------------------------------------------------
(* The server. *)

Serve(c, d) ==
    /\ pageCalls' = Becomes(pageCalls, c, d)
    /\ UNCHANGED <<route, viewer, news, stream, shown>>

\* The seller sees the order; the viewer's maximum is read from the proxy row.
GetListingByID(c) ==
    /\ c.kind = "fetch"
    /\ IF item.deleted THEN Serve(c, Failed(c))
       ELSE Serve(c, [Answered(c) EXCEPT !.result =
              [price |-> Top, max |-> IF bids.lead THEN MyMax ELSE 0,
               sold |-> item.verdict = "sold",
               order |-> IF IsOwner /\ item.verdict = "sold" THEN item.order ELSE "none"]])
    /\ UNCHANGED <<item, ledger, bids>>

Takes(a) ==
    /\ IsAuction /\ item.verdict = "active" /\ ~item.deleted /\ ~item.mine
    /\ a > Top /\ (bids.lead => a > MyMax)

\* A new maximum of the holder leaves the price; a challenge wins below her
\* maximum or loses at it.
NewPrices(a) ==
    IF bids.lead THEN {[price |-> Top, lead |-> TRUE]}
    ELSE {[price |-> p, lead |-> TRUE] : p \in {q \in Prices : q > Top /\ q <= a}}
           \cup {[price |-> p, lead |-> FALSE] :
                  p \in {q \in {a, a + 1} : Top > 0 /\ q <= MaxPrice}}

BidHandler(c) ==
    /\ c.kind = "bid"
    /\ IF Takes(c.amount)
         THEN \E n \in NewPrices(c.amount) :
                /\ ledger' = ledger \cup {n.price}
                /\ bids' = [taken |-> bids.taken \cup {c.amount}, lead |-> n.lead]
                /\ Serve(c, [c EXCEPT !.at = "committed", !.result.price = n.price])
         ELSE Serve(c, Failed(c)) /\ UNCHANGED <<ledger, bids>>
    /\ UNCHANGED item

MarkOrderShipped(c) ==
    /\ c.kind = "ship"
    /\ IF item.order = "paid_in_escrow"
         THEN item' = [item EXCEPT !.order = "shipped"] /\ Serve(c, Answered(c))
         ELSE item' = item /\ Serve(c, Failed(c))
    /\ UNCHANGED <<ledger, bids>>

DeleteListing(c) ==
    /\ c.kind = "delete"
    /\ IF item.deleted THEN item' = item /\ Serve(c, Failed(c))
       ELSE item' = [item EXCEPT !.deleted = TRUE] /\ Serve(c, Answered(c))
    /\ UNCHANGED <<ledger, bids>>

\* Conversations and orders are not of this page.
ServeElsewhere(c) ==
    /\ c.kind \in {"chat", "pay"} /\ Serve(c, Answered(c))
    /\ UNCHANGED <<item, ledger, bids>>

CallFails(c) ==
    /\ c.at \in {"sent", "answered"} /\ Serve(c, Failed(c))
    /\ UNCHANGED <<item, ledger, bids>>

\* Somebody else's bid: past the viewer's maximum she no longer leads.
OthersBid(p) ==
    /\ IsAuction /\ item.verdict = "active" /\ ~item.deleted /\ p > Top
    /\ bids.lead => p <= MyMax + 1
    /\ ledger' = ledger \cup {p}
    /\ bids' = [bids EXCEPT !.lead = @ /\ p <= MyMax]
    /\ news' = news \cup {[type |-> "new_bid", price |-> p]}
    /\ UNCHANGED <<route, viewer, item, stream, shown, pageCalls>>

\* The closure's verdict.
ClosesAuction(v) ==
    /\ IsAuction /\ item.verdict = "active" /\ v # "active" /\ (v = "sold" => Top > 0)
    /\ item' = [item EXCEPT !.verdict = v]
    /\ news' = news \cup {[type |-> "auction_closed", verdict |-> v]}
    /\ UNCHANGED <<route, viewer, ledger, bids, stream, shown, pageCalls>>

\* slip: the channel is written to without looking
PushedAlways(e) ==
    IF stream.at = "open" THEN [stream EXCEPT !.queue = Append(@, e)] ELSE stream

\* hub.go: a subscriber whose channel is full is passed over.
Pushed(e) ==
    IF stream.at = "open" /\ Len(stream.queue) < StreamCap
      THEN [stream EXCEPT !.queue = Append(@, e)] ELSE stream

\* After the commit and outside of its lock: in any order.
Broadcast(e) ==
    /\ stream' = Pushed(e) /\ news' = news \ {e}
    /\ UNCHANGED <<route, viewer, item, ledger, bids, shown, pageCalls>>

BroadcastOwn(c) ==
    /\ c.at = "committed"
    /\ stream' = Pushed([type |-> "new_bid", price |-> c.result.price])
    /\ pageCalls' = Becomes(pageCalls, c, Answered(c))
    /\ UNCHANGED <<route, viewer, item, ledger, bids, news, shown>>

\* AddClient.
StreamBid ==
    /\ stream.at = "connecting" /\ stream' = [stream EXCEPT !.at = "open"]
    /\ UNCHANGED <<route, viewer, item, ledger, bids, news, shown, pageCalls>>

-----------------------------------------------------------------------------
(* Answers and events. *)

\* The onmessage of the stream. (The server never sends timer_extended.)
OnMessage ==
    /\ stream.at = "open" /\ stream.queue # <<>>
    /\ LET e == Head(stream.queue) IN
         shown' = IF e.type = "new_bid" THEN [shown EXCEPT !.price = e.price]
                  ELSE [shown EXCEPT !.auctionStatus = e.verdict, !.sold = (e.verdict = "sold")]
    /\ stream' = [stream EXCEPT !.queue = Tail(@)]
    /\ UNCHANGED <<route, viewer, item, ledger, bids, news, pageCalls>>

\* onerror closes the stream for good.
OnError ==
    /\ stream.at \in {"connecting", "open"}
    /\ stream' = [at |-> "closed", queue |-> <<>>]
    /\ UNCHANGED <<route, viewer, item, ledger, bids, news, shown, pageCalls>>

Hears(s) == shown' = IF route = "listing" THEN s ELSE shown

\* The listing is shown and, of an auction, the stream is opened.
fetchListing(c) ==
    /\ c.kind = "fetch" /\ c.at = "answered"
    /\ shown' = [shown EXCEPT !.view = "listing", !.price = c.result.price, !.userMax = c.result.max,
                              !.sold = c.result.sold, !.order = c.result.order]
    /\ stream' = IF IsAuction THEN [at |-> "connecting", queue |-> <<>>] ELSE stream
    /\ UNCHANGED route

\* slip: the page shows what was typed
BidAnsweredTyped(c) ==
    /\ c.kind = "bid" /\ c.at = "answered"
    /\ Hears([shown EXCEPT !.price = c.amount, !.userMax = c.amount, !.bidLoading = FALSE])
    /\ UNCHANGED <<route, stream>>

BidAnswered(c) ==
    /\ c.kind = "bid" /\ c.at = "answered"
    /\ Hears([shown EXCEPT !.price = c.result.price, !.userMax = c.amount, !.bidLoading = FALSE])
    /\ UNCHANGED <<route, stream>>

ShipAnswered(c) ==
    /\ c.kind = "ship" /\ c.at = "answered"
    /\ Hears([shown EXCEPT !.order = "shipped"])
    /\ UNCHANGED <<route, stream>>

\* Without a payment session, or the gateway's script, nothing comes of it.
PayIgnored(c) == c.kind = "pay" /\ c.at = "answered" /\ UNCHANGED <<route, stream, shown>>

\* To the conversation, to the gateway, or to /my-listings: away, also from the
\* page the user has gone to since.
GoesOn(c) ==
    /\ c.kind \in {"chat", "pay", "delete"} /\ c.at = "answered"
    /\ Navigate /\ shown' = NewPage /\ stream' = NoStream

AnswerFailed(c) ==
    /\ c.at = "failed"
    /\ Hears(CASE c.kind = "fetch" -> [shown EXCEPT !.view = "error"]
               [] c.kind = "bid" -> [shown EXCEPT !.bidLoading = FALSE]
               [] c.kind = "chat" -> [shown EXCEPT !.chatLoading = FALSE]
               [] c.kind = "delete" -> [shown EXCEPT !.deleting = FALSE]
               [] OTHER -> shown)
    /\ UNCHANGED <<route, stream>>

AnswerListing(c) ==
    /\ \/ fetchListing(c) \/ BidAnswered(c) \/ ShipAnswered(c) \/ PayIgnored(c) \/ GoesOn(c)
       \/ AnswerFailed(c)
    /\ pageCalls' = pageCalls \ {c}
    /\ UNCHANGED <<viewer, item, ledger, bids, news>>

\* What the user does on the page.
ListingPageActs ==
    \/ handleChat \/ handlePayment \/ handleShipOrder \/ handleDelete
    \/ \E a \in Prices : BidFunc(a)

ListingPageNext ==
    \/ FollowLink \/ ListingSessionExpires
    \/ ListingShown /\ ListingPageActs
    \/ \E p \in Prices : OthersBid(p)
    \/ \E c \in pageCalls :
         \/ c.at = "sent" /\ \/ GetListingByID(c) \/ BidHandler(c) \/ MarkOrderShipped(c)
                             \/ DeleteListing(c) \/ ServeElsewhere(c)
         \/ CallFails(c) \/ BroadcastOwn(c) \/ AnswerListing(c)
    \/ \E v \in Verdicts : ClosesAuction(v)
    \/ \E e \in news : Broadcast(e)
    \/ StreamBid \/ OnMessage \/ OnError

-----------------------------------------------------------------------------
(* Properties. *)

\* Whatever the order of answers and events, the price on the page is a price that
\* was committed and the maximum it calls the viewer's is one the server took.
ShownWasCommitted ==
    /\ PriceShown \in ledger \cup {0}
    /\ MaxShown \in bids.taken \cup {0}

\* The maximum the page calls the viewer's never falls while she stays: bids are
\* placed one at a time, so their answers cannot overtake each other.
MaxNeverFalls ==
    [][ListingShown /\ ListingShown' => shown'.userMax >= shown.userMax]_<<route, viewer, listingVars>>

\* An event stream is open only while the page of an auction is there to read it.
StreamEndsWithPage == stream.at \in {"connecting", "open"} => route = "listing" /\ shown.view = "listing"

=============================================================================

---------------------------- MODULE ProxyBidding ----------------------------
(***************************************************************************)
(* The bid endpoint (handlers/listing.go, BidHandler) on one auction       *)
(* listing, with the other requests that touch the same listing row.       *)
(*                                                                         *)
(* Every bid runs in a goroutine of its own and in a database transaction  *)
(* of its own. The transaction takes the listing's row with SELECT ... FOR *)
(* UPDATE, reads the ledger (table bids) and the proxy (table proxy_bids,  *)
(* at most one row per listing), decides, writes and commits. rowLock is   *)
(* that row lock; a statement that writes the listing row needs it free.   *)
(*                                                                         *)
(* Scope: one listing, of type auction (lines 380-384 always pass), whose  *)
(* auction_ends_at nothing in the repository ever changes. Amounts are     *)
(* natural numbers in a currency unit. The texts of the replies are left   *)
(* out; that a reply is sent, and what it says of price and winner, is in. *)
(***************************************************************************)
EXTENDS Naturals, Sequences

CONSTANTS Handlers,    \* goroutines that serve bid requests
          NoHandler,   \* the row is not locked
          Users,       \* registered users
          Seller,      \* the owner of the listing
          NoUser,      \* no proxy row; nobody to notify
          Amounts,     \* maxima a request may carry (a uint, required: not 0)
          Prices,      \* listing prices the owner may set
          Reserves,    \* reserve prices the owner may set
          Inc,         \* bidIncrement
          EndsAt,      \* listing.AuctionEndsAt
          MaxTime      \* bound: the clock stops here

ASSUME BiddingAssumption ==
  /\ NoHandler \notin Handlers
  /\ Seller \in Users
  /\ NoUser \notin Users
  /\ Amounts \subseteq Nat \ {0}
  /\ Prices \subseteq Nat \ {0}
  /\ Reserves \subseteq Nat
  /\ Inc \in Nat \ {0}
  /\ EndsAt \in Nat
  /\ MaxTime \in Nat

VARIABLES now,         \* the wall clock
          listing,     \* the row of table listings
          bids,        \* table bids, in the order of the primary key
          proxy,       \* the row of table proxy_bids, NoProxy when there is none
          rowLock,     \* the transaction that holds the listing row
          pc,          \* pc[h]: where handler h is
          req,         \* req[h]: the request it serves
          seen,        \* seen[h]: what it has read inside its transaction
          reply,       \* reply[h]: what it is about to answer and broadcast
          asked        \* history: the greatest maximum committed for each user

dbVars    == <<listing, bids, proxy>>
localVars == <<pc, req, seen, reply>>
vars      == <<now, listing, bids, proxy, rowLock, pc, req, seen, reply, asked>>

Bidders  == Users \ {Seller}
Statuses == {"active", "sold", "reserve_not_met"}

NoProxy == [bidder |-> NoUser, max |-> 0]
NoReq   == [user |-> NoUser, amount |-> 0]
NoSeen  == [price |-> 0, minimum |-> 0, proxy |-> NoProxy]
NoReply == [price |-> 0, winner |-> NoUser, outbid |-> NoUser]

Row(u, a) == [bidder |-> u, amount |-> a]

Lesser(a, b) == IF a <= b THEN a ELSE b

-----------------------------------------------------------------------------
(* The ledger.                                                             *)

\* Order("amount desc").First: the greatest amount, and among equal amounts
\* the smallest primary key, which GORM's First appends to the ordering.
IsTop(i, ledger) ==
  /\ i \in DOMAIN ledger
  /\ \A j \in DOMAIN ledger :
       \/ ledger[j].amount < ledger[i].amount
       \/ ledger[j].amount = ledger[i].amount /\ i <= j

TopBid(ledger) == ledger[CHOOSE i \in DOMAIN ledger : IsTop(i, ledger)]

\* currentPublicPrice and minRequiredBid, given the price of the listing row.
PublicPrice(ledger, asking) ==
  IF ledger = <<>> THEN asking ELSE TopBid(ledger).amount
MinRequiredBidPlusOne(ledger, asking) ==   \* slip: the page's step, not bidIncrement
  IF ledger = <<>> THEN asking ELSE TopBid(ledger).amount + 1
MinRequiredBid(ledger, asking) ==
  IF ledger = <<>> THEN asking ELSE TopBid(ledger).amount + Inc

-----------------------------------------------------------------------------
Init ==
  /\ now = 0
  /\ listing \in [price : Prices, reserve : Reserves, isSold : {FALSE},
                  status : {"active"}, deleted : {FALSE}]
  /\ bids = <<>>
  /\ proxy = NoProxy
  /\ rowLock = NoHandler
  /\ pc = [h \in Handlers |-> "idle"]
  /\ req = [h \in Handlers |-> NoReq]
  /\ seen = [h \in Handlers |-> NoSeen]
  /\ reply = [h \in Handlers |-> NoReply]
  /\ asked = [u \in Users |-> 0]

\* Handler h is through: a transaction still open is rolled back, which gives
\* the row back, and its locals are gone.
Finish(h) ==
  /\ pc' = [pc EXCEPT ![h] = "idle"]
  /\ req' = [req EXCEPT ![h] = NoReq]
  /\ seen' = [seen EXCEPT ![h] = NoSeen]
  /\ reply' = [reply EXCEPT ![h] = NoReply]
  /\ rowLock' = IF rowLock = h THEN NoHandler ELSE rowLock
  /\ UNCHANGED <<now, listing, bids, proxy, asked>>

\* A request arrives, is bound and authenticated, and opens its transaction.
BidArrives(h, u, m) ==
  /\ pc[h] = "idle"
  /\ pc' = [pc EXCEPT ![h] = "waiting"]
  /\ req' = [req EXCEPT ![h] = [user |-> u, amount |-> m]]
  /\ UNCHANGED <<now, dbVars, rowLock, seen, reply, asked>>

RowAcceptsOwner(u) ==        \* slip: no look at the seller
  ~listing.deleted /\ ~listing.isSold /\ ~(EndsAt < now)

RowAcceptsSold(u) ==         \* slip: no look at is_sold
  ~listing.deleted /\ ~(EndsAt < now) /\ u # Seller

\* The checks made on the locked row, in the order of the code: found, not
\* sold, not expired (a bid AT the end is taken), not the seller's own.
RowAccepts(u) ==
  /\ ~listing.deleted
  /\ ~listing.isSold
  /\ ~(EndsAt < now)
  /\ u # Seller

AcquireRowUnlocked(h) ==     \* slip: a plain SELECT
  /\ pc[h] = "waiting"
  /\ RowAccepts(req[h].user)
  /\ rowLock' = h
  /\ pc' = [pc EXCEPT ![h] = "locked"]
  /\ seen' = [seen EXCEPT ![h] = [NoSeen EXCEPT !.price = listing.price]]
  /\ UNCHANGED <<now, dbVars, req, reply, asked>>

\* SELECT ... FOR UPDATE returns the row, and the row passes the checks.
AcquireRow(h) ==
  /\ pc[h] = "waiting"
  /\ rowLock = NoHandler
  /\ RowAccepts(req[h].user)
  /\ rowLock' = h
  /\ pc' = [pc EXCEPT ![h] = "locked"]
  /\ seen' = [seen EXCEPT ![h] = [NoSeen EXCEPT !.price = listing.price]]
  /\ UNCHANGED <<now, dbVars, req, reply, asked>>

\* It returns no row, or one that fails a check: rollback and an error reply.
RefuseRow(h) ==
  /\ pc[h] = "waiting"
  /\ rowLock = NoHandler
  /\ ~RowAccepts(req[h].user)
  /\ Finish(h)

\* The highest public bid and the proxy row are read.
ReadLedger(h) ==
  /\ pc[h] = "locked"
  /\ pc' = [pc EXCEPT ![h] = "deciding"]
  /\ seen' = [seen EXCEPT ![h] =
                [price   |-> PublicPrice(bids, seen[h].price),
                 minimum |-> MinRequiredBid(bids, seen[h].price),
                 proxy   |-> proxy]]
  /\ UNCHANGED <<now, dbVars, rowLock, req, reply, asked>>

-----------------------------------------------------------------------------
(* The decision, from what was read.                                       *)

IsSelfBump(h) == seen[h].proxy.bidder = req[h].user
HasProxy(h)   == seen[h].proxy # NoProxy
HighEnough(h) == req[h].amount >= seen[h].minimum

RefuseBidKeepsRow(h) ==      \* slip: a return without tx.Rollback
  /\ pc[h] = "deciding"
  /\ ~IsSelfBump(h) /\ ~HighEnough(h)
  /\ pc' = [pc EXCEPT ![h] = "idle"]
  /\ UNCHANGED <<now, dbVars, rowLock, req, seen, reply, asked>>

\* The maximum is too low to be placed: rollback and an error reply.
RefuseBid(h) ==
  /\ pc[h] = "deciding"
  /\ \/ ~IsSelfBump(h) /\ ~HighEnough(h)
     \/ IsSelfBump(h) /\ req[h].amount <= seen[h].proxy.max
  /\ Finish(h)

\* tx.Commit, whose error nobody looks at. Either the rows are in, or the
\* transaction is gone (the client went away, a statement of it had failed,
\* the connection broke); the handler goes on in the same way, with the price
\* and the winner it computed.
Settle(h, newBids, newProxy, answer) ==
  /\ \/ /\ bids' = newBids
        /\ proxy' = newProxy
        /\ asked' = [asked EXCEPT ![req[h].user] = req[h].amount]
     \/ UNCHANGED <<bids, proxy, asked>>
  /\ rowLock' = NoHandler
  /\ pc' = [pc EXCEPT ![h] = "replying"]
  /\ reply' = [reply EXCEPT ![h] = answer]
  /\ seen' = [seen EXCEPT ![h] = NoSeen]
  /\ UNCHANGED <<now, listing, req>>

\* No proxy yet: the bidder leads at the asking price.
PlaceFirst(h) ==
  LET u == req[h].user IN
  /\ pc[h] = "deciding"
  /\ HighEnough(h)
  /\ ~HasProxy(h)
  /\ Settle(h, Append(bids, Row(u, seen[h].price)),
               [bidder |-> u, max |-> req[h].amount],
               [price |-> seen[h].price, winner |-> u, outbid |-> NoUser])

RaiseMaxToAny(h) ==          \* slip: the new maximum may be lower
  LET u == req[h].user IN
  /\ pc[h] = "deciding"
  /\ HasProxy(h) /\ IsSelfBump(h)
  /\ Settle(h, bids, [bidder |-> u, max |-> req[h].amount],
               [price |-> seen[h].price, winner |-> u, outbid |-> NoUser])

\* The holder of the proxy raises it: no row in the ledger.
RaiseMax(h) ==
  LET u == req[h].user IN
  /\ pc[h] = "deciding"
  /\ HasProxy(h)
  /\ IsSelfBump(h)
  /\ req[h].amount > seen[h].proxy.max
  /\ Settle(h, bids,
               [bidder |-> u, max |-> req[h].amount],
               [price |-> seen[h].price, winner |-> u, outbid |-> NoUser])

\* Somebody else holds the proxy, and the maximum is high enough to fight it.
Challenges(h) ==
  /\ pc[h] = "deciding"
  /\ HasProxy(h)
  /\ ~IsSelfBump(h)
  /\ HighEnough(h)

OutbidAtOwnMax(h) ==         \* slip: the winner's own maximum becomes public
  LET u   == req[h].user
      old == seen[h].proxy
  IN
  /\ Challenges(h)
  /\ req[h].amount > old.max
  /\ Settle(h, Append(Append(bids, Row(old.bidder, old.max)), Row(u, req[h].amount)),
               [bidder |-> u, max |-> req[h].amount],
               [price |-> req[h].amount, winner |-> u, outbid |-> old.bidder])

OutbidOnTie(h) ==            \* slip: >= for >
  LET u     == req[h].user
      old   == seen[h].proxy
      fight == Lesser(old.max + Inc, req[h].amount)
  IN
  /\ Challenges(h)
  /\ req[h].amount >= old.max
  /\ Settle(h, Append(Append(bids, Row(old.bidder, old.max)), Row(u, fight)),
               [bidder |-> u, max |-> req[h].amount],
               [price |-> fight, winner |-> u, outbid |-> old.bidder])

\* newUserMax > oldProxyMax: the old holder is bid up to her maximum and
\* beaten, and the proxy changes hands.
Outbid(h) ==
  LET u     == req[h].user
      old   == seen[h].proxy
      fight == Lesser(old.max + Inc, req[h].amount)
  IN
  /\ Challenges(h)
  /\ req[h].amount > old.max
  /\ Settle(h, Append(Append(bids, Row(old.bidder, old.max)), Row(u, fight)),
               [bidder |-> u, max |-> req[h].amount],
               [price |-> fight, winner |-> u, outbid |-> old.bidder])

DefendUncapped(h) ==         \* slip: fightPrice not cut down to the maximum
  LET old == seen[h].proxy IN
  /\ Challenges(h)
  /\ req[h].amount < old.max
  /\ Settle(h, Append(Append(bids, Row(req[h].user, req[h].amount)),
                      Row(old.bidder, req[h].amount + Inc)),
               old,
               [price |-> req[h].amount + Inc, winner |-> old.bidder, outbid |-> NoUser])

\* newUserMax < oldProxyMax: the proxy answers with just enough.
Defend(h) ==
  LET old   == seen[h].proxy
      fight == Lesser(req[h].amount + Inc, old.max)
  IN
  /\ Challenges(h)
  /\ req[h].amount < old.max
  /\ Settle(h, Append(Append(bids, Row(req[h].user, req[h].amount)),
                      Row(old.bidder, fight)),
               old,
               [price |-> fight, winner |-> old.bidder, outbid |-> NoUser])

\* newUserMax = oldProxyMax: two rows of one amount, the challenger's first.
Tie(h) ==
  LET old == seen[h].proxy IN
  /\ Challenges(h)
  /\ req[h].amount = old.max
  /\ Settle(h, Append(Append(bids, Row(req[h].user, req[h].amount)),
                      Row(old.bidder, old.max)),
               old,
               [price |-> old.max, winner |-> old.bidder, outbid |-> NoUser])

\* The outbid notice is started, the price is broadcast, the reply is sent.
Answer(h) ==
  /\ pc[h] = "replying"
  /\ Finish(h)

\* A statement of the transaction fails and the handler sees it (a database
\* error, the request's context cancelled): rollback and an error reply.
Abort(h) ==
  /\ pc[h] \in {"waiting", "locked", "deciding"}
  /\ Finish(h)

HandlerStep(h) ==
  \/ AcquireRow(h)
  \/ RefuseRow(h)
  \/ ReadLedger(h)
  \/ RefuseBid(h)
  \/ PlaceFirst(h)
  \/ RaiseMax(h)
  \/ Outbid(h)
  \/ Defend(h)
  \/ Tie(h)
  \/ Answer(h)

-----------------------------------------------------------------------------
(* The other writers of the listing row.                                   *)

\* The owner changes the asking price or the reserve, with no look at bids,
\* status or is_sold; a reserve of 0 means no change. The UPDATE waits for the
\* row.
UpdateListing ==
  /\ rowLock = NoHandler
  /\ ~listing.deleted
  /\ \E p \in Prices, r \in (Reserves \ {0}) \cup {listing.reserve} :
       listing' = [listing EXCEPT !.price = p, !.reserve = r]
  /\ UNCHANGED <<now, bids, proxy, rowLock, localVars, asked>>

\* The owner deletes the listing: deleted_at is set.
DeleteListing ==
  /\ rowLock = NoHandler
  /\ ~listing.deleted
  /\ listing' = [listing EXCEPT !.deleted = TRUE]
  /\ UNCHANGED <<now, bids, proxy, rowLock, localVars, asked>>

\* The closure worker writes its verdict, never before the end (module
\* AuctionClose models how it gets there).
CloseListing ==
  /\ rowLock = NoHandler
  /\ ~listing.deleted
  /\ EndsAt <= now
  /\ \/ listing' = [listing EXCEPT !.isSold = TRUE, !.status = "sold"]
     \/ listing' = [listing EXCEPT !.status = "reserve_not_met"]
  /\ UNCHANGED <<now, bids, proxy, rowLock, localVars, asked>>

\* The process dies and is started again: every goroutine is gone, and the
\* database rolls back the transactions of its connections.
Crash ==
  /\ pc' = [h \in Handlers |-> "idle"]
  /\ req' = [h \in Handlers |-> NoReq]
  /\ seen' = [h \in Handlers |-> NoSeen]
  /\ reply' = [h \in Handlers |-> NoReply]
  /\ rowLock' = NoHandler
  /\ UNCHANGED <<now, dbVars, asked>>

Tick ==
  /\ now < MaxTime
  /\ now' = now + 1
  /\ UNCHANGED <<dbVars, rowLock, localVars, asked>>

BidRequest ==
  \/ \E h \in Handlers, u \in Users, m \in Amounts : BidArrives(h, u, m)
  \/ \E h \in Handlers : HandlerStep(h)
  \/ \E h \in Handlers : Abort(h)

Next ==
  \/ BidRequest
  \/ UpdateListing
  \/ DeleteListing
  \/ CloseListing
  \/ Crash
  \/ Tick

Spec == Init /\ [][Next]_vars

-----------------------------------------------------------------------------
(* Fairness. A goroutine that can go on does. The row is granted by the     *)
(* database's lock queue, which starves no waiter, and no transaction of    *)
(* the code keeps the row while it waits for anything else. Requests, the   *)
(* owner, failures and the clock owe nothing.                               *)
Fairness ==
  \A h \in Handlers :
    /\ WF_vars(HandlerStep(h))
    /\ SF_vars(AcquireRow(h) \/ RefuseRow(h))

FairSpec == Spec /\ Fairness

-----------------------------------------------------------------------------
(* Properties.                                                             *)

Request == [user : Users \cup {NoUser}, amount : Nat]
ProxyRow == [bidder : Bidders \cup {NoUser}, max : Nat]

\* Every variable has its shape; the seller never gets into the ledger or the
\* proxy row.
TypeOK ==
  /\ now \in 0 .. MaxTime
  /\ listing \in [price : Prices, reserve : Reserves, isSold : BOOLEAN,
                  status : Statuses, deleted : BOOLEAN]
  /\ bids \in Seq([bidder : Bidders, amount : Nat])
  /\ proxy \in ProxyRow
  /\ rowLock \in Handlers \cup {NoHandler}
  /\ pc \in [Handlers -> {"idle", "waiting", "locked", "deciding", "replying"}]
  /\ req \in [Handlers -> Request]
  /\ seen \in [Handlers -> [price : Nat, minimum : Nat, proxy : ProxyRow]]
  /\ reply \in [Handlers -> [price : Nat, winner : Users \cup {NoUser},
                             outbid : Users \cup {NoUser}]]
  /\ asked \in [Users -> Nat]

\* A handler decides on what is still true: from its reads to its commit the
\* price, the proxy and the open state of the auction are those of the
\* database (the row lock of line 375, README.md:57).
NoStaleDecision ==
  \A h \in Handlers :
    pc[h] = "deciding" =>
      /\ seen[h].price = PublicPrice(bids, listing.price)
      /\ seen[h].proxy = proxy
      /\ ~listing.isSold /\ ~listing.deleted

\* The holder of the proxy row is the one who authorised most, the row says how
\* much, and the public price has reached what every other user authorised: no
\* interleaving of bids leaves the proxy with a user who was outbid.
HolderPricedOutRivals ==
  bids # <<>> =>
    /\ proxy.bidder \in Bidders
    /\ proxy.max = asked[proxy.bidder]
    /\ TopBid(bids).amount <= proxy.max
    /\ \A u \in Users \ {proxy.bidder} : asked[u] <= TopBid(bids).amount

\* The marketplace bids "only as much as necessary" (README.md:266): the public
\* price is the opening price, or at most one increment above what some user
\* other than the holder authorised.
SecondPrice ==
  bids # <<>> =>
    \/ TopBid(bids).amount = bids[1].amount
    \/ \E u \in Users \ {proxy.bidder} :
         asked[u] > 0 /\ TopBid(bids).amount <= asked[u] + Inc

\* No row of the ledger commits a user to more than she authorised, whichever
\* request wrote the row on her behalf.
NeverAboveOwnMax ==
  \A i \in DOMAIN bids : bids[i].amount <= asked[bids[i].bidder]

\* Rows are only appended, and a fight between two users moves the public price
\* by at least the increment (README.md:269).
IncrementRespected ==
  [][bids' # bids =>
       /\ SubSeq(bids', 1, Len(bids)) = bids
       /\ bids # <<>> => TopBid(bids').amount >= TopBid(bids).amount + Inc]_vars

\* Once the closure worker has sold the listing no bid is added, not even one
\* whose handler passed its checks before the sale.
ClosedLedgerFrozen ==
  [][listing.isSold => bids' = bids /\ proxy' = proxy]_vars

\* The requests, interleaved as they may be, are an ascending proxy auction.
Auction == INSTANCE ProxyAuction
             WITH best   <- asked,
                  holder <- proxy.bidder,
                  price  <- PublicPrice(bids, 0)
ImplementsProxyAuction == Auction!AuctionSpec

\* Every bid that waits for the row is answered.
EveryBidAnswered == \A h \in Handlers : pc[h] = "waiting" ~> pc[h] = "idle"

\* Whoever the reply calls winning_bidder (line 524), for whom the system bids
\* what it takes "to stay ahead of other bidders" (README.md:266), is ahead: hers
\* is the top row, which the listing page shows and the closure worker sells to.
\* The tie of lines 518-525 breaks it.
LeaderIsHolder == bids # <<>> => TopBid(bids).bidder = proxy.bidder
=============================================================================

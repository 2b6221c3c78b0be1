-------------------------------- MODULE Escrow --------------------------------
(* One listing from checkout to delivery: payment.go, order.go and             *)
(* delivery_worker.go on the orders table, the payment gateway, and the        *)
(* browser's PaymentStatusPage.jsx. Nothing here runs in a transaction: each   *)
(* handler reads a row, decides, and saves the whole row. Nor does any handler   *)
(* look at the error of a save.                                                *)
EXTENDS Integers, Sequences, FiniteSets

CONSTANTS
    Buyers,      \* users other than the seller
    Handlers,    \* bound: requests served at a time
    MaxOrders,   \* bound: checkouts of a fixed-price listing
    MaxTxns,     \* bound: payments opened at the gateway
    MaxShips,    \* bound: shipments accepted
    MaxFaults    \* bound: restarts of the process and errors of the database

ASSUME EscrowAssumption ==
    /\ Buyers # {} /\ IsFiniteSet(Handlers)
    /\ MaxOrders \in Nat \ {0}
    /\ {MaxTxns, MaxShips, MaxFaults} \subseteq Nat

VARIABLES
    auction,    \* the listing is an auction, which the closure has sold
    orders,     \* the orders table: buyer and status
    isSold,     \* is_sold of the listing
    txns,       \* payments at the gateway: their order and status
    webhooks,   \* webhooks the gateway has to deliver, until one is answered
    req,        \* each request being served: what it is, how far, who waits for it: page or gateway
    sleeping,   \* deliveries that sleep, per order
    ships,      \* shipments accepted so far, per order
    released,   \* transfers of the funds to the seller, per order
    screen,     \* PaymentStatusPage of the buyer: its payment and what it shows
    crashes,
    ignored     \* history: the orders for which an error of the database was ignored

vars == <<auction, orders, isSold, txns, webhooks, req, sleeping, ships, released, screen, crashes,
          ignored>>

OrderStatus == {"pending_payment", "paid_in_escrow", "shipped", "delivered", "failed"}
OrderId == 1..MaxOrders
TxnId   == 1..MaxTxns

Idle == [at |-> "idle", order |-> 0, txn |-> 0, says |-> "ACTIVE", page |-> FALSE,
         hook |-> FALSE]

\* What PaymentStatusPage shows.
Views == {"verifying", "success", "failed"}

EscrowTypeOK ==
    /\ auction \in BOOLEAN /\ isSold \in BOOLEAN
    /\ orders \in Seq([buyer : Buyers, status : OrderStatus]) /\ Len(orders) <= MaxOrders
    /\ txns \in Seq([order : OrderId, status : {"ACTIVE", "PAID", "EXPIRED"}])
    /\ Len(txns) <= MaxTxns
    /\ webhooks \subseteq [txn : TxnId, says : {"PAID", "FAILED"}]
    /\ req \in [Handlers -> [at : {"idle", "checkout", "verify", "answered", "sell", "ship", "deliver"},
                             order : 0..MaxOrders, txn : 0..MaxTxns,
                             says : {"ACTIVE", "PAID", "FAILED"}, page : BOOLEAN, hook : BOOLEAN]]
    /\ sleeping \in [OrderId -> 0..MaxShips] /\ ships \in [OrderId -> 0..MaxShips]
    /\ released \in [OrderId -> 0..MaxShips]
    /\ screen \in [txn : 0..MaxTxns, shows : Views \cup {"nothing"}]
    /\ crashes \in 0..MaxFaults /\ ignored \subseteq OrderId

Init ==
    /\ auction \in BOOLEAN
    /\ \E b \in Buyers :
         orders = IF auction THEN <<[buyer |-> b, status |-> "pending_payment"]>> ELSE <<>>
    /\ isSold = auction
    /\ txns = <<>> /\ webhooks = {}
    /\ req = [h \in Handlers |-> Idle]
    /\ sleeping = [o \in OrderId |-> 0] /\ ships = sleeping /\ released = sleeping
    /\ screen = [txn |-> 0, shows |-> "nothing"]
    /\ crashes = 0 /\ ignored = {}

Status(o) == IF o \in DOMAIN orders THEN orders[o].status ELSE "pending_payment"

SetStatus(o, s) == orders' = [orders EXCEPT ![o].status = s]

\* An error of the database that nobody sees: a row is not saved, or cannot be read
\* and so is not saved.
Ignored(o) == crashes + Cardinality(ignored) < MaxFaults /\ ignored' = ignored \cup {o}

\* config.DB.Save(&order), and on with the handler.
SaveOrder(o, s) ==
    \/ SetStatus(o, s) /\ UNCHANGED ignored
    \/ UNCHANGED orders /\ Ignored(o)

Go(h, r) == req' = [req EXCEPT ![h] = r]

-----------------------------------------------------------------------------
(* Checkout. *)

\* A fixed-price listing gets a new order for every checkout, sold or not.
CheckoutFixed(h, b) ==
    /\ req[h] = Idle /\ ~auction /\ Len(orders) < MaxOrders
    /\ orders' = Append(orders, [buyer |-> b, status |-> "pending_payment"])
    /\ Go(h, [Idle EXCEPT !.at = "checkout", !.order = Len(orders) + 1])
    /\ UNCHANGED <<auction, isSold, txns, webhooks, sleeping, ships, released, screen, crashes, ignored>>

\* The winner of an auction has a pending order.
CheckoutAuction(h, b) ==
    /\ req[h] = Idle /\ auction
    /\ \E o \in DOMAIN orders :
         /\ orders[o] = [buyer |-> b, status |-> "pending_payment"]
         /\ Go(h, [Idle EXCEPT !.at = "checkout", !.order = o])
    /\ UNCHANGED <<auction, orders, isSold, txns, webhooks, sleeping, ships, released, screen,
                   crashes, ignored>>

\* The gateway opens a payment, or its error leaves the order without one.
OpenTxn(h, ok) ==
    /\ req[h].at = "checkout"
    /\ ok => Len(txns) < MaxTxns
    /\ txns' = IF ok THEN Append(txns, [order |-> req[h].order, status |-> "ACTIVE"]) ELSE txns
    /\ Go(h, Idle)
    /\ UNCHANGED <<auction, orders, isSold, webhooks, sleeping, ships, released, screen, crashes, ignored>>

-----------------------------------------------------------------------------
(* The gateway. *)

\* An attempt succeeds, or fails and may be made again on the same payment.
Attempt(t, ok) ==
    /\ txns[t].status = "ACTIVE"
    /\ txns' = IF ok THEN [txns EXCEPT ![t].status = "PAID"] ELSE txns
    /\ webhooks' = webhooks \cup {[txn |-> t, says |-> IF ok THEN "PAID" ELSE "FAILED"]}
    /\ UNCHANGED <<auction, orders, isSold, req, sleeping, ships, released, screen, crashes, ignored>>

Expire(t) ==
    /\ txns[t].status = "ACTIVE"
    /\ txns' = [txns EXCEPT ![t].status = "EXPIRED"]
    /\ UNCHANGED <<auction, orders, isSold, webhooks, req, sleeping, ships, released, screen, crashes, ignored>>

-----------------------------------------------------------------------------
(* Verification by the returning buyer's page, and webhooks. *)

\* PaymentStatusPage is opened, or opened again: without a payment in its address
\* it has failed, otherwise it asks once. The answers asked for before are lost on it.
OpenStatusPage(h, t) ==
    LET left == [k \in Handlers |-> [req[k] EXCEPT !.page = FALSE]] IN
    /\ screen' = [txn |-> t, shows |-> IF t = 0 THEN "failed" ELSE "verifying"]
    /\ \/ t = 0 /\ req' = left
       \/ /\ t # 0 /\ req[h] = Idle
          /\ req' = [left EXCEPT ![h] = [at |-> "verify", order |-> txns[t].order, txn |-> t,
                                         says |-> "ACTIVE", page |-> TRUE, hook |-> FALSE]]
    /\ UNCHANGED <<auction, orders, isSold, txns, webhooks, sleeping, ships, released, crashes, ignored>>

\* slip: a payment that is not failed is taken as paid
SaysNotFailed(t) == IF txns[t].status = "EXPIRED" THEN "FAILED" ELSE "PAID"

\* The gateway tells the state of the payment; all but PAID and ACTIVE is failed.
Says(t) ==
    CASE txns[t].status = "PAID" -> "PAID"
      [] txns[t].status = "ACTIVE" -> "ACTIVE"
      [] OTHER -> "FAILED"

AskGateway(h) ==
    /\ req[h].at = "verify"
    /\ Go(h, [req[h] EXCEPT !.at = "answered", !.says = Says(req[h].txn)])
    /\ UNCHANGED <<auction, orders, isSold, txns, webhooks, sleeping, ships, released, screen, crashes, ignored>>

\* A webhook that is answered 200 is not sent again, unless the answer is lost.
Acknowledge(w) == webhooks' \in {webhooks, webhooks \ {w}}

\* A webhook is delivered: once, again, late, or after a newer one. If the order
\* cannot be read it is acknowledged all the same.
WebhookPayment(h, w) ==
    /\ req[h] = Idle
    /\ \/ /\ Go(h, [at |-> "answered", order |-> txns[w.txn].order, txn |-> w.txn,
                     says |-> w.says, page |-> FALSE, hook |-> TRUE])
          /\ UNCHANGED <<webhooks, ignored>>
       \/ /\ Acknowledge(w) /\ Ignored(txns[w.txn].order)
          /\ UNCHANGED req
    /\ UNCHANGED <<auction, orders, isSold, txns, sleeping, ships, released, screen, crashes>>

\* The page shows the reply it waits for; the gateway takes it as an acknowledgement.
Reply(h, shown) ==
    /\ screen' = IF req[h].page THEN [screen EXCEPT !.shows = shown] ELSE screen
    /\ IF req[h].hook THEN Acknowledge([txn |-> req[h].txn, says |-> req[h].says])
       ELSE UNCHANGED webhooks

\* slip: only an order that waits for its payment takes one
SavePaidIfPending(h) ==
    /\ req[h].at = "answered" /\ req[h].says = "PAID"
    /\ IF Status(req[h].order) = "pending_payment"
         THEN SetStatus(req[h].order, "paid_in_escrow") ELSE UNCHANGED orders
    /\ Go(h, [req[h] EXCEPT !.at = "sell"])
    /\ UNCHANGED <<auction, isSold, txns, webhooks, sleeping, ships, released, screen, crashes, ignored>>

\* PAID: the whole order row is saved, whatever its status is by now.
SavePaid(h) ==
    /\ req[h].at = "answered" /\ req[h].says = "PAID"
    /\ SaveOrder(req[h].order, "paid_in_escrow")
    /\ Go(h, [req[h] EXCEPT !.at = "sell"])
    /\ UNCHANGED <<auction, isSold, txns, webhooks, sleeping, ships, released, screen, crashes>>

\* ... then the listing row, unless it is gone or cannot be read or saved, and the reply.
MarkSold(h) ==
    /\ req[h].at = "sell"
    /\ \/ isSold' = TRUE /\ UNCHANGED ignored
       \/ UNCHANGED isSold /\ Ignored(req[h].order)
    /\ Reply(h, "success")
    /\ Go(h, Idle)
    /\ UNCHANGED <<auction, orders, txns, sleeping, ships, released, crashes>>

\* slip: a payment that waits is shown as made
ReplyPendingAsPaid(h) ==
    /\ req[h].at = "answered" /\ req[h].says = "ACTIVE"
    /\ Reply(h, "success")
    /\ Go(h, Idle)
    /\ UNCHANGED <<auction, orders, isSold, txns, sleeping, ships, released, crashes, ignored>>

\* ACTIVE: no change; the page shows "failed or pending".
ReplyPending(h) ==
    /\ req[h].at = "answered" /\ req[h].says = "ACTIVE"
    /\ Reply(h, "failed")
    /\ Go(h, Idle)
    /\ UNCHANGED <<auction, orders, isSold, txns, sleeping, ships, released, crashes, ignored>>

\* slip: a failed payment cancels the order
SaveFailedAsCancelled(h) ==
    /\ req[h].at = "answered" /\ req[h].says = "FAILED"
    /\ SaveOrder(req[h].order, "cancelled")
    /\ Reply(h, "failed")
    /\ Go(h, Idle)
    /\ UNCHANGED <<auction, isSold, txns, sleeping, ships, released, crashes>>

\* Any other state of the payment fails the order, whatever its status is.
SaveFailed(h) ==
    /\ req[h].at = "answered" /\ req[h].says = "FAILED"
    /\ SaveOrder(req[h].order, "failed")
    /\ Reply(h, "failed")
    /\ Go(h, Idle)
    /\ UNCHANGED <<auction, isSold, txns, sleeping, ships, released, crashes>>

\* The order is not found, the gateway cannot be reached or understood.
VerifyFails(h) ==
    /\ req[h].at = "verify"
    /\ Reply(h, "failed")
    /\ Go(h, Idle)
    /\ UNCHANGED <<auction, orders, isSold, txns, sleeping, ships, released, crashes, ignored>>

-----------------------------------------------------------------------------
(* Shipping and delivery. *)

\* The seller's request reads a row that is paid ...
MarkOrderShipped(h, o) ==
    /\ req[h] = Idle
    /\ ships[o] + Cardinality({k \in Handlers : req[k].at = "ship" /\ req[k].order = o}) < MaxShips
    /\ orders[o].status = "paid_in_escrow"
    /\ Go(h, [Idle EXCEPT !.at = "ship", !.order = o])
    /\ UNCHANGED <<auction, orders, isSold, txns, webhooks, sleeping, ships, released, screen, crashes, ignored>>

\* ... saves it and leaves a goroutine behind that sleeps for two minutes.
SaveShipped(h) ==
    LET o == req[h].order IN
    /\ req[h].at = "ship"
    /\ SaveOrder(o, "shipped")
    /\ ships' = [ships EXCEPT ![o] = @ + 1]
    /\ sleeping' = [sleeping EXCEPT ![o] = @ + 1]
    /\ Go(h, Idle)
    /\ UNCHANGED <<auction, isSold, txns, webhooks, released, screen, crashes>>

\* slip: the worker is started by a ticker, and a shipment keeps its own
SimulateDeliveryAgain(h, o) ==
    /\ req[h] = Idle /\ sleeping[o] > 0
    /\ orders[o].status # "delivered"
    /\ Go(h, [Idle EXCEPT !.at = "deliver", !.order = o])
    /\ UNCHANGED <<auction, orders, isSold, txns, webhooks, sleeping, ships, released, screen, crashes,
                   ignored>>

\* slip: the worker delivers only what it finds shipped
SimulateDeliveryIfShipped(h, o) ==
    /\ req[h] = Idle /\ sleeping[o] > 0
    /\ sleeping' = [sleeping EXCEPT ![o] = @ - 1]
    /\ IF orders[o].status = "shipped" THEN Go(h, [Idle EXCEPT !.at = "deliver", !.order = o])
       ELSE UNCHANGED req
    /\ UNCHANGED <<auction, orders, isSold, txns, webhooks, ships, released, screen, crashes, ignored>>

\* SimulateDelivery reads the order and gives up on a delivered one (no code of the
\* repository cancels an order), and on one it cannot read.
SimulateDelivery(h, o) ==
    /\ req[h] = Idle /\ sleeping[o] > 0
    /\ sleeping' = [sleeping EXCEPT ![o] = @ - 1]
    /\ \/ /\ orders[o].status # "delivered"
          /\ Go(h, [Idle EXCEPT !.at = "deliver", !.order = o])
          /\ UNCHANGED ignored
       \/ orders[o].status = "delivered" /\ UNCHANGED <<req, ignored>>
       \/ UNCHANGED req /\ Ignored(o)
    /\ UNCHANGED <<auction, orders, isSold, txns, webhooks, ships, released, screen, crashes>>

ReleaseFundsToSeller(o) == released' = [released EXCEPT ![o] = @ + 1]

\* The funds are released whether or not the row was saved.
SaveDelivered(h) ==
    /\ req[h].at = "deliver"
    /\ SaveOrder(req[h].order, "delivered")
    /\ ReleaseFundsToSeller(req[h].order)
    /\ Go(h, Idle)
    /\ UNCHANGED <<auction, isSold, txns, webhooks, sleeping, ships, screen, crashes>>

\* A restart: requests are lost between their writes, and so are the sleepers.
Crash ==
    /\ crashes + Cardinality(ignored) < MaxFaults /\ crashes' = crashes + 1
    /\ req' = [h \in Handlers |-> Idle]
    /\ sleeping' = [o \in OrderId |-> 0]
    /\ screen' = IF screen.shows = "verifying" THEN [screen EXCEPT !.shows = "failed"] ELSE screen
    /\ UNCHANGED <<auction, orders, isSold, txns, webhooks, ships, released, ignored>>

HandlerStep(h) ==
    \/ \E ok \in BOOLEAN : OpenTxn(h, ok)
    \/ AskGateway(h) \/ VerifyFails(h)
    \/ SavePaid(h) \/ MarkSold(h) \/ ReplyPending(h) \/ SaveFailed(h)
    \/ SaveShipped(h) \/ SaveDelivered(h)

Next ==
    \/ \E h \in Handlers : \/ HandlerStep(h)
                           \/ \E b \in Buyers : CheckoutFixed(h, b) \/ CheckoutAuction(h, b)
                           \/ \E t \in 0..Len(txns) : OpenStatusPage(h, t)
                           \/ \E w \in webhooks : WebhookPayment(h, w)
                           \/ \E o \in DOMAIN orders : MarkOrderShipped(h, o) \/ SimulateDelivery(h, o)
    \/ \E t \in DOMAIN txns : Expire(t) \/ \E ok \in BOOLEAN : Attempt(t, ok)
    \/ Crash

-----------------------------------------------------------------------------
(* Fairness: a request that is served goes on, a goroutine wakes up after its *)
(* sleep, and the gateway delivers the webhook of a successful payment again  *)
(* until it is acknowledged, and no longer.                                   *)

EscrowFairness ==
    /\ \A h \in Handlers : WF_vars(HandlerStep(h))
    /\ \A o \in OrderId : SF_vars(\E h \in Handlers : o \in DOMAIN orders /\ SimulateDelivery(h, o))
    /\ \A t \in TxnId : SF_vars(\E h \in Handlers : \E w \in webhooks :
                                  w = [txn |-> t, says |-> "PAID"] /\ WebhookPayment(h, w))

EscrowSpec == Init /\ [][Next]_vars /\ EscrowFairness

-----------------------------------------------------------------------------
(* Properties. *)

Paid(o) == \E t \in DOMAIN txns : txns[t] = [order |-> o, status |-> "PAID"]

\* Nothing without a payment: an order is never in escrow, shipped or delivered,
\* and its funds never released, unless the gateway holds a payment for it.
FundsBacked ==
    \A o \in DOMAIN orders :
      orders[o].status \in {"paid_in_escrow", "shipped", "delivered"} \/ released[o] > 0 => Paid(o)

\* The buyer is told of a success only if her own payment was made.
SuccessIsPaid == screen.shows = "success" => txns[screen.txn].status = "PAID"

InEscrow(o) == Status(o) \in {"paid_in_escrow", "shipped", "delivered"}

\* What was paid gets into escrow and its listing is sold, though the buyer never
\* returns to the page, a failed attempt is saved first, or a restart falls between
\* the two writes: by the webhook, unless an error of the database is ignored on the
\* way. It need not stay there: a failure that is reported late fails it for good
\* (ForwardOnly), once its success is acknowledged.
PaidIsEscrowed ==
    \A o \in OrderId :
      /\ <>Paid(o) => <>(InEscrow(o) \/ o \in ignored)
      /\ Paid(o) ~> isSold \/ o \in ignored

\* What was shipped is delivered, whatever repeated webhooks and verifications do
\* to its status meanwhile, unless a restart takes the sleeper away or an error of the
\* database is ignored: the sleeper tries once.
ShippedIsDelivered ==
    \A o \in OrderId :
      Status(o) = "shipped" ~> (Status(o) = "delivered" \/ crashes > 0 \/ o \in ignored)

\* Each transfer of the funds has a shipment of its own that was accepted: a sleeper
\* wakes up once, however often it is shipped and whatever is saved or lost.
OneReleasePerShipment == \A o \in OrderId : sleeping[o] + released[o] <= ships[o]

Rank(s) ==
    CASE s = "pending_payment" -> 0 [] s = "failed" -> 0 [] s = "paid_in_escrow" -> 1
      [] s = "shipped" -> 2 [] s = "delivered" -> 3

\* The life of an order goes from pending_payment to paid_in_escrow, shipped and
\* delivered, and never back. (It does: a late report of a failed attempt fails a
\* paid order, and a repeated verification or webhook takes a delivered one back into
\* escrow, from where it is shipped and released again.)
ForwardOnly ==
    [][\A o \in DOMAIN orders : Rank(orders'[o].status) >= Rank(orders[o].status)]_vars

=============================================================================

---------------------------- MODULE Escrow_proofs ----------------------------
(* Theorems of Escrow, for any number of buyers, requests at a time, orders,  *)
(* payments, shipments and restarts: whatever reads, calls and whole-row      *)
(* saves interleave, nothing gets ahead of its payment.                       *)
EXTENDS Escrow, FiniteSetTheorems, TLAPS

USE EscrowAssumption

OrderRow == [buyer : Buyers, status : OrderStatus]
Payment  == [order : Nat, status : {"ACTIVE", "PAID", "EXPIRED"}]
Webhook  == [txn : Nat, says : {"PAID", "FAILED"}]
Request  == [at : {"idle", "checkout", "verify", "answered", "sell", "ship", "deliver"},
             order : Nat, txn : Nat, says : {"ACTIVE", "PAID", "FAILED"}, page : BOOLEAN, hook : BOOLEAN]
Screen   == [txn : Nat, shows : Views \cup {"nothing"}]

\* The request that serves a webhook.
Taken(w) == [at |-> "answered", order |-> txns[w.txn].order, txn |-> w.txn, says |-> w.says,
             page |-> FALSE, hook |-> TRUE]

\* The type invariant without the model's bounds on counters.
Shape ==
    /\ orders \in Seq(OrderRow) /\ Len(orders) <= MaxOrders
    /\ txns \in Seq(Payment)
    /\ webhooks \subseteq Webhook
    /\ req \in [Handlers -> Request]
    /\ sleeping \in [OrderId -> Nat] /\ ships \in [OrderId -> Nat]
    /\ released \in [OrderId -> Nat]
    /\ screen \in Screen

\* Payments and webhooks refer to what exists, and a webhook tells the truth.
Links ==
    /\ \A t \in DOMAIN txns : txns[t].order \in DOMAIN orders
    /\ \A w \in webhooks :
         w.txn \in DOMAIN txns /\ (w.says = "PAID" => txns[w.txn].status = "PAID")

\* A request that has its verdict, and is about to move an order on.
Convinced(r) == r.at \in {"sell", "ship", "deliver"} \/ (r.at = "answered" /\ r.says = "PAID")

\* A request works on an order there is, and is convinced only with a payment for it.
SoundWith(r, os, ts) ==
    /\ r.at # "idle" => r.order \in DOMAIN os
    /\ r.at = "verify" => r.txn \in DOMAIN ts /\ ts[r.txn].order = r.order
    /\ Convinced(r) => \E t \in DOMAIN ts : ts[t] = [order |-> r.order, status |-> "PAID"]

Sound(r) == SoundWith(r, orders, txns)

Requests == \A k \in Handlers : Sound(req[k])

\* What was shipped or released had been paid for.
Shipments == \A o \in OrderId : sleeping[o] > 0 \/ released[o] > 0 => Paid(o)

\* The request a page waits for is about the payment in the page's address.
Awaited(r) ==
    r.page => /\ r.at \in {"verify", "answered", "sell"}
              /\ r.txn = screen.txn /\ screen.txn \in DOMAIN txns
              /\ Convinced(r) => txns[screen.txn].status = "PAID"

PageAsks ==
    /\ screen.shows = "success" => screen.txn \in DOMAIN txns
    /\ \A k \in Handlers : Awaited(req[k])

\* The requests that are about to save an order as shipped or delivered.
Doing(a, o) == {k \in Handlers : req[k].at = a /\ req[k].order = o}

\* A shipment is accepted once, and sleeps, is delivered or has been, once at most.
Flow ==
    \A o \in OrderId :
      /\ ships[o] + Cardinality(Doing("ship", o)) <= MaxShips
      /\ sleeping[o] + Cardinality(Doing("deliver", o)) + released[o] <= ships[o]

\* The bounds of the other counters.
Bounds ==
    /\ auction \in BOOLEAN /\ isSold \in BOOLEAN
    /\ Len(txns) <= MaxTxns /\ screen.txn <= MaxTxns
    /\ \A k \in Handlers : req[k].order <= MaxOrders /\ req[k].txn <= MaxTxns
    /\ crashes \in 0..MaxFaults /\ ignored \subseteq OrderId

EscrowInv ==
    /\ Shape /\ Links /\ Requests /\ Shipments /\ FundsBacked /\ PageAsks /\ SuccessIsPaid
    /\ Flow /\ Bounds

-----------------------------------------------------------------------------
(* The shape, action by action. *)

\* The tables are empty, or hold the order of a won auction.
LEMMA InitShape == Init => Shape
<1> SUFFICES ASSUME Init PROVE Shape
  OBVIOUS
<1>1. orders \in Seq(OrderRow) /\ Len(orders) <= MaxOrders
  <2>1. PICK b \in Buyers :
          orders = IF auction THEN <<[buyer |-> b, status |-> "pending_payment"]>> ELSE <<>>
    BY DEF Init
  <2>2. [buyer |-> b, status |-> "pending_payment"] \in OrderRow
    BY DEF OrderRow, OrderStatus
  <2>3. CASE auction
    BY <2>1, <2>2, <2>3
  <2>4. CASE ~auction
    BY <2>1, <2>4
  <2> QED
    BY <2>3, <2>4
<1>2. req \in [Handlers -> Request] /\ screen \in Screen
  BY DEF Init, Request, Idle, Screen, Views
<1> QED
  BY <1>1, <1>2 DEF Init, Shape, OrderId

\* One element of a sequence is replaced.
LEMMA ReplaceOne ==
  ASSUME NEW S, NEW s \in Seq(S), NEW i \in DOMAIN s, NEW e \in S
  PROVE  /\ [s EXCEPT ![i] = e] \in Seq(S)
         /\ Len([s EXCEPT ![i] = e]) = Len(s)
         /\ DOMAIN [s EXCEPT ![i] = e] = DOMAIN s
  OBVIOUS

\* A sequence is one over any set its elements are in.
LEMMA NarrowerSeq ==
  ASSUME NEW S, NEW T, NEW s \in Seq(S), \A i \in DOMAIN s : s[i] \in T
  PROVE  s \in Seq(T)
<1>1. s = [i \in 1..Len(s) |-> s[i]] /\ Len(s) \in Nat /\ \A i \in 1..Len(s) : s[i] \in T
  OBVIOUS
<1>2. [i \in 1..Len(s) |-> s[i]] \in Seq(T)
  BY <1>1
<1> QED
  BY <1>1, <1>2

\* The ids of the orders there are.
LEMMA OrderIds ==
  ASSUME Shape
  PROVE  /\ DOMAIN orders = 1..Len(orders) /\ Len(orders) \in Nat
         /\ DOMAIN orders \subseteq OrderId
         /\ DOMAIN orders \subseteq Nat
  BY DEF Shape, OrderId

\* A handler goes on with another request.
LEMMA GoShape ==
  ASSUME Shape, NEW h \in Handlers, NEW r \in Request, Go(h, r)
  PROVE  req' \in [Handlers -> Request]
  BY DEF Shape, Go

\* An idle handler takes up an order.
LEMMA TakesUpOrder ==
  ASSUME NEW a \in {"checkout", "ship", "deliver"}, NEW o \in Nat
  PROVE  [Idle EXCEPT !.at = a, !.order = o] \in Request
<1> DEFINE i == [Idle EXCEPT !.at = a]
<1>1. i \in Request
  BY DEF Idle, Request
<1>2. [i EXCEPT !.order = o] \in Request
  BY <1>1 DEF Request
<1> QED
  BY <1>2

\* SetStatus keeps the table and its buyers.
LEMMA SetStatusShape ==
  ASSUME Shape, NEW o \in DOMAIN orders, NEW s \in OrderStatus, SetStatus(o, s)
  PROVE  /\ orders' \in Seq(OrderRow) /\ Len(orders') = Len(orders)
         /\ DOMAIN orders' = DOMAIN orders
         /\ \A p \in DOMAIN orders : p # o => orders'[p] = orders[p]
<1> DEFINE row == [orders[o] EXCEPT !.status = s]
<1>1. orders \in Seq(OrderRow)
  BY DEF Shape
<1>2. orders[o] \in OrderRow
  BY <1>1
<1>3. row \in OrderRow
  BY <1>2 DEF OrderRow
<1>4. orders' = [orders EXCEPT ![o] = row]
  BY DEF SetStatus
<1> HIDE DEF row
<1>5. /\ orders' \in Seq(OrderRow) /\ Len(orders') = Len(orders)
      /\ DOMAIN orders' = DOMAIN orders
  BY <1>1, <1>3, <1>4, ReplaceOne
<1> QED
  BY <1>1, <1>4, <1>5

\* So does SaveOrder, saved or not.
LEMMA SaveOrderShape ==
  ASSUME Shape, NEW o \in DOMAIN orders, NEW s \in OrderStatus, SaveOrder(o, s)
  PROVE  /\ orders' \in Seq(OrderRow) /\ Len(orders') = Len(orders)
         /\ DOMAIN orders' = DOMAIN orders
         /\ \A p \in DOMAIN orders : p # o => orders'[p] = orders[p]
         /\ orders'[o] = orders[o] \/ orders'[o].status = s
<1>1. CASE UNCHANGED orders
  BY <1>1 DEF Shape
<1>2. CASE SetStatus(o, s)
  <2>1. orders[o] \in OrderRow
    BY DEF Shape
  <2>2. orders'[o].status = s
    BY <1>2, <2>1 DEF SetStatus, Shape, OrderRow
  <2> QED
    BY <1>2, <2>2, SetStatusShape
<1> QED
  BY <1>1, <1>2 DEF SaveOrder

\* A reply changes what the page shows, and takes a webhook away.
LEMMA ReplyShape ==
  ASSUME Shape, NEW h \in Handlers, NEW v \in Views, Reply(h, v)
  PROVE  screen' \in Screen /\ webhooks' \subseteq Webhook
  BY DEF Shape, Reply, Acknowledge, Screen

\* Every action keeps the shape of the tables, of the requests and of the page.
LEMMA StepShape ==
  ASSUME Shape, Links, Requests, [Next]_vars
  PROVE  Shape'
<1>1. ASSUME NEW h \in Handlers, NEW b \in Buyers, CheckoutFixed(h, b)
      PROVE  Shape'
  <2>1. orders' \in Seq(OrderRow) /\ Len(orders') <= MaxOrders
    BY <1>1 DEF Shape, CheckoutFixed, OrderRow, OrderStatus
  <2>2. req' \in [Handlers -> Request]
    <3> DEFINE o == Len(orders) + 1
    <3>2. o \in Nat
      BY OrderIds
    <3> HIDE DEF o
    <3>1. [Idle EXCEPT !.at = "checkout", !.order = o] \in Request
      BY <3>2, TakesUpOrder
    <3> QED
      BY <1>1, <3>1, GoShape DEF CheckoutFixed, o
  <2> QED
    BY <1>1, <2>1, <2>2 DEF Shape, CheckoutFixed
<1>2. ASSUME NEW h \in Handlers, NEW b \in Buyers, CheckoutAuction(h, b)
      PROVE  Shape'
  <2>1. req' \in [Handlers -> Request]
    <3>1. PICK o \in DOMAIN orders : Go(h, [Idle EXCEPT !.at = "checkout", !.order = o])
      BY <1>2 DEF CheckoutAuction
    <3>2. [Idle EXCEPT !.at = "checkout", !.order = o] \in Request
      BY OrderIds, TakesUpOrder
    <3> QED
      BY <3>1, <3>2, GoShape
  <2> QED
    BY <1>2, <2>1 DEF Shape, CheckoutAuction
<1>3. ASSUME NEW h \in Handlers, NEW ok \in BOOLEAN, OpenTxn(h, ok)
      PROVE  Shape'
  <2>1. txns' \in Seq(Payment)
    <3>1. req[h].order \in Nat
      BY DEF Shape, Request
    <3>2. [order |-> req[h].order, status |-> "ACTIVE"] \in Payment
      BY <3>1 DEF Payment
    <3> QED
      BY <1>3, <3>2 DEF Shape, OpenTxn
  <2>2. req' \in [Handlers -> Request]
    BY <1>3 DEF Shape, OpenTxn, Go, Idle, Request
  <2> QED
    BY <1>3, <2>1, <2>2 DEF Shape, OpenTxn
<1>4. ASSUME NEW t \in DOMAIN txns, NEW ok \in BOOLEAN, Attempt(t, ok)
      PROVE  Shape'
  <2>1. txns' \in Seq(Payment)
    <3>1. txns \in Seq(Payment) /\ txns[t] \in Payment
      BY DEF Shape
    <3>2. [txns[t] EXCEPT !.status = "PAID"] \in Payment
      BY <3>1 DEF Payment
    <3> QED
      BY <1>4, <3>1, <3>2, ReplaceOne DEF Attempt
  <2>2. webhooks' \subseteq Webhook
    BY <1>4 DEF Shape, Attempt, Webhook
  <2> QED
    BY <1>4, <2>1, <2>2 DEF Shape, Attempt
<1>5. ASSUME NEW t \in DOMAIN txns, Expire(t)
      PROVE  Shape'
  <2>1. txns' \in Seq(Payment)
    <3>1. txns \in Seq(Payment) /\ txns[t] \in Payment
      BY DEF Shape
    <3>2. [txns[t] EXCEPT !.status = "EXPIRED"] \in Payment
      BY <3>1 DEF Payment
    <3> QED
      BY <1>5, <3>1, <3>2, ReplaceOne DEF Expire
  <2> QED
    BY <1>5, <2>1 DEF Shape, Expire
<1>6. ASSUME NEW h \in Handlers, NEW t \in 0..Len(txns), OpenStatusPage(h, t)
      PROVE  Shape'
  <2>1. screen' \in Screen
    BY <1>6 DEF OpenStatusPage, Screen, Views, Shape
  <2>2. req' \in [Handlers -> Request]
    <3>1. [k \in Handlers |-> [req[k] EXCEPT !.page = FALSE]] \in [Handlers -> Request]
      BY DEF Shape, Request
    <3>2. CASE t = 0
      BY <1>6, <3>1, <3>2 DEF OpenStatusPage
    <3>3. CASE t # 0
      <4>1. t \in DOMAIN txns /\ txns[t].order \in Nat
        <5>1. t \in DOMAIN txns
          BY <3>3 DEF Shape
        <5>2. txns[t] \in Payment
          BY <5>1 DEF Shape
        <5> QED
          BY <5>1, <5>2 DEF Payment
      <4>2. [at |-> "verify", order |-> txns[t].order, txn |-> t, says |-> "ACTIVE", page |-> TRUE,
             hook |-> FALSE]
              \in Request
        BY <4>1 DEF Request
      <4> QED
        BY <1>6, <3>1, <3>3, <4>2 DEF OpenStatusPage
    <3> QED
      BY <3>2, <3>3
  <2> QED
    BY <1>6, <2>1, <2>2 DEF Shape, OpenStatusPage
<1>7. ASSUME NEW h \in Handlers, AskGateway(h)
      PROVE  Shape'
  <2>1. req[h] \in Request /\ Says(req[h].txn) \in {"ACTIVE", "PAID", "FAILED"}
    BY DEF Shape, Says
  <2> PICK r : r = [req[h] EXCEPT !.at = "answered", !.says = Says(req[h].txn)]
    OBVIOUS
  <2>2. r \in Request
    BY <2>1 DEF Request
  <2>3. Go(h, r)
    BY <1>7 DEF AskGateway
  <2>4. req' \in [Handlers -> Request]
    BY <2>2, <2>3, GoShape
  <2> QED
    BY <1>7, <2>4 DEF Shape, AskGateway
<1>8. ASSUME NEW h \in Handlers, NEW w \in webhooks, WebhookPayment(h, w)
      PROVE  Shape'
  <2>1. txns[w.txn].order \in Nat /\ w.txn \in Nat /\ w.says \in {"PAID", "FAILED"}
    BY DEF Shape, Links, Payment, Webhook
  <2> PICK r : r = Taken(w)
    OBVIOUS
  <2>2. r \in Request
    BY <2>1 DEF Taken, Request
  <2>3. Go(h, r) \/ UNCHANGED req
    BY <1>8 DEF WebhookPayment, Taken
  <2>4. req' \in [Handlers -> Request]
    BY <2>2, <2>3, GoShape DEF Shape
  <2>5. webhooks' \subseteq Webhook
    BY <1>8 DEF Shape, WebhookPayment, Acknowledge
  <2> QED
    BY <1>8, <2>4, <2>5 DEF Shape, WebhookPayment
<1>9. ASSUME NEW h \in Handlers, SavePaid(h)
      PROVE  Shape'
  <2>1. req[h].order \in DOMAIN orders /\ "paid_in_escrow" \in OrderStatus
    BY <1>9 DEF Requests, Sound, SoundWith, Paid, SavePaid, OrderStatus
  <2>2. orders' \in Seq(OrderRow) /\ Len(orders') = Len(orders)
    BY <1>9, <2>1, SaveOrderShape DEF SavePaid
  <2>3. req' \in [Handlers -> Request]
    BY <1>9 DEF Shape, SavePaid, Go, Request
  <2> QED
    BY <1>9, <2>2, <2>3 DEF Shape, SavePaid
<1>10. ASSUME NEW h \in Handlers, MarkSold(h) \/ ReplyPending(h) \/ VerifyFails(h)
       PROVE  Shape'
  <2>1. req' \in [Handlers -> Request]
    <3>1. Idle \in Request
      BY DEF Idle, Request
    <3> QED
      BY <1>10, <3>1, GoShape DEF MarkSold, ReplyPending, VerifyFails
  <2>2. screen' \in Screen /\ webhooks' \subseteq Webhook
    BY <1>10, ReplyShape DEF MarkSold, ReplyPending, VerifyFails, Views
  <2> QED
    BY <1>10, <2>1, <2>2 DEF Shape, MarkSold, ReplyPending, VerifyFails
<1>11. ASSUME NEW h \in Handlers, SaveFailed(h)
       PROVE  Shape'
  <2>1. req[h].order \in DOMAIN orders /\ "failed" \in OrderStatus
    BY <1>11 DEF Requests, Sound, SoundWith, Paid, SaveFailed, OrderStatus
  <2>2. orders' \in Seq(OrderRow) /\ Len(orders') = Len(orders)
    BY <1>11, <2>1, SaveOrderShape DEF SaveFailed
  <2>3. req' \in [Handlers -> Request]
    BY <1>11 DEF Shape, SaveFailed, Go, Idle, Request
  <2>4. screen' \in Screen /\ webhooks' \subseteq Webhook
    BY <1>11, ReplyShape DEF SaveFailed, Views
  <2> QED
    BY <1>11, <2>2, <2>3, <2>4 DEF Shape, SaveFailed
<1>12. ASSUME NEW h \in Handlers, NEW o \in DOMAIN orders,
              MarkOrderShipped(h, o) \/ SimulateDelivery(h, o)
       PROVE  Shape'
  <2>1. req' \in [Handlers -> Request]
    <3>1. /\ [Idle EXCEPT !.at = "ship", !.order = o] \in Request
          /\ [Idle EXCEPT !.at = "deliver", !.order = o] \in Request
      BY OrderIds, TakesUpOrder
    <3> QED
      BY <1>12, <3>1, GoShape DEF MarkOrderShipped, SimulateDelivery, Shape
  <2>2. sleeping' \in [OrderId -> Nat]
    BY <1>12 DEF Shape, MarkOrderShipped, SimulateDelivery, OrderId
  <2> QED
    BY <1>12, <2>1, <2>2 DEF Shape, MarkOrderShipped, SimulateDelivery
<1>13. ASSUME NEW h \in Handlers, SaveShipped(h)
       PROVE  Shape'
  <2>1. req[h].order \in DOMAIN orders /\ "shipped" \in OrderStatus
    BY <1>13 DEF Requests, Sound, SoundWith, Paid, SaveShipped, OrderStatus
  <2>2. orders' \in Seq(OrderRow) /\ Len(orders') = Len(orders)
    BY <1>13, <2>1, SaveOrderShape DEF SaveShipped
  <2>3. req' \in [Handlers -> Request]
    BY <1>13 DEF Shape, SaveShipped, Go, Idle, Request
  <2>4. sleeping' \in [OrderId -> Nat] /\ ships' \in [OrderId -> Nat]
    <3>1. req[h].order \in OrderId
      BY <2>1, OrderIds
    <3> QED
      BY <1>13, <3>1 DEF Shape, SaveShipped
  <2> QED
    BY <1>13, <2>2, <2>3, <2>4 DEF Shape, SaveShipped
<1>14. ASSUME NEW h \in Handlers, SaveDelivered(h)
       PROVE  Shape'
  <2>1. req[h].order \in DOMAIN orders /\ "delivered" \in OrderStatus
    BY <1>14 DEF Requests, Sound, SoundWith, Paid, SaveDelivered, OrderStatus
  <2>2. orders' \in Seq(OrderRow) /\ Len(orders') = Len(orders)
    BY <1>14, <2>1, SaveOrderShape DEF SaveDelivered
  <2>3. req' \in [Handlers -> Request]
    BY <1>14 DEF Shape, SaveDelivered, Go, Idle, Request
  <2>4. released' \in [OrderId -> Nat]
    <3>1. req[h].order \in OrderId
      BY <2>1, OrderIds
    <3> QED
      BY <1>14, <3>1 DEF Shape, SaveDelivered, ReleaseFundsToSeller
  <2> QED
    BY <1>14, <2>2, <2>3, <2>4 DEF Shape, SaveDelivered
<1>15. CASE Crash
  BY <1>15 DEF Shape, Crash, Idle, Request, Screen, Views
<1>16. CASE UNCHANGED vars
  BY <1>16 DEF Shape, vars
<1> QED
  BY <1>1, <1>2, <1>3, <1>4, <1>5, <1>6, <1>7, <1>8, <1>9, <1>10, <1>11, <1>12, <1>13,
     <1>14, <1>15, <1>16 DEF Next, HandlerStep

-----------------------------------------------------------------------------
(* What a step can do to the payments, the orders and the screen. *)

\* Only a checkout, an attempt and an expiry touch the payments; webhooks come from
\* attempts, and go when they are acknowledged.
LEMMA TxnsEffect ==
  ASSUME [Next]_vars
  PROVE  \/ UNCHANGED txns /\ webhooks' \subseteq webhooks
         \/ \E h \in Handlers, ok \in BOOLEAN : OpenTxn(h, ok)
         \/ \E t \in DOMAIN txns : Expire(t) \/ \E ok \in BOOLEAN : Attempt(t, ok)
  BY DEF Next, vars, HandlerStep, CheckoutFixed, CheckoutAuction, OpenStatusPage, AskGateway,
         WebhookPayment, SavePaid, MarkSold, ReplyPending, SaveFailed, VerifyFails,
         MarkOrderShipped, SaveShipped, SimulateDelivery, SaveDelivered, Crash, Reply, Acknowledge

\* Only a checkout and the four saves touch the orders table.
LEMMA OrdersEffect ==
  ASSUME [Next]_vars
  PROVE  \/ UNCHANGED orders
         \/ \E h \in Handlers, b \in Buyers : CheckoutFixed(h, b)
         \/ \E h \in Handlers : SavePaid(h) \/ SaveFailed(h) \/ SaveShipped(h) \/ SaveDelivered(h)
  BY DEF Next, vars, HandlerStep, CheckoutAuction, OpenTxn, Attempt, Expire, OpenStatusPage,
         AskGateway, WebhookPayment, MarkSold, ReplyPending, VerifyFails, MarkOrderShipped,
         SimulateDelivery, Crash

\* Only shipping, delivery and a restart touch the sleepers and the funds.
LEMMA ShipmentsEffect ==
  ASSUME [Next]_vars
  PROVE  \/ UNCHANGED <<sleeping, released>>
         \/ \E h \in Handlers, o \in DOMAIN orders : SimulateDelivery(h, o)
         \/ \E h \in Handlers : SaveShipped(h) \/ SaveDelivered(h)
         \/ Crash
  BY DEF Next, vars, HandlerStep, CheckoutFixed, CheckoutAuction, OpenTxn, Attempt, Expire,
         OpenStatusPage, AskGateway, WebhookPayment, SavePaid, MarkSold, ReplyPending, SaveFailed,
         VerifyFails, MarkOrderShipped

\* No payment is forgotten or taken back.
LEMMA PaymentsStay ==
  ASSUME Shape, [Next]_vars, NEW t \in DOMAIN txns
  PROVE  /\ t \in DOMAIN txns' /\ txns'[t].order = txns[t].order
         /\ txns[t].status = "PAID" => txns'[t] = txns[t]
<1>0. txns \in Seq(Payment) /\ DOMAIN txns = 1..Len(txns) /\ Len(txns) \in Nat
  BY DEF Shape
<1>1. CASE UNCHANGED txns
  BY <1>1
<1>2. ASSUME NEW h \in Handlers, NEW ok \in BOOLEAN, OpenTxn(h, ok)
      PROVE  /\ t \in DOMAIN txns' /\ txns'[t] = txns[t]
  BY <1>0, <1>2 DEF OpenTxn
<1>3. ASSUME NEW s \in DOMAIN txns, NEW v \in {"PAID", "EXPIRED"}, txns[s].status = "ACTIVE",
             txns' = [txns EXCEPT ![s].status = v]
      PROVE  /\ t \in DOMAIN txns' /\ txns'[t].order = txns[t].order
             /\ txns[t].status = "PAID" => txns'[t] = txns[t]
  <2>1. txns[t] \in Payment
    BY <1>0
  <2> QED
    BY <1>0, <1>3, <2>1 DEF Payment
<1>4. ASSUME NEW s \in DOMAIN txns, Expire(s) \/ \E ok \in BOOLEAN : Attempt(s, ok)
      PROVE  /\ t \in DOMAIN txns' /\ txns'[t].order = txns[t].order
             /\ txns[t].status = "PAID" => txns'[t] = txns[t]
  BY <1>3, <1>4 DEF Expire, Attempt
<1> QED
  BY <1>1, <1>2, <1>4, TxnsEffect

\* What is paid stays paid.
LEMMA PaidStays ==
  ASSUME Shape, [Next]_vars, NEW o, Paid(o)
  PROVE  Paid(o)'
  BY PaymentsStay DEF Paid

\* No order is forgotten; its status is another only if a convinced request saves it,
\* or one that was told of a failure.
LEMMA OrdersStay ==
  ASSUME Shape, Requests, [Next]_vars, NEW o \in DOMAIN orders
  PROVE  /\ o \in DOMAIN orders'
         /\ orders'[o] = orders[o] \/ orders'[o].status = "failed" \/ Paid(o)
<1>1. CASE UNCHANGED orders
  BY <1>1
<1>2. ASSUME NEW h \in Handlers, NEW b \in Buyers, CheckoutFixed(h, b)
      PROVE  o \in DOMAIN orders' /\ orders'[o] = orders[o]
  BY <1>2 DEF CheckoutFixed, Shape
<1>3. ASSUME NEW h \in Handlers, NEW s \in OrderStatus, SaveOrder(req[h].order, s),
             req[h].at # "idle", s = "failed" \/ Convinced(req[h])
      PROVE  /\ o \in DOMAIN orders'
             /\ orders'[o] = orders[o] \/ orders'[o].status = "failed" \/ Paid(o)
  <2>1. req[h].order \in DOMAIN orders /\ (Convinced(req[h]) => Paid(req[h].order))
    BY <1>3 DEF Requests, Sound, SoundWith, Paid
  <2>2. /\ DOMAIN orders' = DOMAIN orders
        /\ \A p \in DOMAIN orders : p # req[h].order => orders'[p] = orders[p]
        /\ \/ orders'[req[h].order] = orders[req[h].order]
           \/ orders'[req[h].order].status = s
    BY <1>3, <2>1, SaveOrderShape
  <2> QED
    BY <1>3, <2>1, <2>2
<1>4. ASSUME NEW h \in Handlers, SavePaid(h) \/ SaveFailed(h) \/ SaveShipped(h) \/ SaveDelivered(h)
      PROVE  /\ o \in DOMAIN orders'
             /\ orders'[o] = orders[o] \/ orders'[o].status = "failed" \/ Paid(o)
  BY <1>3, <1>4 DEF SavePaid, SaveFailed, SaveShipped, SaveDelivered, Convinced, OrderStatus
<1> QED
  BY <1>1, <1>2, <1>4, OrdersEffect

-----------------------------------------------------------------------------
(* The parts of the invariant. *)

\* Rows are never removed, so what refers to them keeps its meaning.
LEMMA StepLinks ==
  ASSUME Shape, Links, Requests, [Next]_vars
  PROVE  Links'
<1>1. DOMAIN orders \subseteq DOMAIN orders'
  BY OrdersStay
<1>2. ASSUME NEW t \in DOMAIN txns'
      PROVE  txns'[t].order \in DOMAIN orders'
  <2>1. CASE t \in DOMAIN txns
    BY <1>1, <2>1, PaymentsStay DEF Links
  <2>2. CASE t \notin DOMAIN txns
    <3>1. PICK h \in Handlers, ok \in BOOLEAN : OpenTxn(h, ok)
      BY <2>2, TxnsEffect DEF Expire, Attempt, Shape
    <3>2. t = Len(txns) + 1 /\ txns'[t].order = req[h].order
      BY <2>2, <3>1 DEF OpenTxn, Shape
    <3>3. req[h].order \in DOMAIN orders
      BY <3>1 DEF OpenTxn, Requests, Sound, SoundWith
    <3> QED
      BY <1>1, <3>2, <3>3
  <2> QED
    BY <2>1, <2>2
<1>3. ASSUME NEW w \in webhooks'
      PROVE  w.txn \in DOMAIN txns' /\ (w.says = "PAID" => txns'[w.txn].status = "PAID")
  <2>1. CASE w \in webhooks
    BY <2>1, PaymentsStay DEF Links
  <2>2. CASE w \notin webhooks
    <3>1. PICK t \in DOMAIN txns, ok \in BOOLEAN : Attempt(t, ok)
      BY <2>2, TxnsEffect DEF Expire, OpenTxn
    <3>2. w = [txn |-> t, says |-> IF ok THEN "PAID" ELSE "FAILED"]
      BY <2>2, <3>1 DEF Attempt
    <3>3. CASE ok
      <4>1. txns[t] \in Payment /\ txns' = [txns EXCEPT ![t].status = "PAID"]
        BY <3>1, <3>3 DEF Attempt, Shape
      <4> QED
        BY <3>2, <3>3, <4>1 DEF Payment, Shape
    <3>4. CASE ~ok
      BY <3>1, <3>2, <3>4 DEF Attempt
    <3> QED
      BY <3>3, <3>4
  <2> QED
    BY <2>1, <2>2
<1> QED
  BY <1>2, <1>3 DEF Links

\* A sound request stays sound while others move: what it has seen is not undone.
LEMMA SoundStays ==
  ASSUME Shape, Requests, [Next]_vars, NEW r, SoundWith(r, orders, txns)
  PROVE  SoundWith(r, orders', txns')
<1>1. r.order \in DOMAIN orders => r.order \in DOMAIN orders'
  BY OrdersStay
<1>2. r.txn \in DOMAIN txns => r.txn \in DOMAIN txns' /\ txns'[r.txn].order = txns[r.txn].order
  BY PaymentsStay
<1>3. ASSUME NEW t \in DOMAIN txns, txns[t] = [order |-> r.order, status |-> "PAID"]
      PROVE  t \in DOMAIN txns' /\ txns'[t] = txns[t]
  BY <1>3, PaymentsStay
<1> QED
  BY <1>1, <1>2, <1>3 DEF SoundWith

\* One handler goes on with a sound request, the others stay as they are.
LEMMA GoSound ==
  ASSUME Shape, Requests, [Next]_vars, NEW h \in Handlers, NEW r,
         SoundWith(r, orders', txns'), Go(h, r)
  PROVE  Requests'
<1>1. ASSUME NEW k \in Handlers
      PROVE  SoundWith(req'[k], orders', txns')
  <2>1. CASE k = h
    BY <2>1 DEF Go, Shape
  <2>2. CASE k # h
    <3>1. req'[k] = req[k] /\ SoundWith(req[k], orders, txns)
      BY <2>2 DEF Go, Shape, Requests, Sound
    <3> QED
      BY <3>1, SoundStays
  <2> QED
    BY <2>1, <2>2
<1> QED
  BY <1>1 DEF Requests, Sound

\* A handler that does nothing claims nothing.
LEMMA IdleIsSound == \A os, ts : SoundWith(Idle, os, ts)
  BY DEF SoundWith, Idle, Convinced

\* Every request gets its evidence where it gets its order: from the gateway's answer,
\* from a webhook, or from an order that was moved on before.
LEMMA StepRequests ==
  ASSUME Shape, Links, Requests, Shipments, FundsBacked, [Next]_vars
  PROVE  Requests'
<1> USE DEF SoundWith, Convinced
<1>a. \A k \in Handlers : req[k] \in Request /\ SoundWith(req[k], orders, txns)
  BY DEF Shape, Requests, Sound
<1>b. \A t \in DOMAIN txns : txns[t] \in Payment
  BY DEF Shape
<1>1. ASSUME NEW h \in Handlers, NEW b \in Buyers, CheckoutFixed(h, b)
      PROVE  Requests'
  <2> DEFINE r == [Idle EXCEPT !.at = "checkout", !.order = Len(orders) + 1]
  <2>1. SoundWith(r, orders', txns')
    BY <1>1 DEF CheckoutFixed, Idle, Shape
  <2> QED
    BY <1>1, <2>1, GoSound DEF CheckoutFixed
<1>2. ASSUME NEW h \in Handlers, NEW r, SoundWith(r, orders, txns), Go(h, r)
      PROVE  Requests'
  BY <1>2, SoundStays, GoSound
<1>3. ASSUME NEW h \in Handlers, Go(h, Idle)
      PROVE  Requests'
  BY <1>2, <1>3, IdleIsSound
<1>4. ASSUME NEW h \in Handlers, NEW b \in Buyers, CheckoutAuction(h, b)
      PROVE  Requests'
  <2>1. PICK o \in DOMAIN orders : Go(h, [Idle EXCEPT !.at = "checkout", !.order = o])
    BY <1>4 DEF CheckoutAuction
  <2>2. SoundWith([Idle EXCEPT !.at = "checkout", !.order = o], orders, txns)
    BY DEF Idle
  <2> QED
    BY <1>2, <2>1, <2>2
<1>5. ASSUME NEW h \in Handlers, NEW t \in 0..Len(txns), OpenStatusPage(h, t)
      PROVE  Requests'
  <2>1. ASSUME NEW k \in Handlers
        PROVE  SoundWith(req'[k], orders', txns')
    <3>1. CASE req'[k] = [req[k] EXCEPT !.page = FALSE]
      <4>1. SoundWith(req'[k], orders, txns)
        BY <1>a, <3>1 DEF Request
      <4> QED
        BY <4>1, SoundStays
    <3>2. CASE t # 0 /\ k = h /\ req'[k] = [at |-> "verify", order |-> txns[t].order, txn |-> t,
                                            says |-> "ACTIVE", page |-> TRUE,
                                            hook |-> FALSE]
      <4>1. t \in DOMAIN txns
        BY <3>2 DEF Shape
      <4>2. SoundWith(req'[k], orders, txns)
        BY <3>2, <4>1 DEF Links
      <4> QED
        BY <4>2, SoundStays
    <3> QED
      BY <1>5, <3>1, <3>2 DEF OpenStatusPage
  <2> QED
    BY <2>1 DEF Requests, Sound
<1>6. ASSUME NEW h \in Handlers, AskGateway(h)
      PROVE  Requests'
  <2> DEFINE r == [req[h] EXCEPT !.at = "answered", !.says = Says(req[h].txn)]
  <2>1. /\ req[h].order \in DOMAIN orders
        /\ req[h].txn \in DOMAIN txns /\ txns[req[h].txn].order = req[h].order
    BY <1>6, <1>a DEF AskGateway
  <2>2. r.at = "answered" /\ r.order = req[h].order /\ r.says = Says(req[h].txn)
    BY <1>a DEF Request
  <2>3. r.says = "PAID" => txns[req[h].txn] = [order |-> r.order, status |-> "PAID"]
    BY <1>b, <2>1, <2>2 DEF Says, Payment
  <2>4. SoundWith(r, orders, txns)
    BY <2>1, <2>2, <2>3
  <2> QED
    BY <1>2, <1>6, <2>4 DEF AskGateway
<1>7. ASSUME NEW h \in Handlers, NEW w \in webhooks, WebhookPayment(h, w)
      PROVE  Requests'
  <2> PICK r : r = Taken(w)
    OBVIOUS
  <2>1. /\ w.txn \in DOMAIN txns /\ txns[w.txn].order \in DOMAIN orders
        /\ w.says = "PAID" => txns[w.txn].status = "PAID"
    BY DEF Links
  <2>2. r.at = "answered" /\ r.order = txns[w.txn].order /\ r.says = w.says
    BY DEF Taken
  <2>3. r.says = "PAID" => txns[w.txn] = [order |-> r.order, status |-> "PAID"]
    BY <1>b, <2>1, <2>2 DEF Payment
  <2>4. SoundWith(r, orders, txns)
    BY <2>1, <2>2, <2>3
  <2>5. CASE Go(h, r)
    BY <1>2, <2>4, <2>5
  <2>6. CASE UNCHANGED req
    BY <1>a, <2>6, SoundStays DEF Requests, Sound
  <2> QED
    BY <1>7, <2>5, <2>6 DEF WebhookPayment, Taken
<1>8. ASSUME NEW h \in Handlers, SavePaid(h)
      PROVE  Requests'
  <2> DEFINE r == [req[h] EXCEPT !.at = "sell"]
  <2>1. SoundWith(r, orders, txns)
    BY <1>8, <1>a DEF SavePaid, Request
  <2> QED
    BY <1>2, <1>8, <2>1 DEF SavePaid
<1>9. ASSUME NEW h \in Handlers, NEW o \in DOMAIN orders,
             MarkOrderShipped(h, o) \/ SimulateDelivery(h, o)
      PROVE  Requests'
  <2>1. ASSUME NEW a \in {"ship", "deliver"}, Paid(o)
        PROVE  SoundWith([Idle EXCEPT !.at = a, !.order = o], orders, txns)
    BY <2>1 DEF Idle, Paid
  <2>2. MarkOrderShipped(h, o) => Paid(o)
    BY DEF MarkOrderShipped, FundsBacked
  <2>3. SimulateDelivery(h, o) => Paid(o)
    BY OrderIds DEF SimulateDelivery, Shipments
  <2>4. CASE req' = req
    BY <1>a, <2>4, SoundStays DEF Requests, Sound
  <2> QED
    BY <1>2, <1>9, <2>1, <2>2, <2>3, <2>4 DEF MarkOrderShipped, SimulateDelivery
<1>10. CASE Crash
  BY <1>10, IdleIsSound DEF Crash, Requests, Sound
<1>11. CASE UNCHANGED req
  BY <1>a, <1>11, SoundStays DEF Requests, Sound
<1> QED
  <2>1. ASSUME NEW h \in Handlers, HandlerStep(h)
        PROVE  Requests'
    BY <1>3, <1>6, <1>8, <2>1 DEF HandlerStep, OpenTxn, VerifyFails, MarkSold, ReplyPending,
         SaveFailed, SaveShipped, SaveDelivered
  <2> QED
    BY <1>1, <1>4, <1>5, <1>7, <1>9, <1>10, <1>11, <2>1 DEF Next, Attempt, Expire, vars

\* Sleepers and releases come from convinced requests only.
LEMMA StepShipments ==
  ASSUME Shape, Requests, Shipments, [Next]_vars
  PROVE  Shipments'
<1> SUFFICES ASSUME NEW o \in OrderId, sleeping'[o] > 0 \/ released'[o] > 0
             PROVE  Paid(o)
  BY PaidStays DEF Shipments
<1>1. CASE sleeping[o] > 0 \/ released[o] > 0
  BY <1>1 DEF Shipments
<1>2. CASE sleeping[o] = 0 /\ released[o] = 0
  <2>1. ASSUME NEW h \in Handlers, NEW p \in DOMAIN orders, SimulateDelivery(h, p)
        PROVE  sleeping'[o] = 0 /\ released'[o] = 0
    BY <1>2, <2>1, OrderIds DEF SimulateDelivery, Shape
  <2>2. Crash => sleeping'[o] = 0 /\ released'[o] = 0
    BY <1>2 DEF Crash
  <2>3. PICK h \in Handlers : SaveShipped(h) \/ SaveDelivered(h)
    BY <1>2, <2>1, <2>2, ShipmentsEffect
  <2>4. req[h].order = o
    BY <1>2, <2>3 DEF SaveShipped, SaveDelivered, ReleaseFundsToSeller, Shape
  <2> QED
    BY <2>3, <2>4 DEF SaveShipped, SaveDelivered, Requests, Sound, SoundWith, Convinced, Paid
<1> QED
  BY <1>1, <1>2 DEF Shape

\* A save of an old row cannot make an unpaid order look paid, only the reverse.
LEMMA StepFundsBacked ==
  ASSUME Shape, Requests, Shipments, FundsBacked, [Next]_vars
  PROVE  FundsBacked'
<1> SUFFICES ASSUME NEW o \in DOMAIN orders',
                    orders'[o].status \in {"paid_in_escrow", "shipped", "delivered"}
                      \/ released'[o] > 0
             PROVE  Paid(o)'
  BY DEF FundsBacked
<1>1. CASE o \in DOMAIN orders
  <2>1. CASE released'[o] > 0
    BY <1>1, <2>1, StepShipments, OrderIds DEF Shipments
  <2>2. CASE orders'[o].status \in {"paid_in_escrow", "shipped", "delivered"}
    <3>1. Paid(o)
      BY <1>1, <2>2, OrdersStay DEF FundsBacked
    <3> QED
      BY <3>1, PaidStays
  <2> QED
    BY <2>1, <2>2
<1>2. CASE o \notin DOMAIN orders
  <2>1. PICK h \in Handlers, b \in Buyers : CheckoutFixed(h, b)
    <3>1. ASSUME NEW h \in Handlers,
                 SavePaid(h) \/ SaveFailed(h) \/ SaveShipped(h) \/ SaveDelivered(h)
          PROVE  DOMAIN orders' = DOMAIN orders
      BY <3>1 DEF SavePaid, SaveFailed, SaveShipped, SaveDelivered, SaveOrder, SetStatus, Shape
    <3> QED
      BY <1>2, <3>1, OrdersEffect
  <2>2. orders'[o].status = "pending_payment" /\ o \in OrderId /\ released' = released
    BY <1>2, <2>1 DEF CheckoutFixed, Shape, OrderId
  <2>3. Paid(o)
    BY <2>2 DEF Shipments
  <2> QED
    BY <2>3, PaidStays
<1> QED
  BY <1>1, <1>2

\* What the page waits for and shows. A reply comes only to the page that asked.
LEMMA StepPage ==
  ASSUME Shape, Requests, PageAsks, SuccessIsPaid, [Next]_vars
  PROVE  PageAsks' /\ SuccessIsPaid'
<1> USE DEF Convinced
<1>a. /\ req \in [Handlers -> Request] /\ screen \in Screen
      /\ \A t \in DOMAIN txns : /\ t \in DOMAIN txns'
                                /\ txns[t].status = "PAID" => txns'[t].status = "PAID"
  BY PaymentsStay DEF Shape
<1>b. /\ screen.shows = "success" => screen.txn \in DOMAIN txns /\ txns[screen.txn].status = "PAID"
      /\ \A k \in Handlers : req[k].page =>
           /\ req[k].at \in {"verify", "answered", "sell"}
           /\ req[k].txn = screen.txn /\ screen.txn \in DOMAIN txns
           /\ Convinced(req[k]) => txns[screen.txn].status = "PAID"
  BY DEF PageAsks, SuccessIsPaid, Awaited
\* The goal in terms of the next state's variables.
<1>c. ASSUME screen'.shows = "success" =>
               screen'.txn \in DOMAIN txns /\ txns[screen'.txn].status = "PAID",
             \A k \in Handlers : req'[k].page =>
               /\ req'[k].at \in {"verify", "answered", "sell"}
               /\ req'[k].txn = screen'.txn /\ screen'.txn \in DOMAIN txns
               /\ Convinced(req'[k]) => txns[screen'.txn].status = "PAID"
      PROVE  PageAsks' /\ SuccessIsPaid'
  BY <1>a, <1>c DEF PageAsks, SuccessIsPaid, Awaited
<1>1. CASE UNCHANGED <<req, screen>>
  BY <1>b, <1>c, <1>1
<1>2. ASSUME NEW h \in Handlers, NEW r, Go(h, r), UNCHANGED screen,
             r.page => /\ req[h].page /\ r.txn = req[h].txn
                       /\ r.at \in {"verify", "answered", "sell"}
                       /\ Convinced(r) => txns[screen.txn].status = "PAID"
      PROVE  PageAsks' /\ SuccessIsPaid'
  BY <1>a, <1>b, <1>c, <1>2 DEF Go
<1>3. ASSUME NEW h \in Handlers, NEW v \in Views, Go(h, Idle), Reply(h, v),
             v = "success" => Convinced(req[h])
      PROVE  PageAsks' /\ SuccessIsPaid'
  <2>1. ~Idle.page
    BY DEF Idle
  <2>2. screen'.txn = screen.txn
    BY <1>3, <1>a DEF Reply, Screen
  <2>3. screen'.shows = "success" =>
          screen'.txn \in DOMAIN txns /\ txns[screen'.txn].status = "PAID"
    BY <1>3, <1>a, <1>b, <2>2 DEF Reply, Screen
  <2> QED
    BY <1>3, <1>a, <1>b, <1>c, <2>1, <2>2, <2>3 DEF Go
<1>4. ASSUME NEW h \in Handlers, HandlerStep(h)
      PROVE  PageAsks' /\ SuccessIsPaid'
  <2>1. ASSUME AskGateway(h)
        PROVE  PageAsks' /\ SuccessIsPaid'
    <3> DEFINE r == [req[h] EXCEPT !.at = "answered", !.says = Says(req[h].txn)]
    <3>1. r.page = req[h].page /\ r.txn = req[h].txn /\ r.at = "answered" /\ r.says = Says(r.txn)
      BY <1>a DEF Request
    <3>2. r.says = "PAID" => txns[r.txn].status = "PAID"
      BY <3>1 DEF Says
    <3>3. req[h].page => req[h].txn = screen.txn
      BY <1>b
    <3> QED
      BY <1>2, <2>1, <3>1, <3>2, <3>3 DEF AskGateway
  <2>2. ASSUME SavePaid(h)
        PROVE  PageAsks' /\ SuccessIsPaid'
    <3> DEFINE r == [req[h] EXCEPT !.at = "sell"]
    <3>1. r.page = req[h].page /\ r.txn = req[h].txn /\ r.at = "sell"
      BY <1>a DEF Request
    <3>2. req[h].page => txns[screen.txn].status = "PAID"
      BY <1>b, <2>2 DEF SavePaid
    <3> QED
      BY <1>2, <2>2, <3>1, <3>2 DEF SavePaid
  <2>3. ASSUME Go(h, Idle), UNCHANGED screen
        PROVE  PageAsks' /\ SuccessIsPaid'
    BY <1>2, <2>3 DEF Idle
  <2>4. ASSUME MarkSold(h) \/ ReplyPending(h) \/ SaveFailed(h) \/ VerifyFails(h)
        PROVE  PageAsks' /\ SuccessIsPaid'
    BY <1>3, <2>4 DEF MarkSold, ReplyPending, SaveFailed, VerifyFails, Views
  <2> QED
    BY <1>4, <2>1, <2>2, <2>3, <2>4 DEF HandlerStep, OpenTxn, SaveShipped, SaveDelivered
<1>5. ASSUME NEW h \in Handlers, NEW t \in 0..Len(txns), OpenStatusPage(h, t)
      PROVE  PageAsks' /\ SuccessIsPaid'
  <2>1. screen'.txn = t /\ screen'.shows # "success"
    BY <1>5 DEF OpenStatusPage
  <2>2. ASSUME NEW k \in Handlers, req'[k].page
        PROVE  /\ req'[k].at = "verify" /\ req'[k].txn = t /\ t \in DOMAIN txns
    <3>1. ~[req[k] EXCEPT !.page = FALSE].page
      BY <1>a DEF Request
    <3>2. req'[k] # [req[k] EXCEPT !.page = FALSE]
      BY <2>2, <3>1
    <3>3. t # 0 /\ k = h
      BY <1>5, <3>2 DEF OpenStatusPage
    <3>4. req'[h] = [at |-> "verify", order |-> txns[t].order, txn |-> t, says |-> "ACTIVE",
                     page |-> TRUE, hook |-> FALSE]
      BY <1>5, <3>3 DEF OpenStatusPage
    <3>5. t \in DOMAIN txns
      BY <3>3 DEF Shape
    <3> QED
      BY <3>3, <3>4, <3>5
  <2> QED
    BY <1>c, <2>1, <2>2
<1>6. ASSUME NEW h \in Handlers, NEW b \in Buyers, CheckoutFixed(h, b) \/ CheckoutAuction(h, b)
      PROVE  PageAsks' /\ SuccessIsPaid'
  BY <1>2, <1>6 DEF CheckoutFixed, CheckoutAuction, Idle
<1>7. ASSUME NEW h \in Handlers, NEW w \in webhooks, WebhookPayment(h, w)
      PROVE  PageAsks' /\ SuccessIsPaid'
  <2> PICK r : r = Taken(w)
    OBVIOUS
  <2>1. ~r.page /\ UNCHANGED screen /\ (Go(h, r) \/ UNCHANGED req)
    BY <1>7 DEF WebhookPayment, Taken
  <2> QED
    BY <1>1, <1>2, <2>1
<1>8. ASSUME NEW h \in Handlers, NEW o \in DOMAIN orders,
             MarkOrderShipped(h, o) \/ SimulateDelivery(h, o)
      PROVE  PageAsks' /\ SuccessIsPaid'
  BY <1>1, <1>2, <1>8 DEF MarkOrderShipped, SimulateDelivery, Idle
<1>9. CASE Crash
  BY <1>a, <1>b, <1>c, <1>9 DEF Crash, Idle, Screen
<1> QED
  BY <1>1, <1>4, <1>5, <1>6, <1>7, <1>8, <1>9 DEF Next, Attempt, Expire, vars

-----------------------------------------------------------------------------
(* The counters. *)

\* A handler joins those that are doing something, or is none of them any more.
LEMMA DoingMoves ==
  ASSUME Shape, NEW h \in Handlers, NEW r, Go(h, r), NEW a, NEW o
  PROVE  /\ Cardinality(Doing(a, o)) \in Nat /\ Cardinality(Doing(a, o)') \in Nat
         /\ Cardinality(Doing(a, o)') <= Cardinality(Doing(a, o)) + 1
         /\ r.at # a => Cardinality(Doing(a, o)') <= Cardinality(Doing(a, o))
         /\ r.order # o => Cardinality(Doing(a, o)') <= Cardinality(Doing(a, o))
         /\ r.at # a /\ req[h].at = a /\ req[h].order = o =>
              Cardinality(Doing(a, o)') = Cardinality(Doing(a, o)) - 1
<1> DEFINE D == Doing(a, o)
<1>1. D \subseteq Handlers /\ IsFiniteSet(D) /\ Cardinality(D) \in Nat
  BY FS_Subset, FS_CardinalityType DEF Doing
<1>2. \A k \in Handlers : req'[k] = IF k = h THEN r ELSE req[k]
  BY DEF Go, Shape
<1>3. CASE r.at = a /\ r.order = o
  <2>1. Doing(a, o)' = D \cup {h}
    BY <1>2, <1>3 DEF Doing
  <2> HIDE DEF D
  <2>2. /\ IsFiniteSet(D \cup {h})
        /\ Cardinality(D \cup {h}) = Cardinality(D) \/ Cardinality(D \cup {h}) = Cardinality(D) + 1
    BY <1>1, FS_AddElement
  <2> QED
    BY <1>1, <1>3, <2>1, <2>2 DEF D
<1>4. CASE ~(r.at = a /\ r.order = o)
  <2>1. Doing(a, o)' = D \ {h} /\ (h \in D <=> req[h].at = a /\ req[h].order = o)
    BY <1>2, <1>4 DEF Doing
  <2> HIDE DEF D
  <2>2. /\ IsFiniteSet(D \ {h})
        /\ Cardinality(D \ {h}) = IF h \in D THEN Cardinality(D) - 1 ELSE Cardinality(D)
    BY <1>1, FS_RemoveElement
  <2>3. Cardinality(D \ {h}) \in Nat
    BY <2>2, FS_CardinalityType
  <2> QED
    BY <1>1, <1>4, <2>1, <2>2, <2>3 DEF D
<1> QED
  BY <1>3, <1>4

\* Shipments are counted where they are accepted, wake up and are delivered.
LEMMA StepFlow ==
  ASSUME Shape, Requests, Flow, [Next]_vars
  PROVE  Flow'
<1>0. /\ \A o \in OrderId : ships[o] \in Nat /\ sleeping[o] \in Nat /\ released[o] \in Nat
      /\ \A o \in OrderId : ships[o] + Cardinality(Doing("ship", o)) <= MaxShips
      /\ \A o \in OrderId : sleeping[o] + Cardinality(Doing("deliver", o)) + released[o] <= ships[o]
      /\ \A k \in Handlers : req[k].at # "idle" => req[k].order \in OrderId
      /\ \A a, o : IsFiniteSet(Doing(a, o)) /\ Cardinality(Doing(a, o)) \in Nat
      /\ MaxShips \in Nat
  <2>1. \A a, o : IsFiniteSet(Doing(a, o)) /\ Cardinality(Doing(a, o)) \in Nat
    BY FS_Subset, FS_CardinalityType DEF Doing
  <2>2. \A k \in Handlers : req[k].at # "idle" => req[k].order \in OrderId
    BY OrderIds DEF Requests, Sound, SoundWith
  <2> QED
    BY <2>1, <2>2 DEF Shape, Flow
<1>1. ASSUME NEW h \in Handlers, NEW r, Go(h, r), r.at # "ship", r.at # "deliver",
             UNCHANGED <<sleeping, ships, released>>
      PROVE  Flow'
  <2> SUFFICES ASSUME NEW o \in OrderId
               PROVE  /\ ships[o] + Cardinality(Doing("ship", o)') <= MaxShips
                      /\ sleeping[o] + Cardinality(Doing("deliver", o)') + released[o] <= ships[o]
    BY <1>1 DEF Flow
  <2>1. /\ Cardinality(Doing("ship", o)') \in Nat
        /\ Cardinality(Doing("ship", o)') <= Cardinality(Doing("ship", o))
        /\ Cardinality(Doing("deliver", o)') \in Nat
        /\ Cardinality(Doing("deliver", o)') <= Cardinality(Doing("deliver", o))
    BY <1>1, DoingMoves
  <2> QED
    BY <1>0, <2>1
<1>2. ASSUME UNCHANGED <<sleeping, ships, released>>,
             \A a \in {"ship", "deliver"}, o \in OrderId : Doing(a, o)' \subseteq Doing(a, o)
      PROVE  Flow'
  <2> SUFFICES ASSUME NEW o \in OrderId
               PROVE  /\ ships[o] + Cardinality(Doing("ship", o)') <= MaxShips
                      /\ sleeping[o] + Cardinality(Doing("deliver", o)') + released[o] <= ships[o]
    BY <1>2 DEF Flow
  <2>1. \A a \in {"ship", "deliver"} : /\ Cardinality(Doing(a, o)') \in Nat
                                       /\ Cardinality(Doing(a, o)') <= Cardinality(Doing(a, o))
    BY <1>0, <1>2, FS_Subset, FS_CardinalityType
  <2> QED
    BY <1>0, <2>1
<1>3. ASSUME NEW h \in Handlers, HandlerStep(h), ~SaveShipped(h), ~SaveDelivered(h)
      PROVE  Flow'
  <2>1. UNCHANGED <<sleeping, ships, released>>
    BY <1>3 DEF HandlerStep, OpenTxn, AskGateway, VerifyFails, SavePaid, MarkSold, ReplyPending,
                SaveFailed
  <2>2. PICK r : Go(h, r) /\ r.at \in {"idle", "answered", "sell"}
    <3>1. req[h] \in Request
      BY DEF Shape
    <3>2. Idle.at = "idle"
      BY DEF Idle
    <3>3. /\ [req[h] EXCEPT !.at = "answered", !.says = Says(req[h].txn)].at = "answered"
          /\ [req[h] EXCEPT !.at = "sell"].at = "sell"
      BY <3>1 DEF Request
    <3> QED
      BY <1>3, <3>2, <3>3 DEF HandlerStep, OpenTxn, AskGateway, VerifyFails, SavePaid, MarkSold,
                              ReplyPending, SaveFailed
  <2> QED
    BY <1>1, <2>1, <2>2
<1>4. ASSUME NEW h \in Handlers, NEW b \in Buyers, CheckoutFixed(h, b) \/ CheckoutAuction(h, b)
      PROVE  Flow'
  <2>1. PICK o : Go(h, [Idle EXCEPT !.at = "checkout", !.order = o])
    BY <1>4 DEF CheckoutFixed, CheckoutAuction
  <2>2. [Idle EXCEPT !.at = "checkout", !.order = o].at = "checkout"
    BY DEF Idle
  <2>3. UNCHANGED <<sleeping, ships, released>>
    BY <1>4 DEF CheckoutFixed, CheckoutAuction
  <2> QED
    BY <1>1, <2>1, <2>2, <2>3
<1>5. ASSUME NEW h \in Handlers, NEW w \in webhooks, WebhookPayment(h, w)
      PROVE  Flow'
  <2> PICK r : r = Taken(w)
    OBVIOUS
  <2>1. r.at = "answered" /\ (Go(h, r) \/ UNCHANGED req)
    BY <1>5 DEF WebhookPayment, Taken
  <2>2. UNCHANGED <<sleeping, ships, released>>
    BY <1>5 DEF WebhookPayment
  <2>3. UNCHANGED req => \A a, o : Doing(a, o)' = Doing(a, o)
    BY DEF Doing
  <2> QED
    BY <1>1, <1>2, <2>1, <2>2, <2>3
<1>6. ASSUME NEW h \in Handlers, NEW t \in 0..Len(txns), OpenStatusPage(h, t)
      PROVE  Flow'
  <2>1. \A k \in Handlers : req[k] \in Request
    BY DEF Shape
  <2>2. ASSUME NEW k \in Handlers, req'[k].at \in {"ship", "deliver"}
        PROVE  req'[k].at = req[k].at /\ req'[k].order = req[k].order
    <3>2. CASE req'[k] = [req[k] EXCEPT !.page = FALSE]
      BY <2>1, <3>2 DEF Request
    <3>3. CASE req'[k] # [req[k] EXCEPT !.page = FALSE]
      <4>1. t # 0 /\ k = h
        BY <1>6, <3>3 DEF OpenStatusPage
      <4>2. req'[k] = [at |-> "verify", order |-> txns[t].order, txn |-> t, says |-> "ACTIVE",
                       page |-> TRUE, hook |-> FALSE]
        BY <1>6, <4>1 DEF OpenStatusPage
      <4> QED
        BY <2>2, <4>2
    <3> QED
      BY <3>2, <3>3
  <2>3. \A a \in {"ship", "deliver"}, o \in OrderId : Doing(a, o)' \subseteq Doing(a, o)
    BY <2>2 DEF Doing
  <2>4. UNCHANGED <<sleeping, ships, released>>
    BY <1>6 DEF OpenStatusPage
  <2> QED
    BY <1>2, <2>3, <2>4
<1>7. ASSUME NEW h \in Handlers, NEW p \in DOMAIN orders, MarkOrderShipped(h, p)
      PROVE  Flow'
  <2> PICK r : r = [Idle EXCEPT !.at = "ship", !.order = p]
    OBVIOUS
  <2>1. Go(h, r) /\ UNCHANGED <<sleeping, ships, released>> /\ r.at = "ship" /\ r.order = p
    BY <1>7 DEF MarkOrderShipped, Idle
  <2>2. ships[p] + Cardinality(Doing("ship", p)) < MaxShips
    BY <1>7 DEF MarkOrderShipped, Doing
  <2> SUFFICES ASSUME NEW o \in OrderId
               PROVE  /\ ships[o] + Cardinality(Doing("ship", o)') <= MaxShips
                      /\ sleeping[o] + Cardinality(Doing("deliver", o)') + released[o] <= ships[o]
    BY <2>1 DEF Flow
  <2>3. /\ Cardinality(Doing("ship", o)') \in Nat
        /\ Cardinality(Doing("ship", o)') <= Cardinality(Doing("ship", o)) + 1
        /\ p # o => Cardinality(Doing("ship", o)') <= Cardinality(Doing("ship", o))
        /\ Cardinality(Doing("deliver", o)') \in Nat
        /\ Cardinality(Doing("deliver", o)') <= Cardinality(Doing("deliver", o))
    BY <2>1, DoingMoves
  <2> QED
    BY <1>0, <2>2, <2>3
<1>8. ASSUME NEW h \in Handlers, SaveShipped(h)
      PROVE  Flow'
  <2> PICK p : p = req[h].order
    OBVIOUS
  <2>1. /\ Go(h, Idle) /\ Idle.at = "idle" /\ req[h].at = "ship" /\ p \in OrderId
        /\ ships' = [ships EXCEPT ![p] = ships[p] + 1]
        /\ sleeping' = [sleeping EXCEPT ![p] = sleeping[p] + 1] /\ released' = released
    BY <1>0, <1>8 DEF SaveShipped, Idle
  <2> SUFFICES ASSUME NEW o \in OrderId
               PROVE  /\ ships'[o] + Cardinality(Doing("ship", o)') <= MaxShips
                      /\ sleeping'[o] + Cardinality(Doing("deliver", o)') + released[o] <= ships'[o]
    BY <2>1 DEF Flow
  <2>2. /\ Cardinality(Doing("ship", o)') \in Nat
        /\ Cardinality(Doing("ship", o)') <= Cardinality(Doing("ship", o))
        /\ p = o => Cardinality(Doing("ship", o)') = Cardinality(Doing("ship", o)) - 1
        /\ Cardinality(Doing("deliver", o)') \in Nat
        /\ Cardinality(Doing("deliver", o)') <= Cardinality(Doing("deliver", o))
    BY <2>1, DoingMoves
  <2>3. /\ ships'[o] = IF o = p THEN ships[o] + 1 ELSE ships[o]
        /\ sleeping'[o] = IF o = p THEN sleeping[o] + 1 ELSE sleeping[o]
    BY <2>1 DEF Shape
  <2> QED
    BY <1>0, <2>2, <2>3
<1>9. ASSUME NEW h \in Handlers, NEW p \in DOMAIN orders, SimulateDelivery(h, p)
      PROVE  Flow'
  <2>1. /\ p \in OrderId /\ sleeping[p] > 0
        /\ sleeping' = [sleeping EXCEPT ![p] = sleeping[p] - 1] /\ UNCHANGED <<ships, released>>
    BY <1>9, OrderIds DEF SimulateDelivery
  <2> SUFFICES ASSUME NEW o \in OrderId
               PROVE  /\ ships[o] + Cardinality(Doing("ship", o)') <= MaxShips
                      /\ sleeping'[o] + Cardinality(Doing("deliver", o)') + released[o] <= ships[o]
    BY <2>1 DEF Flow
  <2>2. sleeping'[o] = IF o = p THEN sleeping[o] - 1 ELSE sleeping[o]
    BY <2>1 DEF Shape
  <2>3. CASE UNCHANGED req
    <3>1. Doing("ship", o)' = Doing("ship", o) /\ Doing("deliver", o)' = Doing("deliver", o)
      BY <2>3 DEF Doing
    <3> QED
      BY <1>0, <2>1, <2>2, <3>1
  <2>4. CASE Go(h, [Idle EXCEPT !.at = "deliver", !.order = p])
    <3> PICK r : r = [Idle EXCEPT !.at = "deliver", !.order = p]
      OBVIOUS
    <3>1. Go(h, r) /\ r.at = "deliver" /\ r.order = p
      BY <2>4 DEF Idle
    <3>2. /\ Cardinality(Doing("ship", o)') \in Nat
          /\ Cardinality(Doing("ship", o)') <= Cardinality(Doing("ship", o))
          /\ Cardinality(Doing("deliver", o)') \in Nat
          /\ Cardinality(Doing("deliver", o)') <= Cardinality(Doing("deliver", o)) + 1
          /\ p # o => Cardinality(Doing("deliver", o)') <= Cardinality(Doing("deliver", o))
      BY <3>1, DoingMoves
    <3> QED
      BY <1>0, <2>1, <2>2, <3>2
  <2> QED
    BY <1>9, <2>3, <2>4 DEF SimulateDelivery
<1>10. ASSUME NEW h \in Handlers, SaveDelivered(h)
       PROVE  Flow'
  <2> PICK p : p = req[h].order
    OBVIOUS
  <2>1. /\ Go(h, Idle) /\ Idle.at = "idle" /\ req[h].at = "deliver" /\ p \in OrderId
        /\ released' = [released EXCEPT ![p] = released[p] + 1] /\ UNCHANGED <<ships, sleeping>>
    BY <1>0, <1>10 DEF SaveDelivered, ReleaseFundsToSeller, Idle
  <2> SUFFICES ASSUME NEW o \in OrderId
               PROVE  /\ ships[o] + Cardinality(Doing("ship", o)') <= MaxShips
                      /\ sleeping[o] + Cardinality(Doing("deliver", o)') + released'[o] <= ships[o]
    BY <2>1 DEF Flow
  <2>2. /\ Cardinality(Doing("ship", o)') \in Nat
        /\ Cardinality(Doing("ship", o)') <= Cardinality(Doing("ship", o))
        /\ Cardinality(Doing("deliver", o)') \in Nat
        /\ Cardinality(Doing("deliver", o)') <= Cardinality(Doing("deliver", o))
        /\ p = o => Cardinality(Doing("deliver", o)') = Cardinality(Doing("deliver", o)) - 1
    BY <2>1, DoingMoves
  <2>3. released'[o] = IF o = p THEN released[o] + 1 ELSE released[o]
    BY <2>1 DEF Shape
  <2> QED
    BY <1>0, <2>2, <2>3
<1>11. ASSUME Crash PROVE Flow'
  <2>1. /\ \A k \in Handlers : req'[k].at = "idle"
        /\ \A o \in OrderId : sleeping'[o] = 0
        /\ UNCHANGED <<ships, released>>
    BY <1>11 DEF Crash, Idle
  <2>2. \A a \in {"ship", "deliver"}, o \in OrderId : Cardinality(Doing(a, o)') = 0
    <3>1. \A a \in {"ship", "deliver"}, o \in OrderId : Doing(a, o)' = {}
      BY <2>1 DEF Doing
    <3> QED
      BY <3>1, FS_EmptySet
  <2> SUFFICES ASSUME NEW o \in OrderId
               PROVE  /\ ships[o] + Cardinality(Doing("ship", o)') <= MaxShips
                      /\ sleeping'[o] + Cardinality(Doing("deliver", o)') + released[o] <= ships[o]
    BY <2>1 DEF Flow
  <2> QED
    BY <1>0, <2>1, <2>2
<1>12. ASSUME UNCHANGED <<req, sleeping, ships, released>> PROVE Flow'
  BY <1>12 DEF Flow, Doing
<1> QED
  BY <1>3, <1>4, <1>5, <1>6, <1>7, <1>8, <1>9, <1>10, <1>11, <1>12 DEF Next, Attempt, Expire, vars

\* Requests refer to rows and payments by their numbers, or to none by 0.
LEMMA StepBounds ==
  ASSUME Shape, Links, Requests, Bounds, [Next]_vars
  PROVE  Bounds'
<1>0. /\ auction \in BOOLEAN /\ isSold \in BOOLEAN /\ crashes \in 0..MaxFaults
      /\ Len(txns) \in Nat /\ Len(txns) <= MaxTxns /\ screen.txn <= MaxTxns
      /\ \A k \in Handlers : req[k].order <= MaxOrders /\ req[k].txn <= MaxTxns
      /\ 0 <= MaxOrders /\ 0 <= MaxTxns /\ Len(orders) \in Nat /\ Len(orders) <= MaxOrders
      /\ DOMAIN txns = 1..Len(txns) /\ DOMAIN orders = 1..Len(orders) /\ screen \in Screen
      /\ \A k \in Handlers : req[k] \in Request
  BY DEF Bounds, Shape
<1>1. auction' = auction /\ isSold' \in BOOLEAN /\ crashes' \in 0..MaxFaults
  <2>1. Crash => auction' = auction /\ isSold' = isSold /\ crashes' \in 0..MaxFaults
    <3>1. IsFiniteSet(OrderId)
      BY FS_Interval DEF OrderId
    <3>2. Cardinality(ignored) \in Nat
      BY <3>1, FS_Subset, FS_CardinalityType DEF Bounds
    <3> QED
      BY <1>0, <3>2 DEF Crash
  <2>2. ASSUME NEW h \in Handlers, HandlerStep(h)
        PROVE  auction' = auction /\ (isSold' = isSold \/ isSold' = TRUE) /\ crashes' = crashes
    BY <2>2 DEF HandlerStep, OpenTxn, AskGateway, SavePaid, MarkSold, ReplyPending, SaveFailed,
                VerifyFails, SaveShipped, SaveDelivered
  <2>3. ASSUME Next, \A h \in Handlers : ~HandlerStep(h), ~Crash
        PROVE  UNCHANGED <<auction, isSold, crashes>>
    BY <2>3 DEF Next, CheckoutFixed, CheckoutAuction, Attempt, Expire, OpenStatusPage,
                WebhookPayment, MarkOrderShipped, SimulateDelivery
  <2>4. isSold' = isSold \/ isSold' = TRUE => isSold' \in BOOLEAN
    BY <1>0
  <2>5. crashes' = crashes => crashes' \in 0..MaxFaults
    BY <1>0
  <2> QED
    BY <2>1, <2>2, <2>3, <2>4, <2>5 DEF vars
<1>2. Len(txns') <= MaxTxns
  <2>1. ASSUME NEW h \in Handlers, NEW ok \in BOOLEAN, OpenTxn(h, ok) PROVE Len(txns') <= MaxTxns
    BY <1>0, <2>1 DEF OpenTxn, Shape
  <2>2. ASSUME NEW t \in DOMAIN txns, Expire(t) \/ \E ok \in BOOLEAN : Attempt(t, ok)
        PROVE  Len(txns') = Len(txns)
    BY <2>2 DEF Expire, Attempt, Shape
  <2> QED
    BY <1>0, <2>1, <2>2, TxnsEffect
<1>3. screen'.txn <= MaxTxns
  <2>1. ASSUME NEW h \in Handlers, NEW t \in 0..Len(txns), OpenStatusPage(h, t)
        PROVE  screen'.txn <= MaxTxns
    BY <1>0, <2>1 DEF OpenStatusPage
  <2>2. ASSUME NEW h \in Handlers, NEW v, Reply(h, v) PROVE screen'.txn = screen.txn
    BY <1>0, <2>2 DEF Reply, Screen
  <2>3. Crash => screen'.txn = screen.txn
    BY <1>0 DEF Crash, Screen
  <2> QED
    BY <1>0, <2>1, <2>2, <2>3
       DEF Next, vars, HandlerStep, CheckoutFixed, CheckoutAuction, OpenTxn, Attempt, Expire,
           AskGateway, WebhookPayment, SavePaid, MarkSold, ReplyPending, SaveFailed, VerifyFails,
           MarkOrderShipped, SaveShipped, SimulateDelivery, SaveDelivered
<1>4. \A k \in Handlers : req'[k].order <= MaxOrders /\ req'[k].txn <= MaxTxns
  <2>1. ASSUME NEW h \in Handlers, NEW r, Go(h, r), r.order <= MaxOrders, r.txn <= MaxTxns
        PROVE  \A k \in Handlers : req'[k].order <= MaxOrders /\ req'[k].txn <= MaxTxns
    BY <1>0, <2>1 DEF Go, Shape
  <2>2. Idle.order = 0 /\ Idle.txn = 0
    BY DEF Idle
  <2>3. ASSUME NEW h \in Handlers, HandlerStep(h)
        PROVE  \A k \in Handlers : req'[k].order <= MaxOrders /\ req'[k].txn <= MaxTxns
    <3>1. PICK r : Go(h, r) /\ \/ r = Idle
                               \/ r = [req[h] EXCEPT !.at = "answered", !.says = Says(req[h].txn)]
                               \/ r = [req[h] EXCEPT !.at = "sell"]
      BY <2>3 DEF HandlerStep, OpenTxn, AskGateway, VerifyFails, SavePaid, MarkSold, ReplyPending,
                  SaveFailed, SaveShipped, SaveDelivered
    <3>2. \/ r.order = 0 /\ r.txn = 0
          \/ r.order = req[h].order /\ r.txn = req[h].txn
      BY <1>0, <2>2, <3>1 DEF Request
    <3>3. r.order <= MaxOrders /\ r.txn <= MaxTxns
      BY <1>0, <3>2
    <3> QED
      BY <2>1, <3>1, <3>3
  <2>4. ASSUME NEW h \in Handlers, NEW o \in 0..MaxOrders, NEW a,
               Go(h, [Idle EXCEPT !.at = a, !.order = o])
        PROVE  \A k \in Handlers : req'[k].order <= MaxOrders /\ req'[k].txn <= MaxTxns
    <3> PICK r : r = [Idle EXCEPT !.at = a, !.order = o]
      OBVIOUS
    <3>1. r.order = o /\ r.txn = 0
      BY DEF Idle
    <3>2. r.order <= MaxOrders /\ r.txn <= MaxTxns
      BY <1>0, <3>1
    <3>3. Go(h, r)
      BY <2>4
    <3> QED
      BY <2>1, <3>2, <3>3
  <2>5. ASSUME NEW h \in Handlers, NEW b \in Buyers, CheckoutFixed(h, b) \/ CheckoutAuction(h, b)
        PROVE  \A k \in Handlers : req'[k].order <= MaxOrders /\ req'[k].txn <= MaxTxns
    <3>1. CASE CheckoutFixed(h, b)
      <4>1. Len(orders) + 1 \in 0..MaxOrders
        BY <1>0, <3>1 DEF CheckoutFixed
      <4>2. Go(h, [Idle EXCEPT !.at = "checkout", !.order = Len(orders) + 1])
        BY <3>1 DEF CheckoutFixed
      <4> QED
        BY <2>4, <4>1, <4>2
    <3>2. CASE CheckoutAuction(h, b)
      <4>1. PICK o \in DOMAIN orders : Go(h, [Idle EXCEPT !.at = "checkout", !.order = o])
        BY <3>2 DEF CheckoutAuction
      <4>2. o \in 0..MaxOrders
        BY <1>0
      <4> QED
        BY <2>4, <4>1, <4>2
    <3> QED
      BY <2>5, <3>1, <3>2
  <2>6. ASSUME NEW h \in Handlers, NEW t \in 0..Len(txns), OpenStatusPage(h, t)
        PROVE  \A k \in Handlers : req'[k].order <= MaxOrders /\ req'[k].txn <= MaxTxns
    <3>1. ASSUME NEW k \in Handlers, req'[k] = [req[k] EXCEPT !.page = FALSE]
          PROVE  req'[k].order <= MaxOrders /\ req'[k].txn <= MaxTxns
      BY <1>0, <3>1 DEF Request
    <3>2. CASE t = 0
      BY <2>6, <3>1, <3>2 DEF OpenStatusPage
    <3>3. CASE t # 0
      <4>1. txns[t].order \in DOMAIN orders
        BY <1>0, <3>3 DEF Links
      <4>2. \A k \in Handlers : k # h => req'[k] = [req[k] EXCEPT !.page = FALSE]
        BY <2>6, <3>3 DEF OpenStatusPage
      <4>3. req'[h].order = txns[t].order /\ req'[h].txn = t
        BY <2>6, <3>3 DEF OpenStatusPage
      <4>4. req'[h].order <= MaxOrders /\ req'[h].txn <= MaxTxns
        <5>1. txns[t].order \in 1..Len(orders)
          BY <1>0, <4>1
        <5> QED
          BY <1>0, <4>3, <5>1
      <4> QED
        BY <3>1, <4>2, <4>4
    <3> QED
      BY <3>2, <3>3
  <2>7. ASSUME NEW h \in Handlers, NEW w \in webhooks, WebhookPayment(h, w)
        PROVE  \A k \in Handlers : req'[k].order <= MaxOrders /\ req'[k].txn <= MaxTxns
    <3> PICK r : r = Taken(w)
      OBVIOUS
    <3>1. r.order = txns[w.txn].order /\ r.txn = w.txn /\ (Go(h, r) \/ UNCHANGED req)
      BY <2>7 DEF Taken, WebhookPayment
    <3>2. txns[w.txn].order \in 1..Len(orders) /\ w.txn \in 1..Len(txns)
      BY <1>0 DEF Links
    <3>3. r.order <= MaxOrders /\ r.txn <= MaxTxns
      BY <1>0, <3>1, <3>2
    <3> QED
      BY <1>0, <2>1, <3>1, <3>3
  <2>8. ASSUME NEW h \in Handlers, NEW o \in DOMAIN orders,
               MarkOrderShipped(h, o) \/ SimulateDelivery(h, o)
        PROVE  \A k \in Handlers : req'[k].order <= MaxOrders /\ req'[k].txn <= MaxTxns
    <3>1. o \in 0..MaxOrders
      BY <1>0
    <3> QED
      BY <1>0, <2>4, <2>8, <3>1 DEF MarkOrderShipped, SimulateDelivery
  <2>9. Crash => \A k \in Handlers : req'[k].order <= MaxOrders /\ req'[k].txn <= MaxTxns
    BY <1>0, <2>2 DEF Crash
  <2> QED
    BY <1>0, <2>3, <2>5, <2>6, <2>7, <2>8, <2>9 DEF Next, Attempt, Expire, vars
<1>5. ignored' \subseteq OrderId
  <2>1. ASSUME NEW o \in DOMAIN orders, Ignored(o) PROVE ignored' \subseteq OrderId
    BY <2>1, OrderIds DEF Bounds, Ignored
  <2>2. \A k \in Handlers : req[k].at # "idle" => req[k].order \in DOMAIN orders
    BY DEF Requests, Sound, SoundWith
  <2>3. ASSUME NEW h \in Handlers, HandlerStep(h)
        PROVE  UNCHANGED ignored \/ (req[h].at # "idle" /\ Ignored(req[h].order))
    BY <2>3 DEF HandlerStep, OpenTxn, AskGateway, VerifyFails, SavePaid, MarkSold, ReplyPending,
                SaveFailed, SaveShipped, SaveDelivered, SaveOrder
  <2>4. ASSUME NEW h \in Handlers, NEW w \in webhooks, WebhookPayment(h, w)
        PROVE  UNCHANGED ignored \/ Ignored(txns[w.txn].order)
    BY <2>4 DEF WebhookPayment
  <2>5. \A w \in webhooks : txns[w.txn].order \in DOMAIN orders
    BY DEF Links
  <2>6. ASSUME NEW h \in Handlers, NEW o \in DOMAIN orders, SimulateDelivery(h, o)
        PROVE  UNCHANGED ignored \/ Ignored(o)
    BY <2>6 DEF SimulateDelivery
  <2>7. UNCHANGED ignored => ignored' \subseteq OrderId
    BY DEF Bounds
  <2> QED
    BY <2>1, <2>2, <2>3, <2>4, <2>5, <2>6, <2>7
       DEF Next, vars, CheckoutFixed, CheckoutAuction, Attempt, Expire, OpenStatusPage,
           MarkOrderShipped, Crash
<1> QED
  BY <1>0, <1>1, <1>2, <1>3, <1>4, <1>5 DEF Bounds

-----------------------------------------------------------------------------
(* The theorems. *)

\* The invariant holds at the start.
LEMMA InitInv == Init => EscrowInv
<1> SUFFICES ASSUME Init PROVE EscrowInv
  OBVIOUS
<1>1. Shape
  BY InitShape
<1>2. Links /\ Shipments /\ SuccessIsPaid
  BY DEF Init, Links, Shipments, SuccessIsPaid
<1>3. Requests
  BY IdleIsSound DEF Init, Requests, Sound
<1>4. FundsBacked
  BY <1>1, OrderIds DEF Init, FundsBacked
<1>5. PageAsks
  BY DEF Init, PageAsks, Awaited, Idle
<1>6. Flow
  <2>1. \A o \in OrderId : sleeping[o] = 0 /\ ships[o] = 0 /\ released[o] = 0
    BY DEF Init
  <2>2. \A a \in {"ship", "deliver"}, o \in OrderId : Doing(a, o) = {}
    BY DEF Init, Doing, Idle
  <2> QED
    BY <2>1, <2>2, FS_EmptySet DEF Flow
<1>7. Bounds
  BY DEF Init, Bounds, Idle
<1> QED
  BY <1>1, <1>2, <1>3, <1>4, <1>5, <1>6, <1>7 DEF EscrowInv

\* The inductive invariant of payment.go, order.go and delivery_worker.go: rows
\* refer to rows there are, and whoever is about to move an order on has evidence
\* of its payment, however old the row is that it saves.
THEOREM EscrowInvariance == EscrowSpec => []EscrowInv
<1>1. EscrowInv /\ [Next]_vars => EscrowInv'
  BY StepShape, StepLinks, StepRequests, StepShipments, StepFundsBacked, StepPage, StepFlow,
     StepBounds DEF EscrowInv
<1> QED
  BY InitInv, <1>1, PTL DEF EscrowSpec

\* Orders, payments, requests and the page keep their types.
THEOREM EscrowTyped == EscrowSpec => []EscrowTypeOK
<1>1. EscrowInv => EscrowTypeOK
  <2> SUFFICES ASSUME EscrowInv PROVE EscrowTypeOK
    OBVIOUS
  <2>0. Shape /\ Links /\ Flow /\ Bounds
    BY DEF EscrowInv
  <2>1. txns \in Seq([order : OrderId, status : {"ACTIVE", "PAID", "EXPIRED"}])
    <3>1. txns \in Seq(Payment) /\ \A t \in DOMAIN txns : txns[t] \in Payment
      BY <2>0 DEF Shape
    <3>2. \A t \in DOMAIN txns : txns[t].order \in OrderId
      BY <2>0, OrderIds DEF Links
    <3>3. \A t \in DOMAIN txns : txns[t] \in [order : OrderId, status : {"ACTIVE", "PAID", "EXPIRED"}]
      BY <3>1, <3>2 DEF Payment
    <3> QED
      BY <3>1, <3>3, NarrowerSeq
  <2>2. webhooks \subseteq [txn : TxnId, says : {"PAID", "FAILED"}]
    <3>1. \A w \in webhooks : w \in Webhook /\ w.txn \in 1..Len(txns)
      BY <2>0 DEF Shape, Links
    <3>2. 1..Len(txns) \subseteq TxnId
      BY <2>0 DEF Shape, Bounds, TxnId
    <3> QED
      BY <3>1, <3>2 DEF Webhook
  <2>3. req \in [Handlers -> [at : {"idle", "checkout", "verify", "answered", "sell", "ship", "deliver"},
                              order : 0..MaxOrders, txn : 0..MaxTxns,
                              says : {"ACTIVE", "PAID", "FAILED"}, page : BOOLEAN, hook : BOOLEAN]]
    <3>1. \A k \in Handlers : req[k] \in Request /\ req[k].order <= MaxOrders /\ req[k].txn <= MaxTxns
      BY <2>0 DEF Shape, Bounds
    <3>2. \A k \in Handlers : req[k].order \in 0..MaxOrders /\ req[k].txn \in 0..MaxTxns
      BY <3>1 DEF Request
    <3> QED
      BY <2>0, <3>1, <3>2 DEF Shape, Request
  <2>4. \A o \in OrderId : sleeping[o] \in 0..MaxShips /\ ships[o] \in 0..MaxShips /\ released[o] \in 0..MaxShips
    <3> SUFFICES ASSUME NEW o \in OrderId
                 PROVE  sleeping[o] \in 0..MaxShips /\ ships[o] \in 0..MaxShips /\ released[o] \in 0..MaxShips
      OBVIOUS
    <3>1. \A a : Cardinality(Doing(a, o)) \in Nat
      BY FS_Subset, FS_CardinalityType DEF Doing
    <3>2. /\ sleeping[o] \in Nat /\ ships[o] \in Nat /\ released[o] \in Nat /\ MaxShips \in Nat
          /\ ships[o] + Cardinality(Doing("ship", o)) <= MaxShips
          /\ sleeping[o] + Cardinality(Doing("deliver", o)) + released[o] <= ships[o]
      BY <2>0 DEF Shape, Flow
    <3> QED
      BY <3>1, <3>2
  <2>5. screen \in [txn : 0..MaxTxns, shows : Views \cup {"nothing"}]
    BY <2>0 DEF Shape, Bounds, Screen
  <2> QED
    BY <2>0, <2>1, <2>2, <2>3, <2>4, <2>5 DEF Shape, Bounds, OrderRow, EscrowTypeOK
<1> QED
  BY <1>1, EscrowInvariance, PTL

\* No order is in escrow, shipped or delivered, and none of its funds are released,
\* without a payment for it at the gateway.
THEOREM NothingUnpaid == EscrowSpec => []FundsBacked
<1>1. EscrowInv => FundsBacked
  BY DEF EscrowInv
<1> QED
  BY <1>1, EscrowInvariance, PTL

\* The funds of an order are not released more often than its shipments were accepted,
\* the deliveries that still sleep included: whatever is saved, ignored or lost.
THEOREM ReleasesAreShipped == EscrowSpec => []OneReleasePerShipment
<1>1. EscrowInv => OneReleasePerShipment
  <2> SUFFICES ASSUME EscrowInv, NEW o \in OrderId
               PROVE  sleeping[o] + released[o] <= ships[o]
    BY DEF OneReleasePerShipment
  <2>1. Cardinality(Doing("deliver", o)) \in Nat
    BY FS_Subset, FS_CardinalityType DEF Doing
  <2>2. /\ sleeping[o] \in Nat /\ ships[o] \in Nat /\ released[o] \in Nat
        /\ sleeping[o] + Cardinality(Doing("deliver", o)) + released[o] <= ships[o]
    BY DEF EscrowInv, Shape, Flow
  <2> QED
    BY <2>1, <2>2
<1> QED
  BY <1>1, EscrowInvariance, PTL

\* PaymentStatusPage shows a success only for a payment that was made, the one in
\* its address.
THEOREM SuccessShownIsPaid == EscrowSpec => []SuccessIsPaid
<1>1. EscrowInv => SuccessIsPaid
  BY DEF EscrowInv
<1> QED
  BY <1>1, EscrowInvariance, PTL

=============================================================================

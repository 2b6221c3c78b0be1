# Tradexa in TLA+

A verification project for Tradexa, a marketplace with fixed-price listings and
timed proxy auctions (Go backend with Gin, GORM, PostgreSQL, Redis and QStash;
React front end). It holds TLA+ modules of the backend's protocols and of the web
client's pages, TLC configurations that check them on small instances, and proofs
that TLAPS checks for every value of the constants. Source paths are relative to `src/`.

## 1. Inventory

Every HTTP request runs in a goroutine of its own. State that outlives a request is
in PostgreSQL (listings, bids, proxy_bids, orders, users, conversations,
messages), in Redis (OTPs, the token blacklist, rate counters), at QStash
(scheduled calls), or in the memory of the process (timers, the SSE hub, the
WebSocket hub and manager, the token cache), which a restart loses.

| Component | State | Operations | Interacts with |
|---|---|---|---|
| Proxy bidding, `backend/handlers/listing.go` BidHandler | bids, proxy_bids, the row lock of listings | place a bid: refuse, first bid, raise, outbid, defend, tie | listing row (closure, owner), bid stream, notices |
| Auction closure, `backend/workers/`, `backend/config/scheduler.go`, `backend/handlers/qstash_handler.go` | listing is_sold/status, orders, QStash messages, timers | schedule, cancel, timer, QStash call, sweep, sell, reserve not met | bids, orders, bid stream, notices, mail |
| Listings, `backend/handlers/listing.go` | listings, listing_images | create, update, delete, query | closure scheduling, bidding |
| Orders, payment, escrow, `backend/handlers/payment.go`, `order.go` | orders, listing is_sold | checkout, verify, webhook, ship | Cashfree, delivery, notices |
| Delivery worker, `backend/workers/delivery_worker.go` | a sleeping goroutine per shipment | deliver, release funds | orders, notices |
| Bid stream, `backend/handlers/hub.go`, `stream.go` | per listing: channels of capacity 10 | add, remove, broadcast | bidding, closure |
| Chat and notices, `backend/websocket/` | hub map, manager map, Send channels | register, unregister, notify, read and write pumps | all of the above |
| Conversations, `backend/handlers/conversation.go` | conversations, messages | find or create, list, read | chat |
| Accounts and OTP, `backend/handlers/auth.go` | users, OTP entries in Redis | register, login, Google, OTP, reset | sessions, mail |
| Sessions, `backend/middleware/auth.go`, `token_cache.go` | blacklist in Redis, cache per process | authenticate, log out | accounts |
| Rate limit, `backend/middleware/rate_limit.go` | one counter per key in Redis | count a request | every limited route |
| Uploads, mail, start-up, configuration | none of their own | calls and wiring | external services |
| Session and notices, `Frontend/src/context/`, `components/Navbar.jsx` | token and user in state and in localStorage, the notification socket, unread counts, toasts | sign in and out, avatar, reconnect, count, clear | accounts, chat hub |
| Message pages, `ConversationsPage.jsx`, `ConversationDetailPage.jsx` | the thread on screen, its socket, requests in flight | open, leave, load, send, receive | conversations, chat hub |
| Payment page, `PaymentStatusPage.jsx` | verifying, success or failed | verify once | payment |
| Listing page, `ListingDetailPage.jsx` | price, own maximum, verdict, the EventSource | load, bid, chat, pay, ship, delete | bidding, bid stream, orders |
| Sign-in page, `AuthPage.jsx` | mode, one loading flag, codes asked for | login, Google, register, reset | accounts |
| Listing forms, `CreateListingPage.jsx`, `EditListingPage.jsx` | fields, pictures chosen, uploads | pick, upload, submit, load | listings, uploads |
| List pages, `HomePage.jsx`, `AuctionsPage.jsx`, `BuyProductsPage.jsx`, `MyListingsPage.jsx` | filters, the list, one spinner | search, turn the page, delete | listings |
| Routes and API wrappers, `App.jsx`, `api/index.js` | the route | a request | every page |

What is hard here, and what makes each part correct:

- *Bidding.* Concurrent transactions on one row. The proxy row must always belong
  to the bidder who authorised most; the public price must be what it takes to
  beat the others and no more; nobody may be bound to more than she authorised;
  a bid must not slip into a sold auction; and no refusal may keep the row.
- *Closure.* Three ways to start it, none exclusive, working on copies of the row
  and reading the bids outside the transaction. It must close every expired
  auction in spite of lost timers, lost calls and restarts, never early, never
  over the head of a bid that was in on time, and leave an order with every sale.
- *Orders.* Read, decide and save the whole row without a transaction, from
  checkout, verification, webhook, seller and delivery goroutine. The status
  should only move forward and the funds be released once.
- *Stream and hub.* Events sent after the commit and without the lock; bounded
  channels that are skipped or closed when full; a channel with two owners.
- *Sessions, OTP, rate limit.* Check and act in separate Redis calls, with
  caches and expiry in between.
- *The session in a tab.* Answers, socket events and timers run with the values their
  closures captured. The account shown must be the one acted for; nobody may be
  signed out by a lost connection or left without notices; two counts must agree.
- *Pages.* Requests that overlap, fail, or are answered after the page has gone on:
  what is typed must go where it was typed, a spinner must wait for something, one
  try must make one listing, a price shown must be one that was committed.

`PROJECT.json` lists the main hazards one by one, with the line where each bites and
the properties that watch it.

## 2. Plan

| # | Module | What | State |
|---|---|---|---|
| 1 | `ProxyAuction` | abstract: what an auction promises its bidders | done |
| 2 | `ProxyBidding` | the bid endpoint, on one listing; implements 1 | done |
| 3 | `AuctionClose` | schedulers, closures, restarts; extends 2 | done |
| 4 | `ProxyBidding_proofs`, `AuctionClose_proofs` | theorems of 2 and 3 | done |
| 5 | `Escrow` | order lifecycle: checkout, verify, webhook, ship, deliver, status page | done |
| 6 | `ClientSession` | session, notification socket, unread counts of one tab | done |
| 7 | `ConversationPage` | the message pages over the chat server | done |
| 8 | `WebPage`, `AuthPage`, `ListingPage`, `ListingForm`, `Browse`; composed in `App` | the other pages and what they call | done |
| 9 | `Escrow_proofs` | nothing gets ahead of its payment; the counters stay in their bounds | done |
| 10 | `ClientSession_proofs`, `ConversationPage_proofs` | the badge adds up, the right account, one socket at most | done |
| 11 | `ListingPage_proofs`, `ListingForm_proofs`, `App_proofs` | every safety property of the pages | done |
| 12 | hub internals | the hub's map, the manager's map and a Send channel with two owners | open |
| 13 | find-or-create of conversations, token cache, rate limit | see section 6 | open |

Every invariant and action property of a passing run is a theorem. What the proofs
leave are the liveness properties (section 5).

## 3. Modules

**`ProxyAuction`** is the abstract specification: `best` (what each user has
authorised), `holder` and `price`, and the steps Open, Raise, Outbid and Defend
of an ascending auction with proxies.

**`ProxyBidding`** models `BidHandler` statement by statement as far as another
transaction can tell:

| Action | Code (`listing.go`) |
|---|---|
| BidArrives | binding, authentication, Begin (354-373) |
| AcquireRow, RefuseRow | SELECT ... FOR UPDATE and the checks on the row (375-402) |
| ReadLedger | highest public bid, minimum, proxy row (404-437) |
| RefuseBid | maximum too low (441-445, 475-479) |
| PlaceFirst, RaiseMax, Outbid, Defend, Tie | the branches of the decision (451-525), each with its Commit (529) |
| Answer | notice, broadcast, reply (531-557) |
| Abort | a statement fails: rollback, error reply |
| UpdateListing, DeleteListing, CloseListing | the other writers of the row |
| Crash, Tick | restart of the process; the clock |

`seen[h]` holds the handler's locals, so a decision is made on what was *read*;
that it still is what the database *holds* is a property (`NoStaleDecision`) and
not a modelling shortcut. `Settle` commits or loses the rows and goes on in the
same way, because the code ignores the error of `tx.Commit`. `asked` is a history
variable: the greatest maximum of each user whose transaction was committed.

**`AuctionClose`** adds the closures to the variables of `ProxyBidding`. A closure
copies the row (`Begin`), reads the highest bid after the end (`ReadHighest`), and
writes its verdict when the row is free (`Sell`, `ReserveNotMet`); it may fail
(`CloseFails`) or find that it is early (`Postpone`). It is begun by `TimerFires`,
`CallTaken` or `Sweep`. QStash is external: a message is called 1 + Retries times
at most, at the earliest one clock unit before the end (NotBefore carries whole
seconds), and again while an earlier call is still served. `Restart` loses
closures, timers and an unfinished CreateListing. `OtherStep` lets everything of
`ProxyBidding` but its `CloseListing` happen meanwhile: here the closures do that.

**`Escrow`** is payment.go, order.go and delivery_worker.go on the orders of one
listing, fixed-price or a won auction, with the payments the gateway keeps and the
buyer's status page. None of this code runs in a transaction, so a request is a
record in `req` that goes from point to point with the order it read:

| Action | Code |
|---|---|
| CheckoutFixed, CheckoutAuction, OpenTxn | `CreateCashfreeOrder`: an order (a new one for every checkout of a fixed-price listing, sold or not), then the gateway |
| Attempt, Expire | the gateway: attempts on one payment fail and may succeed later |
| OpenStatusPage, AskGateway, VerifyFails | `PaymentStatusPage`, and `VerifyPayment` up to the gateway's answer |
| WebhookPayment | `WebhookPayment`: any webhook that was not answered yet, again, late or after a newer one; one whose order cannot be read is answered all the same |
| Acknowledge, Reply | the answer 200, after which the gateway sends the webhook no more unless the answer is lost; the page's answer |
| SaveOrder, Ignored | `Save` and `First`, whose errors the code ignores: the handler goes on with the row unsaved, and the order is noted in the history variable `ignored` |
| SavePaid, MarkSold, ReplyPending, SaveFailed | the whole-row saves of the order and of the listing, in this order, and the reply |
| MarkOrderShipped, SaveShipped | the read with its check, and the save that leaves a sleeper |
| SimulateDelivery, SaveDelivered | the worker: one read, which gives up on an error, the save, and the release whether or not it was saved |
| Crash | requests are lost between their writes, sleepers for good; with the ignored errors, at most `MaxFaults` |

**`ClientSession`** is one browser tab: AuthContext, NotificationsContext and the
navbar's controls. A React commit with the effects it causes is one step
(`Render`, `NotificationEffect`); an answer, a socket event and a timer are steps of
their own, with what their closure captured. `links` holds the notification sockets,
one entry per reconnect loop, because the code may have more than one;
`wsRef` the one the code knows. Toasts are counted per listing. Two accounts use the tab
in turn.

**`ConversationPage`** is the two message pages over the chat server as a tab sees
it. Going from thread to thread keeps the page and runs its effects again
(`SocketEffect`: cleanup, then connect), so requests and sockets of the earlier
thread are still there. A message's save, notice and broadcast are three steps of
the server; a client is in its hub and in the manager from the upgrade until its
pumps end. `typedIn` is a history variable: the thread on screen when a message was
sent.

**`WebPage`** has what the remaining pages share, the route, the account that is
signed in, and a request's life: sent, then answered with its effect in the database
or failed with its effect there or not, then taken by its `await`. On it:

- **`AuthPage`**: the three modes of AuthPage with the handlers of auth.go, codes
  per email that are replaced by a resend, mailed, used up and expire.
- **`ListingPage`**: ListingDetailPage with the fetch, the bounded channel of the
  event stream (`Pushed`), broadcasts that come after the commit in any order, bids,
  chat, payment, shipping and deletion. The server's side of a bid is what
  `ProxyBidding` says of it, seen by one viewer.
- **`ListingForm`**: the create and edit forms. A submission is a record in `subs`
  with the pictures that were wanted at the click, its uploads one by one, and the
  handler's deletion and insertion of picture rows as steps of their own.
- **`Browse`**: the three search pages and MyListingsPage, with answers of any
  earlier search, deletion, and listings that are sold between two requests.

**`App`** extends the four and adds the routes of App.jsx. The pages share only the
session and the server, so a behaviour begins on any one page and ends when it is
left; requests in flight go on, and an answer that navigates does so from wherever
the user is by then. That one page does not see what another left behind is no
loss: a page's state is created when it is mounted.

Definitions marked `slip:` are the plausible mistakes each property is tested
against; no next-state relation uses them.

Abstractions of the auction modules: one listing, since no transaction touches two (a sweep over several
listings is a copy that grows old, which the model has); amounts are natural
numbers (the code's bids are whole, its prices float64); `Inc` stands for 5. The
checks on one row that cannot change (type auction) are left out. Line 392 takes a
bid *at* the end, `EndsAt < now` in the model. `auction_ends_at` is constant: no
code of the repository changes it, although the repository's README describes an
anti-snipe extension and the worker has a branch for it (reached when QStash calls
early, `Postpone`).

Abstractions of the client modules: one tab, whose localStorage no other tab
changes; a production build (StrictMode's second run of an updater is the mutant of
`UnreadAddsUp`); random codes are distinct; a file stands for the URL it gets, and
the order of pictures is left out; a field is filled or not; who looks at the search
pages makes no difference to them; `timer_extended`, which the server never sends, is
left out; GetListings answers a search with any subset of what matches its type, and
MyListingsPage with everything unless its limit of fifty cuts it.

## 4. Runs

| Run | What it checks | Bounds |
|---|---|---|
| `bidding` | TypeOK, NoStaleDecision, HolderPricedOutRivals, SecondPrice, NeverAboveOwnMax, IncrementRespected, ClosedLedgerFrozen, ImplementsProxyAuction | 2 handlers, 2 bidders and the seller, maxima {4,5,8}, prices {1,5}, increment 3, end 1, clock to 2 |
| `bidding_live` | EveryBidAnswered under `FairSpec` | 2 handlers, 2 bidders, maxima {1,3}, price 1, increment 2, no symmetry |
| `tie` | violation: LeaderIsHolder | as `bidding_live` |
| `close` | CloseTypeOK, OrdersAreBids, OnTimeBidsCount, KeepsBiddingSpec | 2 closures, 1 handler, 2 bidders, maxima {3,5}, price 1, reserve 2, increment 2, 1 message with 2 calls, 1 restart, end 1, clock to 1 |
| `close_live` | ExpiredIsClosed under `FairCloseSpec` | 2 closures, 1 handler, 1 bidder, 1 message with 1 call, 1 restart |
| `close_twice` | violation: AtMostOneOrder | as `close`, maxima {1,3}, 1 call, clock to 2 |
| `escrow` | EscrowTypeOK, FundsBacked, SuccessIsPaid, OneReleasePerShipment; PaidIsEscrowed, ShippedIsDelivered under `EscrowFairness` | 1 buyer, 2 requests at a time, 1 order, 1 payment with any number of attempts, 2 shipments, 1 restart or ignored error of the database, either type of listing (170 thousand states) |
| `lifecycle` | violation: ForwardOnly | as `escrow`, 2 payments |
| `session` | SessionTypeOK, UnreadAddsUp, RightAccount, NoSpuriousSignOut; StaysConnected under `SessionFairness` | 2 accounts, 2 conversations, 1 listing, 2 reconnect loops, 2 calls, 2 unread, 1 toast (516 thousand) |
| `conversation` | PageTypeOK, SaidInThisThread, NoSocketLeftBehind, SpinnersAwaited | 2 threads, 2 sockets, 3 pages opened, 1 message (1.6 million) |
| `thread` | violation: OnlyThisThread | as `conversation`, 2 messages, no symmetry |
| `pages` | PagesTypeOK, OnlyOwnAccounts, AuthSpinnerAwaited; ShownWasCommitted, MaxNeverFalls, StreamEndsWithPage; OneListingPerTry, AskedWithAllPictures, UntouchedPicturesStay; NoListingMissing, ListSpinnerAwaited | sign-in: 2 emails of which one is read, 1 code, 2 calls; listing: prices to 3, channel of 1, 2 calls; forms: 1 required field, a picture and another file, 2 clicks, 1 load; lists: 2 listings, 1 setting of the filters, 2 pages, 2 requests (2.0 million) |

Why the bounds are enough: the row lock serialises decisions, so a third handler
only waits where two already race. Maxima {4,5,8} with an increment of 3 give a
fight above, below and equal to the holder's maximum, cut down at the winner's
maximum, exactly at it and short of it; an asking price of 5 refuses a first bid of
4. In `bidding` the clock has a moment before, at and after the end; in `close` it
stops at the end, where bids are still taken and closures already run. There a
first bid stays below the reserve, a tie at 3 meets it, and a later bid of 5 is what
a closure that read too early would pass over. Two closures are every
pair of starts, and two calls of one message are the retry. The theorems below
hold with no bound at all; the bounds matter for the liveness runs only.

In `escrow` two requests are the fewest that can overwrite each other, one payment can
fail several times before it is made or expires, so that webhooks of both kinds are under
way together, and two shipments are what a second release needs. A second payment of the
order, one to expire while the other is made, is in `lifecycle` and in the theorems of
`Escrow_proofs`, which say that it adds nothing to the invariants; the liveness properties
are not checked with it. One fault is enough for them: each allows an order any outcome
after a fault of its own (a restart, for deliveries only). In `session` two accounts and two calls
give every overlap of a sign-out, a sign-in and a late answer, and two slots are the
loops a cleanup during a lost connection leaves; two unread messages tell "one less"
from "all". In `conversation` the third page opened comes back to the first thread
while answers of both are out, and the second socket closes while the first opens.
In `pages` two requests overlap on each page; the channel of one (ten in the code) is
full after one event; prices to 3 give a bid that wins, one that loses and one
that only raises the maximum; two clicks are a double click or a retry. The filters
have one setting, since no property tells two apart: searches overlap by the page and by
`handleFilterChange`, which asks again for the same.

Symmetry (bidders, handlers, closures, threads, sockets) is used in the safety runs only.

**Fairness.** `Fairness`: a goroutine that can run does (weak fairness of each
handler step but Abort), and PostgreSQL's queue for a row lock starves no waiter
(strong fairness of getting the row); every transaction of the code ends by
itself. `CloseFairness`: besides, the sweeper's ticker goes on (strong fairness of
Sweep), and a database asked again and again does not fail every time (strong
fairness of reading and of writing the verdict). Nothing is assumed of QStash,
timers, the owner, bidders or the clock. `EscrowFairness`: a request that is served
goes on (weak), a goroutine wakes up after its sleep (strong, since all handlers may
be busy in the meantime), and the gateway delivers the webhook of a successful payment
again until it is acknowledged (strong: Cashfree retries what was not answered 200; nothing
is assumed of a webhook that was, of the webhook of a failure, nor of the page). So the
report of a failure may be served after the last delivery of the success and have the last
word; and a webhook answered 200 over an error of the database is used up.
`PaidIsEscrowed` therefore says that what was paid gets into escrow at least once, not that
it stays there, and excepts orders for which an error was ignored; `ShippedIsDelivered`
excepts these and restarts, because the worker tries once. `SessionFairness`: a connection that is being closed ends
and timers fire (weak, of each); nothing is assumed of the user, the server or requests.
`ConversationSpec` and `App` state safety only: their servers may simply fall silent.

**Violations.** Four runs show the code departing from what the repository says:

- `tie`: for equal maxima the challenger's row is inserted first, so the ledger's
  top row, whom the closure sells to, is the challenger, while the reply, the
  broadcast and the proxy row name the holder (`listing.go:518-525`). The
  theorems are about the price and the proxy row and hold with ties.
- `close_twice`: `handleAuctionSold` does not look at the row's state, so a second
  closure creates a second order (`auction_worker.go:61-88`), which
  `auction_worker_perf_test.go:194` says must not be. `OrdersAreBids` and
  `OnTimeBidsCount` hold of each of the orders.
- `lifecycle`: webhook and verification set the status whatever it is
  (`payment.go:187`, `:284`): the late report of a failed attempt fails an order that
  was paid by the next one, and a repeated verification takes a delivered order back
  into escrow, from where it can be shipped and released again. The README of the repository
  gives the life of an order in one direction. What holds nevertheless is that
  everything is backed by a payment, that each release has a shipment of its own, and that
  what was paid gets into escrow at least once, unless an error of the database is ignored.
- `thread`: the page appends every frame to the thread on screen, also a notice
  of another conversation, and takes the history of whichever thread answers last
  (`ConversationDetailPage.jsx:92`, `:124`).

**Exceptions.** Two properties name a case in which the code does less than one would wish:

- `StaysConnected`: of two logins that overlap (password and Google), the second to be
  answered takes over a session that is already on. `isAuthenticated` stays true, so the
  effect of `NotificationsContext.jsx:110` does not run again, and the tab has the first
  account's socket until that connection breaks. The property says that nothing else
  brings this about and that otherwise a socket of the account signed in is opened again.
- `UntouchedPicturesStay`: a URL that was typed into the edit form and erased again is sent
  as an empty one (`EditListingPage.jsx:425`), for which `UpdateListing` deletes every
  picture of the listing and inserts an empty one (`listing.go:302`). Apart from that a
  picture is lost only to an update that brings others.

## 5. Proofs

`ProxyBidding_proofs` proves, for any users, handlers, amounts, increment and end
(assumption `BiddingAssumption`: sets of naturals, the seller a user, the
placeholders distinct), the type invariant, the other invariants and action
properties of the run `bidding`, and that `ProxyBidding` implements `ProxyAuction`.
The inductive invariant is `IInv == TypeOK /\ Control /\ Agreement`:

- `Control` says what a handler knows at each point: from the grant of the row to
  the commit the lock is its own and its locals equal the database's rows. It is
  needed because the branches of the decision speak of locals. It is preserved
  because every other writer of the rows needs the lock.
- `Agreement` relates ledger, proxy row and `asked`: the three data invariants,
  and that the ledger is empty exactly when there is no proxy.

Lemmas about `TopBid` (which tie-break the CHOOSE finds, what an append does to it)
carry the fights; each branch then has one lemma, and the refinement maps each
branch to one abstract step, everything else to a stutter.

`AuctionClose_proofs` reuses that: every step of `AuctionClose` is a step of
`ProxyBidding` or leaves its variables alone (`StepKeepsBidding`, which needs that
a closure with a verdict is past the end, `AfterTheEnd`). `ReadsAreRows` is the
strengthening behind `OnTimeBidsCount` and `OrdersAreBids`: what a closure has
read is a row of an append-only ledger and no row that was there at the end is above
it; the read itself has to be past the end for that. Assumption:
`ClosingAssumption`, three naturals.

`Escrow_proofs` proves `FundsBacked`, `SuccessIsPaid`, `OneReleasePerShipment` and
`EscrowTypeOK` for any number of buyers, requests, orders, payments, shipments, restarts and
ignored errors of the database (assumption
`EscrowAssumption`: there is a buyer, and room for an order; a process serves finitely
many requests at a time). None of them is inductive. `EscrowInv` adds what
each request carries with it: `Sound`, the order it works on exists and, once it is
`Convinced`, a payment for it is made; `Shipments`, the same of what sleeps or was
released; `Links`, a webhook of a success is about a payment that was made; `PageAsks`,
only the request about the payment in the page's address may answer the page. It is
preserved although rows are saved old, because evidence does not age: payments are
never taken back (`PaymentsStay`), so a stale save may take an order back but never put
one ahead of its payment. `Flow` counts: sleepers, requests about to deliver (`Doing`)
and releases of an order together are no more than the shipments that were accepted, so
that a repeated release always is a repeated shipment (`OneReleasePerShipment`). The lemmas on effects (`TxnsEffect`, `OrdersEffect`,
`ShipmentsEffect`) say which actions can touch what, so that each part of the
invariant is looked at only where it can be disturbed.

`ConversationPage_proofs` proves the four invariants of the run `conversation`, for any
threads, sockets, visits and messages. `ThreadInv` adds to them `SocketOfThread` (the
server has wsRef's socket in the hub of the thread on screen, or no longer has it; the
link between `wsRef`, which the page sees, and `conn`, which decides where a message is
saved) and `AskedByThread` (requests for a thread are in flight only while some thread is
on screen, so a spinner has something to wait for). The step that matters is
`SocketEffectSafe`: cleanup and connect together.

`ClientSession_proofs` proves the type invariant, `UnreadAddsUp`, `RightAccount` and
`NoSpuriousSignOut`, for any accounts, any finite set of conversations and any bounds
with room for one socket. `Owned` is the strengthening: the user in storage is that of
the token in storage, memory has a token only if storage has the same, and a session is
rendered only with a token, also between the write of one and that of the next. The badge is a number kept beside the entries it should be the sum of, so the
proof needs what a sum is: `FoldIsSum` reduces the fold to a recursive function on the
subsets of the domain, `SumOfChange` says how one entry's change moves it.

`App_proofs` has the twelve theorems of the pages, the lemmas of `AuthPage` and `Browse`, and takes
those of the other two from `ListingPage_proofs` and `ListingForm_proofs`. `PagesInv` is
one invariant per page. A step of one page changes nothing of another's, but it may leave
the page: each invariant has to survive the route going elsewhere while its requests are
in flight (`AuthStutter` and its like), which is what "in flight only on the page or after
it" in each of them is for.

- `AuthInv`: `NotOthers`, a code that is in a mail the user reads or in a request
  is not one the server keeps for somebody else's email, though codes are replaced,
  used up and expire meanwhile. `OnlyOwnAccounts` follows.
- `ListingInv`: whatever is on its way to the page (an event to be sent, one in the
  channel, an answer) was committed; a fetch is alone; one bid at a time, not below
  the maximum shown when it is taken. The server has the mark of who leads right (`ServerOK`).
- `FormInv`: one submission at a time, and clicks are ahead of the failures told of by at
  most one, and by none when the next click is possible; once it is sent a submission has all the pictures
  that were wanted.
- `BrowseInv`: `MissesNothing`, per request: between the two requests of MyListingsPage a
  listing may be sold, and so be in both answers, but never in neither, because the
  unsold ones are asked for first. A set of at most `MineLimit` goods is never cut.

Assumptions of these: `WebPageAssumption` (no user is called Nobody), `AuthAssumption`,
`ListingPageAssumption`, `ListingFormAssumption` and `BrowseAssumption`: the market is finite, pictures
are files, placeholders are none of what they stand beside, bounds are natural numbers
with room for one step (two prices, one load, one page).

The library's induction theorems take an operator as a parameter, which the provers
cannot instantiate. Where a recursive function is reasoned about (the sum of the counts,
the history of a thread) the proofs go by a minimal counterexample instead: the set of
arguments for which the claim fails, if not empty, has a minimal element by the
well-foundedness of `<` or of the strict subset relation (`SmallestNumber`,
`SmallestSubset`, `Highest`), and that one cannot fail. This way also gives that the
recursions have a solution at all (`SumRecursion`, `RowsRecursion`).

Model-checked only: the liveness properties `EveryBidAnswered`, `ExpiredIsClosed`,
`PaidIsEscrowed`, `ShippedIsDelivered` and `StaysConnected` (fairness and ENABLED are
outside the prover), and the violations.

## 6. Not modelled

- The hub goroutine of the chat, its map and mutex, and the Send channels that hub and
  manager share: `ConversationPage` has what a tab sees of them. The races there
  (`hub.go:39`, `client.go:194`) stop the process or panic; the hazard at `hub.go:39` names both.
- Token blacklist and cache, rate limit: what they promise is a bound in real time (a
  minute of cache, so many requests per window), which these untimed models do not
  express.
- Find-or-create of a conversation: there is no unique index, so two requests make
  two rows; a property would restate that.
- The notices API, profile and avatar routes, search and sorting, signature checks
  and input validation beyond what changes state; uploads and mail but for their
  outcome; start-up, migrations, the keep-alive ping.
- Notices, mails and broadcasts after a closure: the bid stream of `ListingPage` has
  the event, the rest is fire and forget.
- A payment writes the whole listing row as well, with the values it read before;
  `Escrow` has of it what an order can tell, that the listing is sold.
- Layout, animation, wording, the picture gallery and the countdown of the pages.

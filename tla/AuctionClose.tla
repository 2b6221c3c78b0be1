---------------------------- MODULE AuctionClose ----------------------------
(***************************************************************************)
(* How an auction ends: the closure worker (workers/auction_worker.go) and *)
(* the three ways a closure is started, beside the bids of ProxyBidding.   *)
(*                                                                         *)
(*   timer    time.AfterFunc of this process, when QStash cannot be used;  *)
(*            lost when the process dies                                   *)
(*   qstash   an HTTP call of the QStash service, tried 1 + Retries times  *)
(*            until one is answered 200; QStash itself is external         *)
(*   sweeper  a query for expired active auctions, at start-up and every   *)
(*            five minutes                                                 *)
(*                                                                         *)
(* Each starts processAuctionClosure on a COPY of the listing row, and no  *)
(* lock is held between that copy, the read of the highest bid and the     *)
(* transaction that writes the verdict. The last one waits for the row     *)
(* lock of the bid transactions.                                           *)
(*                                                                         *)
(* Left out: the notices, mails and broadcasts that follow the commit, and *)
(* the signature check of the QStash call.                                 *)
(***************************************************************************)
EXTENDS ProxyBidding

CONSTANTS Closers,       \* goroutines that may run a closure
          MaxMessages,   \* bound: QStash messages one auction publishes
          Attempts,      \* 1 + Retries: calls QStash makes for a message
          MaxCrashes     \* bound: restarts of the process

ASSUME ClosingAssumption ==
  /\ MaxMessages \in Nat
  /\ Attempts \in Nat \ {0}
  /\ MaxCrashes \in Nat

VARIABLES orders,        \* table orders of this listing, in creation order
          closer,        \* closer[c]: where closure c is and what it has read
          messages,      \* messages[m]: calls QStash still makes for message m
          published,     \* messages published so far
          savedMsg,      \* listing.qstash_message_id, 0 for ''
          timers,        \* in-process timers pending
          creator,       \* CreateListing: "inserted" the row, then "done"
          crashes,       \* restarts so far
          onTime         \* history: rows of the ledger when the auction ended

closeVars == <<orders, closer, messages, published, savedMsg, timers, creator,
               crashes, onTime>>
allVars   == <<vars, closeVars>>

Messages == 1 .. MaxMessages
NoRow    == Row(NoUser, 0)
NoClosure ==
  [at |-> "idle", from |-> "none", msg |-> 0, reserve |-> 0, saved |-> 0, top |-> NoRow]

CloseInit ==
  /\ Init
  /\ orders = <<>>
  /\ closer = [c \in Closers |-> NoClosure]
  /\ messages = [m \in Messages |-> 0]
  /\ published = 0
  /\ savedMsg = 0
  /\ timers = 0
  /\ creator = "inserted"
  /\ crashes = 0
  /\ onTime = 0

-----------------------------------------------------------------------------
(* Scheduling.                                                             *)

\* ScheduleAuctionClose, with ms the messages QStash has at that moment. The
\* message id may fail to be saved, and the process may die before it is.
Schedule(ms) ==
  \/ /\ published < MaxMessages
     /\ published' = published + 1
     /\ messages' = [ms EXCEPT ![published + 1] = Attempts]
     /\ savedMsg' \in {savedMsg, published + 1}
     /\ UNCHANGED timers
  \/ /\ messages' = ms
     /\ timers' = timers + 1
     /\ UNCHANGED <<published, savedMsg>>

\* CancelAuctionClose, which may fail: the messages there may be afterwards.
Cancelled(id, ms) == IF id = 0 THEN {ms} ELSE {ms, [ms EXCEPT ![id] = 0]}

\* What QStash holds once closure c has answered 200: the message is done,
\* unless the answer is lost. Closures of the process answer nobody.
Answered(c, ms) == Cancelled(closer[c].msg, ms)

\* CreateListing has inserted the row (the initial state) and schedules.
CreatorSchedules ==
  /\ creator = "inserted"
  /\ creator' = "done"
  /\ Schedule(messages)
  /\ UNCHANGED <<vars, orders, closer, crashes, onTime>>

-----------------------------------------------------------------------------
(* The starts of a closure.                                                *)

\* processAuctionClosure is called with a copy of the row.
Begin(c, from, m) ==
  closer' = [closer EXCEPT ![c] =
               [at |-> "opened", from |-> from, msg |-> m,
                reserve |-> listing.reserve, saved |-> savedMsg, top |-> NoRow]]

\* TriggerAuctionClose: the timer goroutine looks only whether the row exists.
TimerFires(c) ==
  /\ closer[c].at = "idle"
  /\ timers > 0
  /\ EndsAt <= now
  /\ timers' = timers - 1
  /\ IF listing.deleted THEN UNCHANGED closer ELSE Begin(c, "timer", 0)
  /\ UNCHANGED <<vars, orders, messages, published, savedMsg, creator, crashes, onTime>>

\* NotBefore carries whole seconds: a call may come one tick early. A call is
\* repeated while an earlier one is still being served.
Callable(m) == messages[m] > 0 /\ EndsAt <= now + 1

StillOpen == ~listing.deleted /\ ~listing.isSold /\ listing.status = "active"

\* HandleQStashAuctionClose takes the job.
CallTaken(c, m) ==
  /\ closer[c].at = "idle"
  /\ Callable(m)
  /\ StillOpen
  /\ messages' = [messages EXCEPT ![m] = @ - 1]
  /\ Begin(c, "qstash", m)
  /\ UNCHANGED <<vars, orders, published, savedMsg, timers, creator, crashes, onTime>>

\* It drops the job of a listing that is gone or closed, and answers 200.
CallDropped(m) ==
  /\ Callable(m)
  /\ ~StillOpen
  /\ messages' \in {[messages EXCEPT ![m] = @ - 1], [messages EXCEPT ![m] = 0]}
  /\ UNCHANGED <<vars, orders, closer, published, savedMsg, timers, creator, crashes,
                 onTime>>

\* The call does not get through, or is answered with an error.
CallFails(m) ==
  /\ Callable(m)
  /\ messages' = [messages EXCEPT ![m] = @ - 1]
  /\ UNCHANGED <<vars, orders, closer, published, savedMsg, timers, creator, crashes,
                 onTime>>

SweepUnscheduled(c) ==       \* slip: rows with a message id left to QStash
  /\ closer[c].at = "idle"
  /\ \A d \in Closers : closer[d].from # "sweeper"
  /\ StillOpen
  /\ savedMsg = 0
  /\ EndsAt <= now
  /\ Begin(c, "sweeper", 0)
  /\ UNCHANGED <<vars, orders, messages, published, savedMsg, timers, creator, crashes,
                 onTime>>

\* runSweep: one goroutine, so one closure of its own at a time.
Sweep(c) ==
  /\ closer[c].at = "idle"
  /\ \A d \in Closers : closer[d].from # "sweeper"
  /\ StillOpen
  /\ EndsAt <= now
  /\ Begin(c, "sweeper", 0)
  /\ UNCHANGED <<vars, orders, messages, published, savedMsg, timers, creator, crashes,
                 onTime>>

-----------------------------------------------------------------------------
(* processAuctionClosure.                                                  *)

\* Closure c returns, with ms the messages left by what it did.
Return(c, ms) ==
  /\ closer' = [closer EXCEPT ![c] = NoClosure]
  /\ messages' \in Answered(c, ms)

\* Too early: the job named in the copy is cancelled and another scheduled.
Postpone(c) ==
  /\ closer[c].at = "opened"
  /\ now < EndsAt
  /\ closer' = [closer EXCEPT ![c] = NoClosure]
  /\ \E ms \in Cancelled(closer[c].saved, messages) :
       \E rest \in Answered(c, ms) : Schedule(rest)
  /\ UNCHANGED <<vars, orders, creator, crashes, onTime>>

ReadHighestEarly(c) ==       \* slip: no look at the clock
  /\ closer[c].at = "opened"
  /\ closer' = [closer EXCEPT ![c].at = "verdict",
                              ![c].top = IF bids = <<>> THEN NoRow ELSE TopBid(bids)]
  /\ UNCHANGED <<vars, orders, messages, published, savedMsg, timers, creator, crashes,
                 onTime>>

\* The highest bid is read, outside any transaction.
ReadHighest(c) ==
  /\ closer[c].at = "opened"
  /\ EndsAt <= now
  /\ closer' = [closer EXCEPT ![c].at = "verdict",
                              ![c].top = IF bids = <<>> THEN NoRow ELSE TopBid(bids)]
  /\ UNCHANGED <<vars, orders, messages, published, savedMsg, timers, creator, crashes,
                 onTime>>

ReserveMetSwapped(c) ==      \* slip: the comparison the wrong way round
  closer[c].reserve = 0 \/ closer[c].reserve >= closer[c].top.amount

\* The reserve is the one of the copy; none is set when it is 0.
ReserveMet(c) ==
  /\ closer[c].top # NoRow
  /\ closer[c].reserve = 0 \/ closer[c].top.amount >= closer[c].reserve

SellWithoutOrder(c) ==       \* slip: the listing is committed before the order
  /\ closer[c].at = "verdict"
  /\ ReserveMet(c)
  /\ rowLock = NoHandler
  /\ listing' = IF listing.deleted THEN listing
                ELSE [listing EXCEPT !.isSold = TRUE, !.status = "sold"]
  /\ \/ UNCHANGED orders
     \/ orders' = Append(orders, [winner |-> closer[c].top.bidder,
                                  amount |-> closer[c].top.amount])
  /\ Return(c, messages)
  /\ UNCHANGED <<now, bids, proxy, rowLock, localVars, asked>>
  /\ UNCHANGED <<published, savedMsg, timers, creator, crashes, onTime>>

SellUnderLock(c) ==          \* slip: the verdict written past the row lock
  /\ closer[c].at = "verdict"
  /\ ReserveMet(c)
  /\ listing' = IF listing.deleted THEN listing
                ELSE [listing EXCEPT !.isSold = TRUE, !.status = "sold"]
  /\ orders' = Append(orders, [winner |-> closer[c].top.bidder,
                               amount |-> closer[c].top.amount])
  /\ Return(c, messages)
  /\ UNCHANGED <<now, bids, proxy, rowLock, localVars, asked>>
  /\ UNCHANGED <<published, savedMsg, timers, creator, crashes, onTime>>

\* handleAuctionSold: one transaction marks the listing and creates the order.
\* The UPDATE of a deleted listing finds no row, which is no error.
Sell(c) ==
  /\ closer[c].at = "verdict"
  /\ ReserveMet(c)
  /\ rowLock = NoHandler
  /\ listing' = IF listing.deleted THEN listing
                ELSE [listing EXCEPT !.isSold = TRUE, !.status = "sold"]
  /\ orders' = Append(orders, [winner |-> closer[c].top.bidder,
                               amount |-> closer[c].top.amount])
  /\ Return(c, messages)
  /\ UNCHANGED <<now, bids, proxy, rowLock, localVars, asked>>
  /\ UNCHANGED <<published, savedMsg, timers, creator, crashes, onTime>>

\* handleReserveNotMet: the status alone, whatever it was.
ReserveNotMet(c) ==
  /\ closer[c].at = "verdict"
  /\ ~ReserveMet(c)
  /\ rowLock = NoHandler
  /\ listing' = IF listing.deleted THEN listing
                ELSE [listing EXCEPT !.status = "reserve_not_met"]
  /\ Return(c, messages)
  /\ UNCHANGED <<now, bids, proxy, rowLock, localVars, asked>>
  /\ UNCHANGED <<orders, published, savedMsg, timers, creator, crashes, onTime>>

\* A statement fails: rollback, a line in the log, and still a 200. One that
\* waits for the row fails, if it does, when its turn has come.
CloseFails(c) ==
  /\ \/ closer[c].at = "opened"
     \/ closer[c].at = "verdict" /\ rowLock = NoHandler
  /\ EndsAt <= now
  /\ Return(c, messages)
  /\ UNCHANGED <<vars, orders, published, savedMsg, timers, creator, crashes, onTime>>

-----------------------------------------------------------------------------
\* The process dies and starts again: timers, closures and a CreateListing
\* that has not scheduled yet are gone; the tables and QStash are not.
Restart ==
  /\ crashes < MaxCrashes
  /\ crashes' = crashes + 1
  /\ Crash
  /\ closer' = [c \in Closers |-> NoClosure]
  /\ timers' = 0
  /\ creator' = "done"
  /\ UNCHANGED <<orders, messages, published, savedMsg, onTime>>

ClosureStep(c) ==
  \/ Postpone(c)
  \/ ReadHighest(c)
  \/ Sell(c)
  \/ ReserveNotMet(c)

CloserStep(c) ==
  \/ TimerFires(c)
  \/ \E m \in Messages : CallTaken(c, m)
  \/ Sweep(c)
  \/ ClosureStep(c)
  \/ CloseFails(c)

\* The rest of the system leaves the closures alone; the history counts the
\* rows of the ledger until the end.
OtherStep ==
  /\ BidRequest \/ UpdateListing \/ DeleteListing \/ Tick
  /\ onTime' = IF now < EndsAt THEN Len(bids') ELSE onTime
  /\ UNCHANGED <<orders, closer, messages, published, savedMsg, timers, creator,
                 crashes>>

CloseNext ==
  \/ OtherStep
  \/ CreatorSchedules
  \/ \E m \in Messages : CallDropped(m)
  \/ \E m \in Messages : CallFails(m)
  \/ \E c \in Closers : CloserStep(c)
  \/ Restart

CloseSpec == CloseInit /\ [][CloseNext]_allVars

-----------------------------------------------------------------------------
(* Fairness: the sweeper's ticker keeps ticking, a goroutine that can go on *)
(* does, and a database asked again and again does not fail every time.     *)
(* QStash, timers, the owner and the bidders owe nothing.                   *)
CloseFairness ==
  /\ \A h \in Handlers : WF_allVars(HandlerStep(h) /\ OtherStep)
  /\ \A c \in Closers :
       /\ WF_allVars(Postpone(c))
       /\ SF_allVars(Sweep(c))
       /\ SF_allVars(ReadHighest(c))
       /\ SF_allVars(Sell(c) \/ ReserveNotMet(c))

FairCloseSpec == CloseSpec /\ CloseFairness

-----------------------------------------------------------------------------
(* Properties.                                                             *)

\* The closures' own state has its shape.
CloseTypeOK ==
  /\ orders \in Seq([winner : Bidders, amount : Nat])
  /\ closer \in [Closers ->
       [at : {"idle", "opened", "verdict"},
        from : {"none", "timer", "qstash", "sweeper"},
        msg : Messages \cup {0}, reserve : Reserves \cup {0},
        saved : Messages \cup {0},
        top : [bidder : Bidders \cup {NoUser}, amount : Nat]]]
  /\ messages \in [Messages -> 0 .. Attempts]
  /\ published \in 0 .. MaxMessages
  /\ savedMsg \in Messages \cup {0}
  /\ timers \in Nat
  /\ creator \in {"inserted", "done"}
  /\ crashes \in 0 .. MaxCrashes
  /\ onTime \in 0 .. Len(bids)

\* A sold listing has an order, and every order names a row of the ledger, which
\* is never above what that user authorised: no crash between the two writes, no
\* stale read and no repeated closure sells to a user or at an amount nobody bid.
OrdersAreBids ==
  /\ listing.isSold => orders # <<>>
  /\ \A o \in DOMAIN orders :
       /\ \E i \in DOMAIN bids :
            bids[i] = Row(orders[o].winner, orders[o].amount)
       /\ orders[o].amount <= asked[orders[o].winner]

\* No bid committed before the end is passed over: whichever start closes the
\* auction, and however early QStash calls, each order is at least every row the
\* ledger had when the auction ended.
OnTimeBidsCount ==
  \A o \in DOMAIN orders, i \in 1 .. onTime : bids[i].amount <= orders[o].amount

\* The closures write the listing row only as ProxyBidding allows (never under a
\* bid's lock, never before the end), so what holds of the bids there holds here.
KeepsBiddingSpec == Spec

\* An expired auction does not stay open: whatever the crashes, the lost timers
\* and the lost calls, the sweeper closes it.
ExpiredIsClosed ==
  (EndsAt <= now) ~> (listing.status # "active" \/ listing.deleted)

\* auction_worker_perf_test.go:194 expects "exactly 1 order after idempotent
\* double-close"; the order is created with no look at the listing's state.
AtMostOneOrder == Len(orders) <= 1
=============================================================================

------------------------ MODULE AuctionClose_proofs ------------------------
(***************************************************************************)
(* Theorems of AuctionClose, for any number of closures, messages, calls   *)
(* and restarts. Every step of the closures is a step of ProxyBidding, so  *)
(* the theorems of ProxyBidding_proofs hold here; with them, what a        *)
(* closure has read stays a row of an append-only ledger.                  *)
(***************************************************************************)
EXTENDS AuctionClose, ProxyBidding_proofs

USE ClosingAssumption

\* A closure that has read the highest bid has done so after the end.
AfterTheEnd == \A c \in Closers : closer[c].at = "verdict" => EndsAt <= now

\* A step of the closures, their starts or a restart is a step of ProxyBidding.
LEMMA StepKeepsBidding ==
  ASSUME AfterTheEnd, [CloseNext]_allVars
  PROVE  [Next]_vars
<1>1. CASE OtherStep
  BY <1>1 DEF OtherStep, Next
<1>2. CASE CreatorSchedules
  BY <1>2 DEF CreatorSchedules
<1>3. ASSUME NEW m \in Messages, CallDropped(m) \/ CallFails(m)
      PROVE  [Next]_vars
  BY <1>3 DEF CallDropped, CallFails
<1>4. ASSUME NEW c \in Closers, CloserStep(c)
      PROVE  [Next]_vars
  <2>1. CASE TimerFires(c) \/ (\E m \in Messages : CallTaken(c, m)) \/ Sweep(c)
             \/ Postpone(c) \/ ReadHighest(c) \/ CloseFails(c)
    BY <2>1 DEF TimerFires, CallTaken, Sweep, Postpone, ReadHighest, CloseFails
  <2>2. CASE Sell(c) \/ ReserveNotMet(c)
    <3>1. EndsAt <= now
      BY <2>2 DEF AfterTheEnd, Sell, ReserveNotMet
    <3>2. CASE listing.deleted
      BY <2>2, <3>2 DEF Sell, ReserveNotMet, vars, localVars
    <3>3. CASE ~listing.deleted
      BY <2>2, <3>1, <3>3 DEF Sell, ReserveNotMet, CloseListing, Next
    <3> QED
      BY <3>2, <3>3
  <2> QED
    BY <1>4, <2>1, <2>2 DEF CloserStep, ClosureStep
<1>5. CASE Restart
  BY <1>5 DEF Restart, Next
<1>6. CASE UNCHANGED allVars
  BY <1>6 DEF allVars
<1> QED
  BY <1>1, <1>2, <1>3, <1>4, <1>5, <1>6 DEF CloseNext

-----------------------------------------------------------------------------
(* The inductive invariant.                                                *)

\* What a closure has read is in the ledger, and nothing that was in the ledger
\* at the end is above it.
ReadsAreRows ==
  \A c \in Closers : closer[c].at = "verdict" =>
    /\ closer[c].top # NoRow => \E i \in DOMAIN bids : bids[i] = closer[c].top
    /\ \A i \in 1 .. onTime : bids[i].amount <= closer[c].top.amount

\* The orders there are.
OrdersHold ==
  /\ orders # <<>> => EndsAt <= now
  /\ listing.isSold => orders # <<>>
  /\ \A o \in DOMAIN orders :
       \E i \in DOMAIN bids : bids[i] = Row(orders[o].winner, orders[o].amount)
  /\ OnTimeBidsCount

CloseInv == IInv /\ CloseTypeOK /\ AfterTheEnd /\ ReadsAreRows /\ OrdersHold

\* The shape of one closure.
Closures == [at : {"idle", "opened", "verdict"},
             from : {"none", "timer", "qstash", "sweeper"},
             msg : Messages \cup {0}, reserve : Reserves \cup {0},
             saved : Messages \cup {0},
             top : [bidder : Bidders \cup {NoUser}, amount : Nat]]

\* An idle closure has the shape of a closure.
LEMMA NoClosureTyped ==
  /\ NoClosure \in Closures
  /\ NoRow \in [bidder : Bidders \cup {NoUser}, amount : Nat]
<1>1. NoRow \in [bidder : Bidders \cup {NoUser}, amount : Nat]
  BY DEF NoRow, Row
<1> QED
  BY <1>1 DEF NoClosure, Closures

\* The initial states satisfy the invariant.
LEMMA InitCloseInv == CloseInit => CloseInv
<1> SUFFICES ASSUME CloseInit PROVE CloseInv
  OBVIOUS
<1>1. IInv
  BY InitIInv DEF CloseInit
<1>2. closer = [c \in Closers |-> NoClosure] /\ closer \in [Closers -> Closures]
  BY NoClosureTyped DEF CloseInit
<1>3. messages \in [Messages -> 0 .. Attempts]
  BY DEF CloseInit
<1>4. CloseTypeOK
  <2>1. orders = <<>> /\ bids = <<>> /\ onTime = 0 /\ published = 0 /\ savedMsg = 0
        /\ timers = 0 /\ creator = "inserted" /\ crashes = 0
    BY DEF CloseInit, Init
  <2> QED
    BY <1>2, <1>3, <2>1 DEF CloseTypeOK, Closures
<1>5. \A c \in Closers : closer[c].at = "idle"
  BY <1>2 DEF NoClosure
<1>6. AfterTheEnd /\ ReadsAreRows
  BY <1>5 DEF AfterTheEnd, ReadsAreRows
<1>7. OrdersHold
  <2>1. orders = <<>> /\ ~listing.isSold
    BY DEF CloseInit, Init
  <2> QED
    BY <2>1 DEF OrdersHold, OnTimeBidsCount
<1> QED
  BY <1>1, <1>4, <1>6, <1>7 DEF CloseInv

-----------------------------------------------------------------------------
(* Types.                                                                  *)

MessageCounts == [Messages -> 0 .. Attempts]

\* What the steps do to everything but the closures and the orders.
ScheduleType ==
  /\ messages \in MessageCounts
  /\ published \in 0 .. MaxMessages
  /\ savedMsg \in Messages \cup {0}
  /\ timers \in Nat

\* The type invariant falls into the scheduling and the rest.
LEMMA CloseTypeParts ==
  /\ CloseTypeOK <=>
       /\ ScheduleType /\ closer \in [Closers -> Closures]
       /\ orders \in Seq([winner : Bidders, amount : Nat])
       /\ creator \in {"inserted", "done"} /\ crashes \in 0 .. MaxCrashes
       /\ onTime \in 0 .. Len(bids)
  /\ CloseTypeOK' <=>
       /\ ScheduleType' /\ closer' \in [Closers -> Closures]
       /\ orders' \in Seq([winner : Bidders, amount : Nat])
       /\ creator' \in {"inserted", "done"} /\ crashes' \in 0 .. MaxCrashes
       /\ onTime' \in 0 .. Len(bids')
BY DEF CloseTypeOK, ScheduleType, Closures, MessageCounts

\* CancelAuctionClose leaves counts of calls.
LEMMA CancelTyped ==
  ASSUME NEW ms \in MessageCounts, NEW id \in Messages \cup {0}, NEW rest \in Cancelled(id, ms)
  PROVE  rest \in MessageCounts
BY DEF Cancelled, MessageCounts

\* ScheduleAuctionClose keeps the types.
LEMMA ScheduleTyped ==
  ASSUME ScheduleType, NEW ms \in MessageCounts, Schedule(ms)
  PROVE  ScheduleType'
<1>1. CASE /\ published < MaxMessages
           /\ published' = published + 1
           /\ messages' = [ms EXCEPT ![published + 1] = Attempts]
           /\ savedMsg' \in {savedMsg, published + 1}
           /\ UNCHANGED timers
  <2>1. published + 1 \in Messages
    BY <1>1 DEF ScheduleType, Messages
  <2> QED
    BY <1>1, <2>1 DEF ScheduleType, MessageCounts, Messages
<1>2. CASE messages' = ms /\ timers' = timers + 1 /\ UNCHANGED <<published, savedMsg>>
  BY <1>2 DEF ScheduleType
<1> QED
  BY <1>1, <1>2 DEF Schedule

\* So does the start of a closure.
LEMMA BeginTyped ==
  ASSUME RowType, ScheduleType, closer \in [Closers -> Closures], NEW c \in Closers,
         NEW from \in {"timer", "qstash", "sweeper"}, NEW m \in Messages \cup {0},
         Begin(c, from, m)
  PROVE  closer' \in [Closers -> Closures] /\ closer'[c].at = "opened"
<1>1. listing.reserve \in Reserves \cup {0} /\ savedMsg \in Messages \cup {0}
  BY DEF RowType, ScheduleType
<1>2. [at |-> "opened", from |-> from, msg |-> m,
       reserve |-> listing.reserve, saved |-> savedMsg, top |-> NoRow] \in Closures
  BY <1>1, NoClosureTyped DEF Closures
<1> QED
  BY <1>2 DEF Begin

\* The ledger only grows.
LEMMA LedgerLonger ==
  ASSUME IInv, IInv', [Next]_vars
  PROVE  /\ Len(bids) \in Nat /\ Len(bids') \in Nat /\ Len(bids) <= Len(bids')
         /\ DOMAIN bids = 1 .. Len(bids) /\ DOMAIN bids' = 1 .. Len(bids')
         /\ \A i \in DOMAIN bids : i \in DOMAIN bids' /\ bids'[i] = bids[i]
<1>1. bids \in Seq(Rows) /\ bids' \in Seq(Rows)
  BY DEF IInv, TypeOK, Rows
<1>2. \A i \in DOMAIN bids : i \in DOMAIN bids' /\ bids'[i] = bids[i]
  BY LedgerGrows
<1>3. /\ Len(bids) \in Nat /\ Len(bids') \in Nat
      /\ DOMAIN bids = 1 .. Len(bids) /\ DOMAIN bids' = 1 .. Len(bids')
  BY <1>1
<1>4. Len(bids) <= Len(bids')
  BY <1>2, <1>3
<1> QED
  BY <1>2, <1>3, <1>4

\* What an idle closure returns to is a state of its own, and the messages are
\* still counts.
LEMMA ReturnTyped ==
  ASSUME ScheduleType, closer \in [Closers -> Closures], NEW c \in Closers,
         NEW ms \in MessageCounts, Return(c, ms)
  PROVE  /\ messages' \in MessageCounts
         /\ closer' \in [Closers -> Closures]
         /\ closer' = [closer EXCEPT ![c] = NoClosure]
<1>1. closer[c].msg \in Messages \cup {0}
  BY DEF Closures
<1>2. messages' \in MessageCounts
  BY <1>1, CancelTyped DEF Return, Answered
<1> QED
  BY <1>2, NoClosureTyped DEF Return

\* The row a closure sells to is typed.
LEMMA TopTyped ==
  ASSUME CloseInv, NEW c \in Closers, closer[c].at = "verdict", closer[c].top # NoRow
  PROVE  /\ closer[c].top \in Rows
         /\ \E i \in DOMAIN bids : bids[i] = closer[c].top
         /\ closer[c].top = Row(closer[c].top.bidder, closer[c].top.amount)
<1>1. PICK i \in DOMAIN bids : bids[i] = closer[c].top
  BY DEF CloseInv, ReadsAreRows
<1>2. bids \in Seq(Rows)
  BY DEF CloseInv, IInv, TypeOK, Rows
<1>3. closer[c].top \in Rows
  BY <1>1, <1>2
<1> QED
  BY <1>1, <1>3 DEF Rows, Row

\* A closure that has read the highest bid is still a closure.
LEMMA VerdictTyped ==
  ASSUME NEW k \in Closures, NEW t \in [bidder : Bidders \cup {NoUser}, amount : Nat]
  PROVE  [k EXCEPT !.at = "verdict", !.top = t] \in Closures
BY DEF Closures

\* Every step keeps the shape of the closures' own state.
LEMMA CloseTypeStep ==
  ASSUME CloseInv, IInv', [Next]_vars, [CloseNext]_allVars
  PROVE  CloseTypeOK'
<1>0. /\ ScheduleType /\ closer \in [Closers -> Closures] /\ RowType
      /\ orders \in Seq([winner : Bidders, amount : Nat])
      /\ creator \in {"inserted", "done"} /\ crashes \in 0 .. MaxCrashes
      /\ onTime \in 0 .. Len(bids)
  BY CloseTypeParts, TypeParts DEF CloseInv, IInv
<1>1. Len(bids) \in Nat /\ Len(bids') \in Nat /\ Len(bids) <= Len(bids')
  BY LedgerLonger DEF CloseInv
<1>2. onTime' = onTime => onTime' \in 0 .. Len(bids')
  BY <1>0, <1>1
<1>3. CASE OtherStep
  <2>1. onTime' \in 0 .. Len(bids')
    BY <1>0, <1>1, <1>3 DEF OtherStep
  <2>2. ScheduleType'
    BY <1>0, <1>3 DEF OtherStep, ScheduleType
  <2> QED
    BY <1>0, <1>3, <2>1, <2>2, CloseTypeParts DEF OtherStep
<1>4. CASE CreatorSchedules
  <2>1. ScheduleType'
    BY <1>0, <1>4, ScheduleTyped DEF CreatorSchedules, ScheduleType
  <2> QED
    BY <1>0, <1>2, <1>4, <2>1, CloseTypeParts DEF CreatorSchedules
<1>5. ASSUME NEW m \in Messages, CallDropped(m) \/ CallFails(m)
      PROVE  CloseTypeOK'
  <2>1. messages[m] - 1 \in 0 .. Attempts
    BY <1>0, <1>5 DEF CallDropped, CallFails, Callable, ScheduleType, MessageCounts
  <2>2. ScheduleType'
    <3>1. messages \in MessageCounts /\ 0 \in 0 .. Attempts
      BY <1>0 DEF ScheduleType
    <3>2. \A k \in 0 .. Attempts : [messages EXCEPT ![m] = k] \in MessageCounts
      BY <3>1 DEF MessageCounts
    <3>3. messages' \in MessageCounts
      BY <1>5, <2>1, <3>1, <3>2 DEF CallDropped, CallFails
    <3> QED
      BY <1>0, <1>5, <3>3 DEF CallDropped, CallFails, ScheduleType
  <2> QED
    BY <1>0, <1>2, <1>5, <2>2, CloseTypeParts DEF CallDropped, CallFails
<1>6. ASSUME NEW c \in Closers, TimerFires(c)
      PROVE  CloseTypeOK'
  <2>1. closer' \in [Closers -> Closures]
    BY <1>0, <1>6, BeginTyped DEF TimerFires
  <2>2. ScheduleType'
    BY <1>0, <1>6 DEF TimerFires, ScheduleType
  <2> QED
    BY <1>0, <1>2, <1>6, <2>1, <2>2, CloseTypeParts DEF TimerFires
<1>7. ASSUME NEW c \in Closers, NEW m \in Messages, CallTaken(c, m)
      PROVE  CloseTypeOK'
  <2>1. closer' \in [Closers -> Closures]
    BY <1>0, <1>7, BeginTyped DEF CallTaken
  <2>2. messages[m] - 1 \in 0 .. Attempts
    BY <1>0, <1>7 DEF CallTaken, Callable, ScheduleType, MessageCounts
  <2>3. ScheduleType'
    BY <1>0, <1>7, <2>2 DEF CallTaken, ScheduleType, MessageCounts
  <2> QED
    BY <1>0, <1>2, <1>7, <2>1, <2>3, CloseTypeParts DEF CallTaken
<1>8. ASSUME NEW c \in Closers, Sweep(c)
      PROVE  CloseTypeOK'
  <2>1. closer' \in [Closers -> Closures]
    BY <1>0, <1>8, BeginTyped DEF Sweep
  <2>2. ScheduleType'
    BY <1>0, <1>8 DEF Sweep, ScheduleType
  <2> QED
    BY <1>0, <1>2, <1>8, <2>1, <2>2, CloseTypeParts DEF Sweep
<1>9. ASSUME NEW c \in Closers, Postpone(c)
      PROVE  CloseTypeOK'
  <2>1. PICK ms \in Cancelled(closer[c].saved, messages) :
          \E rest \in Answered(c, ms) : Schedule(rest)
    BY <1>9 DEF Postpone
  <2>2. PICK rest \in Answered(c, ms) : Schedule(rest)
    BY <2>1
  <2>3. /\ closer[c].saved \in Messages \cup {0} /\ closer[c].msg \in Messages \cup {0}
        /\ messages \in MessageCounts
    BY <1>0 DEF Closures, ScheduleType
  <2>4. ms \in MessageCounts
    BY <2>1, <2>3, CancelTyped
  <2>5. rest \in MessageCounts
    BY <2>2, <2>3, <2>4, CancelTyped DEF Answered
  <2>6. ScheduleType'
    BY <1>0, <2>2, <2>5, ScheduleTyped
  <2>7. closer' \in [Closers -> Closures]
    BY <1>0, <1>9, NoClosureTyped DEF Postpone
  <2> QED
    BY <1>0, <1>2, <1>9, <2>6, <2>7, CloseTypeParts DEF Postpone
<1>10. ASSUME NEW c \in Closers, ReadHighest(c)
       PROVE  CloseTypeOK'
  <2> DEFINE t == IF bids = <<>> THEN NoRow ELSE TopBid(bids)
  <2>1. t \in [bidder : Bidders \cup {NoUser}, amount : Nat]
    <3>1. CASE bids = <<>>
      BY <3>1, NoClosureTyped
    <3>2. CASE bids # <<>>
      <4>1. bids \in Seq(Rows) /\ HasTop(bids)
        BY <3>2 DEF CloseInv, IInv, Agreement, TypeOK, Rows
      <4>2. TopBid(bids) \in Rows
        BY <4>1, TopIsGreatest
      <4> QED
        BY <3>2, <4>2 DEF Rows
    <3> QED
      BY <3>1, <3>2
  <2>2. closer' = [closer EXCEPT ![c] = [closer[c] EXCEPT !.at = "verdict", !.top = t]]
    BY <1>0, <1>10 DEF ReadHighest
  <2> HIDE DEF t
  <2>3. [closer[c] EXCEPT !.at = "verdict", !.top = t] \in Closures
    BY <1>0, <2>1, VerdictTyped
  <2>4. closer' \in [Closers -> Closures]
    BY <1>0, <2>2, <2>3
  <2>5. ScheduleType'
    BY <1>0, <1>10 DEF ReadHighest, ScheduleType
  <2> QED
    BY <1>0, <1>2, <1>10, <2>4, <2>5, CloseTypeParts DEF ReadHighest
<1>11. ASSUME NEW c \in Closers, Sell(c)
       PROVE  CloseTypeOK'
  <2>1. closer[c].top \in Rows
    BY <1>11, TopTyped DEF Sell, ReserveMet
  <2>2. [winner |-> closer[c].top.bidder, amount |-> closer[c].top.amount]
          \in [winner : Bidders, amount : Nat]
    BY <2>1 DEF Rows
  <2>3. orders' \in Seq([winner : Bidders, amount : Nat])
    BY <1>0, <1>11, <2>2 DEF Sell
  <2>4. messages' \in MessageCounts /\ closer' \in [Closers -> Closures]
    BY <1>0, <1>11, ReturnTyped DEF Sell, ScheduleType
  <2>5. ScheduleType'
    BY <1>0, <1>11, <2>4 DEF Sell, ScheduleType
  <2> QED
    BY <1>0, <1>2, <1>11, <2>3, <2>4, <2>5, CloseTypeParts DEF Sell
<1>12. ASSUME NEW c \in Closers, ReserveNotMet(c) \/ CloseFails(c)
       PROVE  CloseTypeOK'
  <2>1. messages' \in MessageCounts /\ closer' \in [Closers -> Closures]
    BY <1>0, <1>12, ReturnTyped DEF ReserveNotMet, CloseFails, ScheduleType
  <2>2. ScheduleType'
    BY <1>0, <1>12, <2>1 DEF ReserveNotMet, CloseFails, ScheduleType
  <2> QED
    BY <1>0, <1>2, <1>12, <2>1, <2>2, CloseTypeParts DEF ReserveNotMet, CloseFails
<1>13. CASE Restart
  <2>1. ScheduleType' /\ closer' \in [Closers -> Closures] /\ crashes' \in 0 .. MaxCrashes
    BY <1>0, <1>13, NoClosureTyped DEF Restart, ScheduleType
  <2> QED
    BY <1>0, <1>2, <1>13, <2>1, CloseTypeParts DEF Restart
<1>14. CASE UNCHANGED allVars
  <2>1. ScheduleType'
    BY <1>0, <1>14 DEF allVars, closeVars, ScheduleType
  <2> QED
    BY <1>0, <1>2, <1>14, <2>1, CloseTypeParts DEF allVars, closeVars
<1> QED
  BY <1>3, <1>4, <1>5, <1>6, <1>7, <1>8, <1>9, <1>10, <1>11, <1>12, <1>13, <1>14
     DEF CloseNext, CloserStep, ClosureStep

-----------------------------------------------------------------------------
(* What the closures have read, and the orders.                            *)

\* Time does not go back.
LEMMA NowGrows ==
  ASSUME IInv, [Next]_vars
  PROVE  now \in Nat /\ now' \in Nat /\ now <= now'
<1>1. now \in Nat
  BY BiddingAssumption, TypeParts DEF IInv, RowType
<1>2. now' = now \/ now' = now + 1
  <2>1. CASE Tick
    BY <2>1 DEF Tick
  <2>2. CASE BidRequest
    BY <2>2 DEF BidRequest, HandlerStep, BidArrives, AcquireRow, RefuseRow, ReadLedger,
                RefuseBid, PlaceFirst, RaiseMax, Outbid, Defend, Tie, Answer, Abort,
                Finish, Settle, dbVars
  <2>3. CASE UpdateListing \/ DeleteListing \/ CloseListing \/ Crash
    BY <2>3 DEF UpdateListing, DeleteListing, CloseListing, Crash, dbVars
  <2>4. CASE UNCHANGED vars
    BY <2>4 DEF vars, dbVars
  <2> QED
    BY <2>1, <2>2, <2>3, <2>4 DEF Next
<1> QED
  BY <1>1, <1>2

\* A closure with a verdict had it before the step, or the step read the bids.
LEMMA VerdictKept ==
  ASSUME CloseTypeOK, [CloseNext]_allVars, NEW d \in Closers, closer'[d].at = "verdict"
  PROVE  \/ closer'[d] = closer[d]
         \/ ReadHighest(d)
<1>0. closer \in [Closers -> Closures] /\ NoClosure.at = "idle"
  BY CloseTypeParts DEF NoClosure
<1>1. CASE OtherStep \/ CreatorSchedules
           \/ (\E m \in Messages : CallDropped(m) \/ CallFails(m)) \/ UNCHANGED allVars
  BY <1>1 DEF OtherStep, CreatorSchedules, CallDropped, CallFails, allVars, closeVars
<1>2. CASE Restart
  BY <1>0, <1>2 DEF Restart
<1>3. ASSUME NEW c \in Closers, CloserStep(c)
      PROVE  closer'[d] = closer[d] \/ ReadHighest(d)
  <2>1. CASE ReadHighest(c)
    BY <1>0, <2>1 DEF ReadHighest
  <2>2. CASE TimerFires(c) \/ (\E m \in Messages : CallTaken(c, m)) \/ Sweep(c)
    BY <1>0, <2>2 DEF TimerFires, CallTaken, Sweep, Begin
  <2>3. CASE Postpone(c) \/ Sell(c) \/ ReserveNotMet(c) \/ CloseFails(c)
    <3>1. closer' = [closer EXCEPT ![c] = NoClosure]
      BY <2>3 DEF Postpone, Sell, ReserveNotMet, CloseFails, Return
    <3> QED
      BY <1>0, <3>1
  <2> QED
    BY <1>3, <2>1, <2>2, <2>3 DEF CloserStep, ClosureStep
<1> QED
  BY <1>1, <1>2, <1>3 DEF CloseNext

\* The history stops when the auction ends.
LEMMA HistoryStops ==
  ASSUME [CloseNext]_allVars, ~(now < EndsAt)
  PROVE  onTime' = onTime
<1>1. CASE OtherStep
  BY <1>1 DEF OtherStep
<1>2. CASE CreatorSchedules \/ (\E m \in Messages : CallDropped(m) \/ CallFails(m))
           \/ Restart \/ UNCHANGED allVars
  BY <1>2 DEF CreatorSchedules, CallDropped, CallFails, Restart, allVars, closeVars
<1>3. ASSUME NEW c \in Closers, CloserStep(c)
      PROVE  onTime' = onTime
  BY <1>3 DEF CloserStep, ClosureStep, TimerFires, CallTaken, Sweep, Postpone, ReadHighest,
              Sell, ReserveNotMet, CloseFails
<1> QED
  BY <1>1, <1>2, <1>3 DEF CloseNext

\* A closure reads the bids only once the auction is over.
LEMMA AfterTheEndStep ==
  ASSUME CloseInv, [Next]_vars, [CloseNext]_allVars
  PROVE  AfterTheEnd'
<1> SUFFICES ASSUME NEW d \in Closers, closer'[d].at = "verdict"
             PROVE  EndsAt <= now'
  BY DEF AfterTheEnd
<1>1. now \in Nat /\ now' \in Nat /\ now <= now' /\ EndsAt \in Nat
  BY NowGrows, BiddingAssumption DEF CloseInv
<1>2. EndsAt <= now
  BY VerdictKept DEF CloseInv, AfterTheEnd, ReadHighest
<1> QED
  BY <1>1, <1>2

\* What a closure has read stays true of the ledger.
LEMMA ReadsAreRowsStep ==
  ASSUME CloseInv, IInv', [Next]_vars, [CloseNext]_allVars
  PROVE  ReadsAreRows'
<1> SUFFICES ASSUME NEW d \in Closers, closer'[d].at = "verdict"
             PROVE  /\ closer'[d].top # NoRow =>
                         \E i \in DOMAIN bids' : bids'[i] = closer'[d].top
                    /\ \A i \in 1 .. onTime' : bids'[i].amount <= closer'[d].top.amount
  BY DEF ReadsAreRows
<1>0. onTime \in 0 .. Len(bids) /\ closer \in [Closers -> Closures] /\ EndsAt \in Nat
      /\ now \in Nat /\ bids \in Seq(Rows)
  BY CloseTypeParts, NowGrows, BiddingAssumption DEF CloseInv, IInv, TypeOK, Rows
<1>1. /\ DOMAIN bids = 1 .. Len(bids) /\ Len(bids) \in Nat
      /\ \A i \in DOMAIN bids : i \in DOMAIN bids' /\ bids'[i] = bids[i]
  BY LedgerLonger DEF CloseInv
<1>2. EndsAt <= now
  BY VerdictKept DEF CloseInv, AfterTheEnd, ReadHighest
<1>3. onTime' = onTime
  BY <1>0, <1>2, HistoryStops
<1>4. \A i \in 1 .. onTime : i \in DOMAIN bids
  BY <1>0, <1>1
<1>5. CASE closer'[d] = closer[d]
  BY <1>1, <1>3, <1>4, <1>5 DEF CloseInv, ReadsAreRows
<1>6. CASE ReadHighest(d)
  <2>1. closer'[d].top = IF bids = <<>> THEN NoRow ELSE TopBid(bids)
    BY <1>0, <1>6 DEF ReadHighest, Closures
  <2>2. CASE bids = <<>>
    BY <1>0, <1>3, <2>1, <2>2
  <2>3. CASE bids # <<>>
    <3>1. HasTop(bids)
      BY <2>3 DEF CloseInv, IInv, Agreement
    <3>2. /\ \E i \in DOMAIN bids : bids[i] = TopBid(bids)
          /\ \A i \in DOMAIN bids : bids[i].amount <= TopBid(bids).amount
      BY <1>0, <3>1, TopIsGreatest
    <3> QED
      BY <1>1, <1>3, <1>4, <2>1, <2>3, <3>2
  <2> QED
    BY <2>2, <2>3
<1> QED
  BY <1>5, <1>6, VerdictKept DEF CloseInv


\* Only a sale marks the listing sold or adds an order.
LEMMA OnlySales ==
  ASSUME CloseInv, [CloseNext]_allVars
  PROVE  \/ orders' = orders /\ (listing'.isSold => listing.isSold)
         \/ \E c \in Closers : Sell(c)
<1>0. listing \in [price : Prices, reserve : Reserves, isSold : BOOLEAN,
                   status : Statuses, deleted : BOOLEAN]
  BY TypeParts DEF CloseInv, IInv, RowType
<1>1. CASE OtherStep
  <2>1. orders' = orders
    BY <1>1 DEF OtherStep
  <2>2. CASE UpdateListing \/ DeleteListing \/ Tick
    <3>1. CASE UpdateListing
      <4>1. listing'.isSold = listing.isSold
        BY <1>0, <3>1 DEF UpdateListing
      <4> QED
        BY <2>1, <4>1
    <3>2. CASE DeleteListing \/ Tick
      BY <1>0, <2>1, <3>2 DEF DeleteListing, Tick, dbVars
    <3> QED
      BY <2>2, <3>1, <3>2
  <2>3. CASE BidRequest
    <3>1. listing' = listing
      BY <2>3 DEF BidRequest, HandlerStep, BidArrives, AcquireRow, RefuseRow, ReadLedger,
                  RefuseBid, PlaceFirst, RaiseMax, Outbid, Defend, Tie, Answer, Abort,
                  Finish, Settle, dbVars
    <3> QED
      BY <2>1, <3>1
  <2> QED
    BY <1>1, <2>2, <2>3 DEF OtherStep
<1>2. CASE CreatorSchedules \/ (\E m \in Messages : CallDropped(m) \/ CallFails(m))
           \/ UNCHANGED allVars
  BY <1>2 DEF CreatorSchedules, CallDropped, CallFails, allVars, closeVars, vars, dbVars
<1>3. CASE Restart
  BY <1>3 DEF Restart, Crash, dbVars
<1>4. ASSUME NEW c \in Closers, CloserStep(c), ~Sell(c)
      PROVE  orders' = orders /\ (listing'.isSold => listing.isSold)
  <2>1. CASE ReserveNotMet(c)
    BY <1>0, <2>1 DEF ReserveNotMet
  <2>2. CASE TimerFires(c) \/ (\E m \in Messages : CallTaken(c, m)) \/ Sweep(c)
             \/ Postpone(c) \/ ReadHighest(c) \/ CloseFails(c)
    BY <2>2 DEF TimerFires, CallTaken, Sweep, Postpone, ReadHighest, CloseFails, vars, dbVars
  <2> QED
    BY <1>4, <2>1, <2>2 DEF CloserStep, ClosureStep
<1> QED
  BY <1>1, <1>2, <1>3, <1>4 DEF CloseNext

\* An order made is a row of the ledger, and stays one; it is at least every
\* row there was at the end.
LEMMA OrdersHoldStep ==
  ASSUME CloseInv, IInv', [Next]_vars, [CloseNext]_allVars
  PROVE  OrdersHold'
<1>0. /\ onTime \in 0 .. Len(bids) /\ EndsAt \in Nat
      /\ orders \in Seq([winner : Bidders, amount : Nat])
      /\ now \in Nat /\ now' \in Nat /\ now <= now'
  BY CloseTypeParts, NowGrows, BiddingAssumption DEF CloseInv
<1>1. /\ DOMAIN bids = 1 .. Len(bids) /\ Len(bids) \in Nat
      /\ \A i \in DOMAIN bids : i \in DOMAIN bids' /\ bids'[i] = bids[i]
  BY LedgerLonger DEF CloseInv
<1>2. \A i \in 1 .. onTime : i \in DOMAIN bids
  BY <1>0, <1>1
<1>3. CASE orders' = orders /\ (listing'.isSold => listing.isSold)
  <2>1. orders' # <<>> => EndsAt <= now'
    BY <1>0, <1>3 DEF CloseInv, OrdersHold
  <2>2. listing'.isSold => orders' # <<>>
    BY <1>3 DEF CloseInv, OrdersHold
  <2>3. \A o \in DOMAIN orders' :
          \E i \in DOMAIN bids' : bids'[i] = Row(orders'[o].winner, orders'[o].amount)
    <3> SUFFICES ASSUME NEW o \in DOMAIN orders
                 PROVE  \E i \in DOMAIN bids' :
                          bids'[i] = Row(orders[o].winner, orders[o].amount)
      BY <1>3
    <3>1. PICK i \in DOMAIN bids : bids[i] = Row(orders[o].winner, orders[o].amount)
      BY DEF CloseInv, OrdersHold
    <3> QED
      BY <1>1, <3>1
  <2>4. OnTimeBidsCount'
    <3>1. CASE orders = <<>>
      BY <1>3, <3>1 DEF OnTimeBidsCount
    <3>2. CASE orders # <<>>
      <4>1. onTime' = onTime
        BY <1>0, <3>2, HistoryStops DEF CloseInv, OrdersHold
      <4> QED
        BY <1>1, <1>2, <1>3, <4>1 DEF CloseInv, OrdersHold, OnTimeBidsCount
    <3> QED
      BY <3>1, <3>2
  <2> QED
    BY <2>1, <2>2, <2>3, <2>4 DEF OrdersHold, Row
<1>4. ASSUME NEW c \in Closers, Sell(c)
      PROVE  OrdersHold'
  <2> DEFINE new == [winner |-> closer[c].top.bidder, amount |-> closer[c].top.amount]
  <2>1. closer[c].at = "verdict" /\ closer[c].top # NoRow /\ EndsAt <= now
        /\ now' = now /\ bids' = bids /\ orders' = Append(orders, new) /\ onTime' = onTime
    BY <1>4 DEF Sell, ReserveMet, CloseInv, AfterTheEnd
  <2>2. /\ closer[c].top \in Rows
        /\ \E i \in DOMAIN bids : bids[i] = closer[c].top
        /\ closer[c].top = Row(closer[c].top.bidder, closer[c].top.amount)
    BY <2>1, TopTyped
  <2>3. new \in [winner : Bidders, amount : Nat]
    BY <2>2 DEF Rows
  <2>4. \E i \in DOMAIN bids : bids[i] = Row(new.winner, new.amount)
    BY <2>2
  <2>5. \A i \in 1 .. onTime : bids[i].amount <= new.amount
    BY <2>1 DEF CloseInv, ReadsAreRows
  <2> HIDE DEF new
  <2>6. /\ orders' # <<>>
        /\ \A o \in DOMAIN orders' : \/ o \in DOMAIN orders /\ orders'[o] = orders[o]
                                     \/ orders'[o] = new
    BY <1>0, <2>1, <2>3
  <2>7. \A o \in DOMAIN orders' :
          \E i \in DOMAIN bids : bids[i] = Row(orders'[o].winner, orders'[o].amount)
    <3> SUFFICES ASSUME NEW o \in DOMAIN orders'
                 PROVE  \E i \in DOMAIN bids :
                          bids[i] = Row(orders'[o].winner, orders'[o].amount)
      OBVIOUS
    <3>1. CASE o \in DOMAIN orders /\ orders'[o] = orders[o]
      BY <3>1 DEF CloseInv, OrdersHold, Row
    <3>2. CASE orders'[o] = new
      BY <2>4, <3>2 DEF Row
    <3> QED
      BY <2>6, <3>1, <3>2
  <2>8. \A o \in DOMAIN orders', i \in 1 .. onTime : bids[i].amount <= orders'[o].amount
    BY <2>5, <2>6 DEF CloseInv, OrdersHold, OnTimeBidsCount
  <2> QED
    BY <2>1, <2>6, <2>7, <2>8 DEF OrdersHold, OnTimeBidsCount, Row
<1> QED
  BY <1>3, <1>4, OnlySales

-----------------------------------------------------------------------------
(* The theorems.                                                           *)

\* CloseInv is inductive.
LEMMA CloseInvStep ==
  ASSUME CloseInv, [CloseNext]_allVars
  PROVE  CloseInv' /\ [Next]_vars
<1>1. [Next]_vars
  BY StepKeepsBidding DEF CloseInv
<1>2. IInv'
  BY <1>1, IInvStep DEF CloseInv
<1> QED
  BY <1>1, <1>2, CloseTypeStep, AfterTheEndStep, ReadsAreRowsStep, OrdersHoldStep
     DEF CloseInv

\* The inductive invariant holds of every behaviour of the closures.
THEOREM CloseInvariance == CloseSpec => []CloseInv
<1>1. CloseInit => CloseInv
  BY InitCloseInv
<1>2. CloseInv /\ [CloseNext]_allVars => CloseInv'
  BY CloseInvStep
<1> QED
  BY <1>1, <1>2, PTL DEF CloseSpec

\* The closures' own state keeps its shape: an order never names the seller or
\* nobody, and no count of calls, messages or restarts leaves its range.
THEOREM ClosuresTyped == CloseSpec => []CloseTypeOK
<1>1. CloseInv => CloseTypeOK
  BY DEF CloseInv
<1> QED
  BY <1>1, CloseInvariance, PTL

\* processAuctionClosure never passes over a bid that was in the ledger when the
\* auction ended, whichever of its three starts ran it and however often.
THEOREM BidsOnTimeCount == CloseSpec => []OnTimeBidsCount
<1>1. CloseInv => OnTimeBidsCount
  BY DEF CloseInv, OrdersHold
<1> QED
  BY <1>1, CloseInvariance, PTL

\* handleAuctionSold sells only to a row of the ledger, at no more than its user
\* authorised, and a listing is marked sold only together with an order.
THEOREM SalesAreBids == CloseSpec => []OrdersAreBids
<1>1. CloseInv => OrdersAreBids
  <2> SUFFICES ASSUME CloseInv PROVE OrdersAreBids
    OBVIOUS
  <2>1. listing.isSold => orders # <<>>
    BY DEF CloseInv, OrdersHold
  <2>2. ASSUME NEW o \in DOMAIN orders
        PROVE  /\ \E i \in DOMAIN bids :
                    bids[i] = Row(orders[o].winner, orders[o].amount)
               /\ orders[o].amount <= asked[orders[o].winner]
    <3>1. PICK i \in DOMAIN bids : bids[i] = Row(orders[o].winner, orders[o].amount)
      BY <2>2 DEF CloseInv, OrdersHold
    <3>2. bids[i].amount <= asked[bids[i].bidder]
      BY DEF CloseInv, IInv, Agreement, NeverAboveOwnMax
    <3> QED
      BY <3>1, <3>2 DEF Row
  <2> QED
    BY <2>1, <2>2 DEF OrdersAreBids
<1> QED
  BY <1>1, CloseInvariance, PTL

\* The closures, their starts and the restarts change the auction's rows only by
\* steps of ProxyBidding: its theorems hold with them.
THEOREM ClosingImplementsBidding == CloseSpec => KeepsBiddingSpec
<1>1. CloseInit => Init
  BY DEF CloseInit
<1>2. CloseInv /\ [CloseNext]_allVars => [Next]_vars
  BY CloseInvStep
<1> QED
  BY <1>1, <1>2, CloseInvariance, PTL DEF CloseSpec, Spec, KeepsBiddingSpec
=============================================================================

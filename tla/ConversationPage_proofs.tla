---------------------- MODULE ConversationPage_proofs ----------------------
(* Theorems of ConversationPage, for any conversations, sockets, visits and   *)
(* messages: whichever thread is open, what is typed goes to it, one socket   *)
(* is open at most, and no spinner turns for nothing.                         *)
EXTENDS ConversationPage, WellFoundedInduction, TLAPS

USE ConversationAssumption

\* The server's side of the socket in wsRef is in the hub of the thread on screen,
\* or gone.
SocketOfThread ==
    wsRef # Nothing =>
      InThread /\ (conn[wsRef].at # "none" => conn[wsRef].conv = page.route)

\* A thread's requests are under way only while some thread is on the screen.
AskedByThread ==
    \A f \in fetches : f.kind \in {"conversation", "history"} => InThread

ThreadInv ==
    /\ PageTypeOK /\ SocketOfThread /\ AskedByThread
    /\ SaidInThisThread /\ NoSocketLeftBehind /\ SpinnersAwaited

-----------------------------------------------------------------------------
(* The history: a recursive function over the first rows of the table.        *)

\* What RowsOf puts behind i rows, from what it has behind i - 1.
WithRow(c, g, i) ==
    IF i = 0 THEN <<>> ELSE IF rows[i].conv = c THEN Append(g[i - 1], i) ELSE g[i - 1]

\* Every set of numbers that is not empty has a smallest one.
LEMMA SmallestNumber ==
  ASSUME NEW T, T \subseteq Nat, T # {}
  PROVE  \E m \in T : \A k \in T : ~(k < m)
<1>1. \E m \in T : \A k \in T : <<k, m>> \notin OpToRel(<, Nat)
  BY NatLessThanWellFounded, WFMin
<1> QED
  BY <1>1 DEF OpToRel

\* The recursion of RowsOf has a solution: the one for k - 1 rows, taken one row
\* further, is one for k rows.
LEMMA RowsRecursion ==
  ASSUME NEW c, NEW n \in Nat
  PROVE  \E g : g = [i \in 0..n |-> WithRow(c, g, i)]
<1> DEFINE Solves(g, k) == /\ g = [i \in 0..n |-> g[i]]
                           /\ \A i \in 0..n : i <= k => g[i] = WithRow(c, g, i)
           T == {k \in Nat : ~ \E g : Solves(g, k)}
<1>1. T = {}
  <2> SUFFICES ASSUME T # {} PROVE FALSE
    OBVIOUS
  <2>1. PICK k \in T : \A j \in T : ~(j < k)
    <3>1. T \subseteq Nat
      OBVIOUS
    <3> HIDE DEF T
    <3> QED
      BY <3>1, SmallestNumber
  <2>2. CASE k = 0
    <3> DEFINE g == [i \in 0..n |-> <<>>]
    <3>1. Solves(g, 0)
      BY DEF WithRow
    <3> QED
      BY <2>2, <3>1
  <2>3. CASE k # 0
    <3>1. k - 1 \in Nat /\ k - 1 \notin T
      BY <2>1, <2>3
    <3>2. PICK g : Solves(g, k - 1)
      BY <3>1
    <3> DEFINE h == [i \in 0..n |-> WithRow(c, g, i)]
    <3>3. \A i \in 0..n : i <= k - 1 => h[i] = g[i]
      BY <3>2
    <3>4. \A i \in 0..n : i <= k => WithRow(c, h, i) = WithRow(c, g, i)
      <4> SUFFICES ASSUME NEW i \in 0..n, i <= k PROVE WithRow(c, h, i) = WithRow(c, g, i)
        OBVIOUS
      <4>1. CASE i = 0
        BY <4>1 DEF WithRow
      <4>2. CASE i # 0
        <5>1. i - 1 \in 0..n /\ i - 1 <= k - 1
          BY <4>2
        <5>2. h[i - 1] = g[i - 1]
          BY <3>3, <5>1
        <5> QED
          BY <4>2, <5>2 DEF WithRow
      <4> QED
        BY <4>1, <4>2
    <3>5. Solves(h, k)
      BY <3>4
    <3> QED
      BY <3>5
  <2> QED
    BY <2>2, <2>3
<1>2. PICK g : Solves(g, n)
  BY <1>1
<1>3. g = [i \in 0..n |-> WithRow(c, g, i)]
  BY <1>2
<1> QED
  BY <1>3

\* The history of a conversation consists of rows of the table.
LEMMA RowsOfType ==
  ASSUME NEW c, NEW n \in Nat
  PROVE  RowsOf(c, n) \in Seq(1..n)
<1> DEFINE f == CHOOSE g : g = [i \in 0..n |-> WithRow(c, g, i)]
           T == {k \in 0..n : f[k] \notin Seq(1..n)}
<1>1. f = [i \in 0..n |-> WithRow(c, f, i)]
  BY RowsRecursion
<1>2. RowsOf(c, n) = f[n]
  BY DEF RowsOf, WithRow
<1> HIDE DEF f
<1>3. T = {}
  <2> SUFFICES ASSUME T # {} PROVE FALSE
    OBVIOUS
  <2>1. PICK k \in T : \A j \in T : ~(j < k)
    <3>1. T \subseteq Nat
      OBVIOUS
    <3> HIDE DEF T
    <3> QED
      BY <3>1, SmallestNumber
  <2>2. f[k] = WithRow(c, f, k)
    BY <1>1
  <2>3. k # 0
    <3>1. <<>> \in Seq(1..n)
      OBVIOUS
    <3> QED
      BY <2>1, <2>2, <3>1 DEF WithRow
  <2>4. k - 1 \in 0..n /\ f[k - 1] \in Seq(1..n)
    BY <2>1, <2>3
  <2>5. Append(f[k - 1], k) \in Seq(1..n)
    <3>1. k \in 1..n
      BY <2>1, <2>3
    <3> QED
      BY <2>4, <3>1
  <2>6. f[k] \in Seq(1..n)
    BY <2>2, <2>3, <2>4, <2>5 DEF WithRow
  <2> QED
    BY <2>6
<1> QED
  BY <1>2, <1>3

-----------------------------------------------------------------------------
(* The socket of the page. *)

TabSide == [phase : {"none", "connecting", "open", "closing"}, mounted : BOOLEAN]
HubSide == [conv : Convs \cup {Nothing}, at : {"none", "dialing", "up"}]
Page == [route : Convs \cup {"list", "away"}, conversation : Convs \cup {Nothing},
         messages : Seq(Message), loading : BOOLEAN, chatLoading : BOOLEAN,
         error : BOOLEAN, wsStatus : {"idle", "connecting", "open", "closed"}]

\* After CloseTab on wsRef no socket is connecting or open.
LEMMA CloseTabCloses ==
  ASSUME PageTypeOK, NoSocketLeftBehind
  PROVE  /\ CloseTab(tab, wsRef) \in [Sockets -> TabSide]
         /\ \A s \in Sockets : CloseTab(tab, wsRef)[s].phase \in {"none", "closing"}
<1>1. /\ tab \in [Sockets -> TabSide] /\ wsRef \in Sockets \cup {Nothing}
      /\ \A s \in Sockets : tab[s].phase \in {"connecting", "open"} => s = wsRef
  BY DEF PageTypeOK, TabSide, NoSocketLeftBehind
<1>2. CASE wsRef # Nothing /\ tab[wsRef].phase \in {"connecting", "open"}
  BY <1>1, <1>2 DEF CloseTab, TabSide
<1>3. CASE ~(wsRef # Nothing /\ tab[wsRef].phase \in {"connecting", "open"})
  <2>1. CloseTab(tab, wsRef) = tab
    BY <1>3 DEF CloseTab
  <2> QED
    BY <1>1, <1>3, <2>1 DEF TabSide
<1> QED
  BY <1>2, <1>3

\* Whatever page the effect finds, it leaves that page but for wsStatus, with its
\* own socket or none.
LEMMA SocketEffectSafe ==
  ASSUME PageTypeOK, NoSocketLeftBehind, NEW p \in Page, NEW auth \in BOOLEAN,
         p.route \in Convs, SocketEffect(p, auth)
  PROVE  /\ page' \in Page
         /\ page'.route = p.route /\ page'.loading = p.loading
         /\ page'.chatLoading = p.chatLoading
         /\ wsRef' \in Sockets \cup {Nothing}
         /\ tab' \in [Sockets -> TabSide] /\ conn' \in [Sockets -> HubSide]
         /\ NoSocketLeftBehind'
         /\ wsRef' # Nothing => conn'[wsRef'].conv = p.route
<1> DEFINE t == CloseTab(tab, wsRef)
<1>1. /\ t \in [Sockets -> TabSide]
      /\ \A s \in Sockets : t[s].phase \in {"none", "closing"}
  BY CloseTabCloses
<1>2. conn \in [Sockets -> HubSide]
  BY DEF PageTypeOK, HubSide
<1>3. CASE auth /\ p.conversation # Nothing
  <2>1. PICK s \in Sockets :
          /\ tab' = Dial(t, s)
          /\ conn' = [conn EXCEPT ![s] = [conv |-> p.route, at |-> "dialing"]]
          /\ wsRef' = s
          /\ page' = [p EXCEPT !.wsStatus = "connecting"]
    BY <1>3 DEF SocketEffect, connectWs
  <2> HIDE DEF t
  <2>2. tab' \in [Sockets -> TabSide]
    BY <1>1, <2>1 DEF Dial, TabSide
  <2>3. conn' \in [Sockets -> HubSide] /\ conn'[s].conv = p.route
    BY <1>2, <2>1 DEF HubSide
  <2>4. NoSocketLeftBehind'
    BY <1>1, <2>1 DEF NoSocketLeftBehind, Dial
  <2>5. /\ page' \in Page /\ page'.route = p.route /\ page'.loading = p.loading
        /\ page'.chatLoading = p.chatLoading
    BY <2>1 DEF Page
  <2> QED
    BY <2>1, <2>2, <2>3, <2>4, <2>5
<1>4. CASE ~(auth /\ p.conversation # Nothing)
  <2>1. tab' = t /\ wsRef' = Nothing /\ conn' = conn /\ page' = p
    BY <1>4 DEF SocketEffect, disconnectWs
  <2> HIDE DEF t
  <2> QED
    BY <1>1, <1>2, <2>1 DEF NoSocketLeftBehind
<1> QED
  BY <1>3, <1>4

-----------------------------------------------------------------------------
(* The server's steps: nothing on the page changes. *)

\* A row is saved; the new task is one of its read pump.
LEMMA SaveShape ==
  ASSUME PageTypeOK, NEW c \in Convs, NEW mine \in BOOLEAN, NEW d \in Convs, Save(c, mine, d)
  PROVE  /\ rows' \in Seq([conv : Convs, mine : BOOLEAN, typedIn : Convs])
         /\ Len(rows') <= MaxMessages
         /\ task' \in [DOMAIN rows' -> {"notify", "broadcast", "done"}]
         /\ c = d /\ SaidInThisThread => SaidInThisThread'
<1> DEFINE Row == [conv : Convs, mine : BOOLEAN, typedIn : Convs]
           r == [conv |-> c, mine |-> mine, typedIn |-> d]
           x == IF mine THEN "broadcast" ELSE "notify"
<1>1. rows \in Seq(Row) /\ task \in [1..Len(rows) -> {"notify", "broadcast", "done"}]
  BY DEF PageTypeOK
<1>2. task \in Seq({"notify", "broadcast", "done"}) /\ Len(task) = Len(rows)
  BY <1>1
<1>3. Len(rows) < MaxMessages /\ rows' = Append(rows, r) /\ task' = Append(task, x)
  BY DEF Save
<1>4. r \in Row /\ x \in {"notify", "broadcast", "done"}
  OBVIOUS
<1>7. r.conv = c /\ r.typedIn = d
  OBVIOUS
<1> HIDE DEF r, x, Row
<1>5. /\ rows' \in Seq(Row) /\ Len(rows') = Len(rows) + 1 /\ DOMAIN rows' = 1..(Len(rows) + 1)
      /\ rows'[Len(rows) + 1] = r /\ \A i \in 1..Len(rows) : rows'[i] = rows[i]
  BY <1>1, <1>3, <1>4
<1>6. task' \in [1..(Len(rows) + 1) -> {"notify", "broadcast", "done"}]
  <2> DEFINE K == {"notify", "broadcast", "done"}
  <2>1. task \in Seq(K) /\ x \in K
    BY <1>2, <1>4
  <2> HIDE DEF K
  <2>2. task' \in Seq(K) /\ Len(task') = Len(rows) + 1
    BY <1>2, <1>3, <2>1
  <2>3. task' \in [1..Len(task') -> K]
    BY <2>2
  <2> QED
    BY <2>2, <2>3 DEF K
<1>8. Len(rows') <= MaxMessages
  BY <1>1, <1>3, <1>5
<1>9. c = d /\ SaidInThisThread => SaidInThisThread'
  <2> SUFFICES ASSUME c = d, SaidInThisThread, NEW m \in DOMAIN rows'
               PROVE  rows'[m].conv = rows'[m].typedIn
    BY DEF SaidInThisThread
  <2>1. CASE m = Len(rows) + 1
    BY <1>5, <1>7, <2>1
  <2>2. CASE m # Len(rows) + 1
    <3>1. m \in DOMAIN rows
      BY <1>1, <1>5, <2>2
    <3> QED
      BY <1>1, <1>5, <3>1 DEF SaidInThisThread
  <2> QED
    BY <2>1, <2>2
<1> QED
  BY <1>5, <1>6, <1>8, <1>9 DEF Row

\* A frame goes out to some of the sockets.
LEMMA SentShape ==
  ASSUME PageTypeOK, NEW f \in Frame, NEW to
  PROVE  Sent(f, to) \in [Sockets -> Seq(Frame)]
  BY DEF PageTypeOK, Sent

\* What the steps of the server leave alone.
LEMMA ServerStep ==
  ASSUME ThreadInv, UNCHANGED pageVars,
         \/ UNCHANGED <<rows, task>> /\ send' \in [Sockets -> Seq(Frame)]
              /\ conn' \in [Sockets -> HubSide]
              /\ \A s \in Sockets : conn'[s].at # "none" => conn'[s].conv = conn[s].conv /\ conn[s].at # "none"
         \/ \E c \in Convs, mine \in BOOLEAN : Save(c, mine, c) /\ UNCHANGED <<conn, send>>
         \/ /\ UNCHANGED <<rows, conn>> /\ send' \in [Sockets -> Seq(Frame)]
            /\ task' \in [DOMAIN rows -> {"notify", "broadcast", "done"}]
  PROVE  ThreadInv'
<1>1. PageTypeOK' /\ SaidInThisThread' /\ SocketOfThread'
  <2>1. CASE UNCHANGED <<rows, task>> /\ send' \in [Sockets -> Seq(Frame)]
              /\ conn' \in [Sockets -> HubSide]
              /\ \A s \in Sockets : conn'[s].at # "none" => conn'[s].conv = conn[s].conv /\ conn[s].at # "none"
    BY <2>1 DEF ThreadInv, PageTypeOK, HubSide, SaidInThisThread, SocketOfThread, pageVars, InThread
  <2>2. ASSUME NEW c \in Convs, NEW mine \in BOOLEAN, Save(c, mine, c) /\ UNCHANGED <<conn, send>>
        PROVE  PageTypeOK' /\ SaidInThisThread' /\ SocketOfThread'
    <3>1. /\ rows' \in Seq([conv : Convs, mine : BOOLEAN, typedIn : Convs])
          /\ Len(rows') <= MaxMessages
          /\ task' \in [DOMAIN rows' -> {"notify", "broadcast", "done"}]
          /\ SaidInThisThread'
      BY <2>2, SaveShape DEF ThreadInv
    <3> QED
      BY <2>2, <3>1 DEF ThreadInv, PageTypeOK, SocketOfThread, pageVars, InThread
  <2>3. CASE /\ UNCHANGED <<rows, conn>> /\ send' \in [Sockets -> Seq(Frame)]
             /\ task' \in [DOMAIN rows -> {"notify", "broadcast", "done"}]
    BY <2>3 DEF ThreadInv, PageTypeOK, SaidInThisThread, SocketOfThread, pageVars, InThread
  <2> QED
    BY <2>1, <2>2, <2>3
<1>2. AskedByThread' /\ NoSocketLeftBehind' /\ SpinnersAwaited'
  BY DEF ThreadInv, AskedByThread, NoSocketLeftBehind, SpinnersAwaited, pageVars, InThread
<1> QED
  BY <1>1, <1>2 DEF ThreadInv

\* sendMessage is a step of the server that saves what was typed, in the hub of
\* the socket: of the thread on screen, by SocketOfThread.
LEMMA SendMessageSafe ==
  ASSUME ThreadInv, sendMessage
  PROVE  ThreadInv'
<1>1. page.route \in Convs /\ conn[wsRef].conv = page.route
  BY DEF sendMessage, InputEnabled, PageShown, InThread, ThreadInv, SocketOfThread
<1> QED
  BY <1>1, ServerStep DEF sendMessage

LEMMA ServerSafe ==
  ASSUME ThreadInv,
         \/ \E c \in Convs : PeerSays(c)
         \/ \E m \in DOMAIN rows : NotifyRecipient(m) \/ Broadcast(m)
         \/ \E s \in Sockets : ConversationHandler(s) \/ ConnectionEnds(s)
  PROVE  ThreadInv'
<1> USE DEF HubSide
<1>a. /\ conn \in [Sockets -> HubSide] /\ send \in [Sockets -> Seq(Frame)]
      /\ task \in [DOMAIN rows -> {"notify", "broadcast", "done"}]
      /\ DOMAIN rows \subseteq Message
  BY DEF ThreadInv, PageTypeOK, Message
<1>1. ASSUME NEW c \in Convs, PeerSays(c) PROVE ThreadInv'
  BY <1>1, ServerStep DEF PeerSays
<1>2. ASSUME NEW m \in DOMAIN rows, NotifyRecipient(m) PROVE ThreadInv'
  <2>1. [kind |-> "new_message", msg |-> m] \in Frame
    BY <1>a DEF Frame
  <2>2. send' \in [Sockets -> Seq(Frame)]
    BY <1>2, <1>a, <2>1, SentShape DEF NotifyRecipient, ThreadInv
  <2> QED
    BY <1>2, <1>a, <2>2, ServerStep DEF NotifyRecipient
<1>3. ASSUME NEW m \in DOMAIN rows, Broadcast(m) PROVE ThreadInv'
  <2>1. [kind |-> "chat", msg |-> m] \in Frame
    BY <1>a DEF Frame
  <2>2. send' \in [Sockets -> Seq(Frame)]
    BY <1>3, <2>1, SentShape DEF Broadcast, ThreadInv
  <2> QED
    BY <1>3, <1>a, <2>2, ServerStep DEF Broadcast
<1>4. ASSUME NEW s \in Sockets, ConversationHandler(s) PROVE ThreadInv'
  <2>1. /\ conn' \in [Sockets -> HubSide]
        /\ \A r \in Sockets : conn'[r].at # "none" => conn'[r].conv = conn[r].conv /\ conn[r].at # "none"
    BY <1>4, <1>a DEF ConversationHandler
  <2> QED
    BY <1>4, <1>a, <2>1, ServerStep DEF ConversationHandler
<1>5. ASSUME NEW s \in Sockets, ConnectionEnds(s) PROVE ThreadInv'
  <2>1. /\ conn' \in [Sockets -> HubSide] /\ send' \in [Sockets -> Seq(Frame)]
        /\ \A r \in Sockets : conn'[r].at # "none" => conn'[r].conv = conn[r].conv /\ conn[r].at # "none"
    BY <1>5, <1>a DEF ConnectionEnds, NoConn
  <2> QED
    BY <1>5, <1>a, <2>1, ServerStep DEF ConnectionEnds
<1> QED
  BY <1>1, <1>2, <1>3, <1>4, <1>5

-----------------------------------------------------------------------------
(* The steps of the page. *)

Fetches == [kind : {"conversation", "history", "list"}, conv : Convs \cup {Nothing},
            read : -1..MaxMessages]

\* The page after a SocketEffect, the tables being as they were.
LEMMA AfterEffect ==
  ASSUME ThreadInv, UNCHANGED <<rows, task, send>>,
         NEW p \in Page, NEW auth \in BOOLEAN, p.route \in Convs, SocketEffect(p, auth),
         list' \in [loading : BOOLEAN, error : BOOLEAN], signedIn' \in BOOLEAN,
         visits' \in 0..MaxVisits, fetches' \subseteq Fetches,
         p.loading => \E f \in fetches' : f.kind = "conversation",
         p.chatLoading => \E f \in fetches' : f.kind = "history",
         list'.loading => \E f \in fetches' : f.kind = "list"
  PROVE  ThreadInv'
<1>1. /\ page' \in Page
      /\ page'.route = p.route /\ page'.loading = p.loading
      /\ page'.chatLoading = p.chatLoading
      /\ wsRef' \in Sockets \cup {Nothing}
      /\ tab' \in [Sockets -> TabSide] /\ conn' \in [Sockets -> HubSide]
      /\ NoSocketLeftBehind'
      /\ wsRef' # Nothing => conn'[wsRef'].conv = p.route
  <2>1. PageTypeOK /\ NoSocketLeftBehind
    BY DEF ThreadInv
  <2> QED
    BY <2>1, SocketEffectSafe
<1>2. PageTypeOK'
  BY <1>1 DEF ThreadInv, PageTypeOK, Page, TabSide, HubSide, Fetches
<1>3. SocketOfThread' /\ AskedByThread' /\ SpinnersAwaited' /\ SaidInThisThread'
  BY <1>1 DEF ThreadInv, SocketOfThread, AskedByThread, SpinnersAwaited, SaidInThisThread, InThread
<1> QED
  BY <1>1, <1>2, <1>3 DEF ThreadInv

\* A thread is opened from the list, from the navbar or from another thread.
LEMMA OpenThreadSafe ==
  ASSUME ThreadInv, NEW c \in Convs, OpenThread(c)
  PROVE  ThreadInv'
<1> DEFINE p == IF InThread THEN [page EXCEPT !.route = c, !.loading = TRUE, !.chatLoading = TRUE,
                                              !.error = FALSE]
                ELSE NewPage(c)
<1>1. page \in Page /\ fetches \subseteq Fetches /\ signedIn \in BOOLEAN
  BY DEF ThreadInv, PageTypeOK, Page, Fetches
<1>2. p \in Page /\ p.route = c
  <2>1. CASE InThread
    BY <1>1, <2>1 DEF Page
  <2>2. CASE ~InThread
    BY <2>2 DEF NewPage, Page
  <2> QED
    BY <2>1, <2>2
<1>3. /\ Fetch("conversation", c) \in Fetches /\ Fetch("history", c) \in Fetches
      /\ Fetch("conversation", c).kind = "conversation" /\ Fetch("history", c).kind = "history"
  BY DEF Fetch, Fetches
<1>4. /\ visits' \in 0..MaxVisits
      /\ fetches' = {f \in fetches : f.kind # "list"}
                      \cup {Fetch("conversation", c), Fetch("history", c)}
      /\ SocketEffect(p, signedIn)
      /\ list' = [loading |-> FALSE, error |-> FALSE]
      /\ UNCHANGED <<signedIn, rows, task, send>>
  BY DEF OpenThread, ThreadInv, PageTypeOK
<1>5. fetches' \subseteq Fetches
  BY <1>1, <1>3, <1>4
<1> HIDE DEF p
<1> QED
  BY <1>1, <1>2, <1>3, <1>4, <1>5, AfterEffect

\* The answer with the conversation, which may be that of a thread left since.
LEMMA FetchConversationSafe ==
  ASSUME ThreadInv, NEW f \in fetches, fetchConversation(f)
  PROVE  ThreadInv'
<1> DEFINE p == [page EXCEPT !.conversation = f.conv, !.loading = FALSE]
<1>1. page \in Page /\ fetches \subseteq Fetches /\ signedIn \in BOOLEAN
  BY DEF ThreadInv, PageTypeOK, Page, Fetches
<1>2. p \in Page /\ p.route \in Convs /\ p.loading = FALSE /\ p.chatLoading = page.chatLoading
  BY <1>1 DEF Page, Fetches, ThreadInv, AskedByThread, fetchConversation, InThread
<1>3. /\ f.kind = "conversation" /\ fetches' = fetches \ {f} /\ SocketEffect(p, signedIn)
      /\ UNCHANGED <<list, visits, signedIn, rows, task, send>>
  BY DEF fetchConversation
<1>4. /\ list \in [loading : BOOLEAN, error : BOOLEAN] /\ visits \in 0..MaxVisits
      /\ page.chatLoading => \E g \in fetches : g.kind = "history"
      /\ list.loading => \E g \in fetches : g.kind = "list"
  BY DEF ThreadInv, PageTypeOK, SpinnersAwaited
<1>5. /\ p.chatLoading => \E g \in fetches' : g.kind = "history"
      /\ list'.loading => \E g \in fetches' : g.kind = "list"
      /\ fetches' \subseteq Fetches
  BY <1>1, <1>2, <1>3, <1>4
<1> HIDE DEF p
<1> QED
  BY <1>1, <1>2, <1>3, <1>4, <1>5, AfterEffect

\* Signing out in a thread disconnects; the page stands.
LEMMA SignOutSafe ==
  ASSUME ThreadInv, SignOut
  PROVE  ThreadInv'
<1>1. CASE InThread
  <2>1. /\ page \in Page /\ page.route \in Convs /\ fetches \subseteq Fetches
        /\ list \in [loading : BOOLEAN, error : BOOLEAN] /\ visits \in 0..MaxVisits
        /\ SpinnersAwaited
    BY <1>1 DEF ThreadInv, PageTypeOK, Page, InThread, Fetches
  <2>2. /\ SocketEffect(page, FALSE) /\ signedIn' = FALSE
        /\ UNCHANGED <<list, fetches, rows, task, send, visits>>
    BY <1>1 DEF SignOut
  <2>3. /\ page.loading => \E g \in fetches' : g.kind = "conversation"
        /\ page.chatLoading => \E g \in fetches' : g.kind = "history"
        /\ list'.loading => \E g \in fetches' : g.kind = "list"
    BY <2>1, <2>2 DEF SpinnersAwaited
  <2>4. /\ list' \in [loading : BOOLEAN, error : BOOLEAN] /\ signedIn' \in BOOLEAN
        /\ visits' \in 0..MaxVisits /\ fetches' \subseteq Fetches
        /\ FALSE \in BOOLEAN /\ UNCHANGED <<rows, task, send>>
    BY <2>1, <2>2
  <2> QED
    BY <2>1, <2>2, <2>3, <2>4, AfterEffect
<1>2. CASE ~InThread
  BY <1>2 DEF SignOut, ThreadInv, PageTypeOK, SocketOfThread, AskedByThread, SaidInThisThread,
              NoSocketLeftBehind, SpinnersAwaited, InThread
<1> QED
  BY <1>1, <1>2

\* Leaving the page closes its socket and forgets its requests.
LEMMA LeaveSafe ==
  ASSUME ThreadInv, NEW where \in {"list", "away"}, Leave(where)
  PROVE  ThreadInv'
<1>1. /\ CloseTab(tab, wsRef) \in [Sockets -> TabSide]
      /\ \A s \in Sockets : CloseTab(tab, wsRef)[s].phase \in {"none", "closing"}
  BY CloseTabCloses DEF ThreadInv
<1> DEFINE t == CloseTab(tab, wsRef)
<1>2. tab' = [s \in Sockets |-> [t[s] EXCEPT !.mounted = FALSE]]
  BY DEF Leave
<1> HIDE DEF t
<1>3. /\ tab' \in [Sockets -> TabSide]
      /\ \A s \in Sockets : tab'[s].phase \in {"none", "closing"}
  BY <1>1, <1>2 DEF t, TabSide
<1>4. page' \in Page /\ ~page'.loading /\ ~page'.chatLoading
  <2> DEFINE n == NewPage(where)
  <2>1. n \in Page
    BY DEF NewPage, Page
  <2>2. page' = [n EXCEPT !.loading = FALSE, !.chatLoading = FALSE]
    BY DEF Leave, Unmounted
  <2> HIDE DEF n
  <2> QED
    BY <2>1, <2>2 DEF Page
<1>5. fetches' \subseteq Fetches /\ \A f \in fetches' : f.kind = "list"
  BY DEF Leave, Fetch, Fetches
<1>6. /\ list' \in [loading : BOOLEAN, error : BOOLEAN]
      /\ list'.loading => \E f \in fetches' : f.kind = "list"
  BY DEF Leave, Fetch
<1>7. visits' \in 0..MaxVisits /\ wsRef' = Nothing /\ UNCHANGED <<serverVars, signedIn>>
  BY DEF Leave, ThreadInv, PageTypeOK
<1>8. PageTypeOK'
  BY <1>3, <1>4, <1>5, <1>6, <1>7 DEF ThreadInv, PageTypeOK, Page, TabSide, Fetches, serverVars
<1>9. /\ SocketOfThread' /\ AskedByThread' /\ SaidInThisThread' /\ NoSocketLeftBehind'
      /\ SpinnersAwaited'
  BY <1>3, <1>4, <1>5, <1>6, <1>7 DEF ThreadInv, SocketOfThread, AskedByThread, SaidInThisThread,
       NoSocketLeftBehind, SpinnersAwaited, serverVars
<1> QED
  BY <1>8, <1>9 DEF ThreadInv

\* A sequence of one set is one of any larger set.
LEMMA WiderSeq ==
  ASSUME NEW S, NEW T, S \subseteq T, NEW s \in Seq(S)
  PROVE  s \in Seq(T)
<1>1. Len(s) \in Nat /\ s \in [1..Len(s) -> T]
  OBVIOUS
<1> QED
  BY <1>1

\* The events of the sockets.
LEMMA SocketEventsSafe ==
  ASSUME ThreadInv, NEW s \in Sockets, OnOpen(s) \/ OnClose(s) \/ OnMessage(s)
  PROVE  ThreadInv'
<1>1. /\ page \in Page /\ tab \in [Sockets -> TabSide] /\ send \in [Sockets -> Seq(Frame)]
  BY DEF ThreadInv, PageTypeOK, Page, TabSide
<1>2. /\ page' \in Page /\ page'.route = page.route /\ page'.loading = page.loading
      /\ page'.chatLoading = page.chatLoading /\ page'.conversation = page.conversation
      /\ send' \in [Sockets -> Seq(Frame)]
  <2>1. CASE OnOpen(s) \/ OnClose(s)
    BY <1>1, <2>1 DEF OnOpen, OnClose, Page, serverVars
  <2>2. CASE OnMessage(s)
    <3>1. send' \in [Sockets -> Seq(Frame)]
      BY <1>1, <2>2 DEF OnMessage
    <3>2. CASE page' = page
      BY <1>1, <3>1, <3>2
    <3>3. CASE page' = [page EXCEPT !.messages = Append(@, Head(send[s]).msg)]
      <4>1. Head(send[s]) \in Frame
        BY <1>1, <2>2 DEF OnMessage
      <4>2. Append(page.messages, Head(send[s]).msg) \in Seq(Message)
        BY <1>1, <4>1 DEF Page, Frame
      <4> QED
        BY <1>1, <3>1, <3>3, <4>2 DEF Page
    <3> QED
      BY <2>2, <3>2, <3>3 DEF OnMessage
  <2> QED
    BY <2>1, <2>2
<1>3. /\ tab' \in [Sockets -> TabSide]
      /\ \A r \in Sockets : tab'[r].phase \in {"connecting", "open"}
                              => tab[r].phase \in {"connecting", "open"}
  <2>1. CASE OnOpen(s)
    BY <1>1, <2>1 DEF OnOpen, TabSide
  <2>2. CASE OnClose(s)
    BY <1>1, <2>2 DEF OnClose, NoTab, TabSide
  <2>3. CASE OnMessage(s)
    BY <1>1, <2>3 DEF OnMessage
  <2> QED
    BY <2>1, <2>2, <2>3
<1>4. /\ UNCHANGED <<rows, task, conn, list, signedIn, wsRef, fetches, visits>>
  BY DEF OnOpen, OnClose, OnMessage, serverVars
<1>5. PageTypeOK'
  BY <1>2, <1>3, <1>4 DEF ThreadInv, PageTypeOK, Page, TabSide
<1> QED
  BY <1>2, <1>3, <1>4, <1>5 DEF ThreadInv, SocketOfThread, AskedByThread, SaidInThisThread,
       NoSocketLeftBehind, SpinnersAwaited, InThread

\* The answers that leave the socket alone.
LEMMA AnswersSafe ==
  ASSUME ThreadInv, NEW f \in fetches,
         \/ ConversationUnavailable(f) \/ ReadHistory(f) \/ loadHistory(f) \/ HistoryFails(f)
         \/ \E ok \in BOOLEAN : fetchConversations(f, ok)
  PROVE  ThreadInv'
<1>1. /\ page \in Page /\ fetches \subseteq Fetches /\ list \in [loading : BOOLEAN, error : BOOLEAN]
      /\ Len(rows) \in 0..MaxMessages
  BY DEF ThreadInv, PageTypeOK, Page, Fetches
<1>2. /\ page' \in Page /\ page'.route = page.route
      /\ page'.conversation = page.conversation
  <2>1. CASE page' = page
    BY <1>1, <2>1
  <2>2. CASE loadHistory(f)
    <3>1. f.read \in Nat /\ f.read <= MaxMessages
      BY <1>1, <2>2 DEF loadHistory, Fetches
    <3> DEFINE ms == RowsOf(f.conv, f.read)
    <3>2. ms \in Seq(1..f.read)
      BY <3>1, RowsOfType
    <3>3. 1..f.read \subseteq Message
      BY <3>1 DEF Message
    <3>4. page' = [page EXCEPT !.messages = ms, !.chatLoading = FALSE]
      BY <2>2 DEF loadHistory
    <3> HIDE DEF ms
    <3>5. ms \in Seq(Message)
      BY <3>2, <3>3, WiderSeq
    <3> QED
      BY <1>1, <3>4, <3>5 DEF Page
  <2>3. CASE ConversationUnavailable(f) \/ HistoryFails(f)
    BY <1>1, <2>3 DEF ConversationUnavailable, HistoryFails, Page
  <2> QED
    BY <2>1, <2>2, <2>3 DEF ReadHistory, fetchConversations
<1>3. fetches' \subseteq Fetches
  BY <1>1 DEF ConversationUnavailable, ReadHistory, loadHistory, HistoryFails, fetchConversations,
              Fetches
<1>4. /\ list' \in [loading : BOOLEAN, error : BOOLEAN]
      /\ UNCHANGED <<serverVars, signedIn, wsRef, tab, visits>>
  <2>1. ASSUME NEW ok \in BOOLEAN, fetchConversations(f, ok)
        PROVE  list' \in [loading : BOOLEAN, error : BOOLEAN]
    BY <2>1 DEF fetchConversations
  <2> QED
    BY <1>1, <2>1 DEF ConversationUnavailable, ReadHistory, loadHistory, HistoryFails,
                      fetchConversations
<1>5. PageTypeOK'
  BY <1>2, <1>3, <1>4 DEF ThreadInv, PageTypeOK, Page, Fetches, serverVars
<1>6. SpinnersAwaited' /\ AskedByThread'
  <2>1. SpinnersAwaited /\ AskedByThread
    BY DEF ThreadInv
  <2>2. CASE ConversationUnavailable(f)
    BY <1>1, <2>1, <2>2 DEF ConversationUnavailable, SpinnersAwaited, AskedByThread, InThread, Page
  <2>3. CASE ReadHistory(f)
    <3> DEFINE g == [f EXCEPT !.read = Len(rows)]
    <3>1. g.kind = "history" /\ f.kind = "history" /\ fetches' = (fetches \ {f}) \cup {g}
      BY <1>1, <2>3 DEF ReadHistory, Fetches
    <3> HIDE DEF g
    <3> QED
      BY <2>1, <2>3, <3>1 DEF ReadHistory, SpinnersAwaited, AskedByThread, InThread
  <2>4. CASE loadHistory(f) \/ HistoryFails(f)
    BY <1>1, <2>1, <2>4 DEF loadHistory, HistoryFails, SpinnersAwaited, AskedByThread, InThread, Page
  <2>5. ASSUME NEW ok \in BOOLEAN, fetchConversations(f, ok)
        PROVE  SpinnersAwaited' /\ AskedByThread'
    BY <2>1, <2>5 DEF fetchConversations, SpinnersAwaited, AskedByThread, InThread
  <2> QED
    BY <2>2, <2>3, <2>4, <2>5
<1> QED
  BY <1>2, <1>4, <1>5, <1>6 DEF ThreadInv, SocketOfThread, SaidInThisThread,
       NoSocketLeftBehind, InThread, serverVars

-----------------------------------------------------------------------------
(* The theorems. *)

\* The user begins elsewhere, with no socket, no message and nothing asked for.
LEMMA InitSafe == Init => ThreadInv
<1> SUFFICES ASSUME Init PROVE ThreadInv
  OBVIOUS
<1>1. page \in Page /\ ~page.loading /\ ~page.chatLoading
  <2> DEFINE n == NewPage("away")
  <2>1. n \in Page
    BY DEF NewPage, Page
  <2>2. page = [n EXCEPT !.loading = FALSE, !.chatLoading = FALSE]
    BY DEF Init, Unmounted
  <2> HIDE DEF n
  <2> QED
    BY <2>1, <2>2 DEF Page
<1>2. PageTypeOK
  BY <1>1 DEF Init, PageTypeOK, Page, NoConn, NoTab
<1> QED
  BY <1>1, <1>2 DEF Init, ThreadInv, SocketOfThread, AskedByThread, SaidInThisThread,
       NoSocketLeftBehind, SpinnersAwaited, NoTab

LEMMA StepSafe == ThreadInv /\ [Next]_vars => ThreadInv'
<1> SUFFICES ASSUME ThreadInv, [Next]_vars PROVE ThreadInv'
  OBVIOUS
<1>1. ASSUME NEW c \in Convs, PeerSays(c) \/ FollowLink(c) PROVE ThreadInv'
  BY <1>1, ServerSafe, OpenThreadSafe DEF FollowLink
<1>2. ASSUME NEW m \in DOMAIN rows, NotifyRecipient(m) \/ Broadcast(m) PROVE ThreadInv'
  BY <1>2, ServerSafe
<1>3. ASSUME NEW s \in Sockets,
             \/ ConversationHandler(s) \/ ConnectionEnds(s)
             \/ OnOpen(s) \/ OnClose(s) \/ OnMessage(s)
      PROVE  ThreadInv'
  BY <1>3, ServerSafe, SocketEventsSafe
<1>4. CASE sendMessage
  BY <1>4, SendMessageSafe
<1>5. ASSUME NEW f \in fetches,
             \/ fetchConversation(f) \/ ConversationUnavailable(f)
             \/ ReadHistory(f) \/ loadHistory(f) \/ HistoryFails(f)
             \/ \E ok \in BOOLEAN : fetchConversations(f, ok)
      PROVE  ThreadInv'
  BY <1>5, FetchConversationSafe, AnswersSafe
<1>6. CASE Leave("list") \/ Leave("away")
  BY <1>6, LeaveSafe
<1>7. CASE SignOut
  BY <1>7, SignOutSafe
<1>8. CASE SignIn
  BY <1>8 DEF SignIn, ThreadInv, PageTypeOK, SocketOfThread, AskedByThread, SaidInThisThread,
              NoSocketLeftBehind, SpinnersAwaited, InThread, serverVars
<1>9. CASE UNCHANGED vars
  BY <1>9 DEF vars, pageVars, serverVars, ThreadInv, PageTypeOK, SocketOfThread, AskedByThread,
              SaidInThisThread, NoSocketLeftBehind, SpinnersAwaited, InThread
<1> QED
  BY <1>1, <1>2, <1>3, <1>4, <1>5, <1>6, <1>7, <1>8, <1>9 DEF Next

\* The inductive invariant of ConversationDetailPage.jsx and the chat server: the
\* socket in wsRef is the open thread's, and requests belong to a thread.
THEOREM ThreadInvariance == ConversationSpec => []ThreadInv
  BY InitSafe, StepSafe, PTL DEF ConversationSpec

\* The state of the page, of its sockets and of the server keeps its shape.
THEOREM PageTyped == ConversationSpec => []PageTypeOK
<1>1. ThreadInv => PageTypeOK
  BY DEF ThreadInv
<1> QED
  BY <1>1, ThreadInvariance, PTL

\* sendMessage: what is typed in a thread is saved in that thread, whatever threads
\* were open before and however late their answers and socket events come.
THEOREM TypedIsSaidThere == ConversationSpec => []SaidInThisThread
<1>1. ThreadInv => SaidInThisThread
  BY DEF ThreadInv
<1> QED
  BY <1>1, ThreadInvariance, PTL

\* The effect's cleanup: one socket at most is connecting or open, that of wsRef.
THEOREM OneSocketAtMost == ConversationSpec => []NoSocketLeftBehind
<1>1. ThreadInv => NoSocketLeftBehind
  BY DEF ThreadInv
<1> QED
  BY <1>1, ThreadInvariance, PTL

\* loading and chatLoading: a spinner is there only with the request that stops it.
THEOREM SpinnersEnd == ConversationSpec => []SpinnersAwaited
<1>1. ThreadInv => SpinnersAwaited
  BY DEF ThreadInv
<1> QED
  BY <1>1, ThreadInvariance, PTL

=============================================================================

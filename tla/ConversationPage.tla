--------------------------- MODULE ConversationPage ---------------------------
(* ConversationsPage.jsx and ConversationDetailPage.jsx in one tab, and the   *)
(* chat server as far as the tab can tell. Going from one thread to another   *)
(* keeps the page: only its conversationId changes, and its effects run again.*)
EXTENDS Integers, Sequences, Functions, FiniteSets

CONSTANTS
    Convs,       \* conversations of the user
    Sockets,     \* bound: conversation sockets at a time
    Nothing,     \* null
    MaxVisits,   \* bound: pages opened
    MaxMessages  \* bound: messages written

ASSUME ConversationAssumption ==
    Nothing \notin Convs \cup Sockets /\ {MaxVisits, MaxMessages} \subseteq Nat

VARIABLES
    rows,      \* the messages table: conversation, author, the thread it was typed in
    task,      \* what the author's read pump has still to do for each row
    conn,      \* server's side of each socket: in its hub and in the manager, or not
    send,      \* frames on their way on each socket
    page,      \* state of ConversationDetailPage; its route, "list" or "away"
    list,      \* state of ConversationsPage
    signedIn,  \* isAuthenticated
    wsRef,     \* the socket that wsRef.current points to, Nothing for null
    tab,       \* browser's side of each socket; does its page still stand
    visits,    \* pages opened so far
    fetches    \* requests in flight: what for, and the rows a history has read

serverVars == <<rows, task, conn, send>>
pageVars == <<page, list, signedIn, wsRef, tab, fetches, visits>>
vars == <<serverVars, pageVars>>

Message == 1..MaxMessages

\* A chat frame has no type; a notice is sent by NotifyUser.
Frame == [kind : {"chat", "new_message"}, msg : Message]

NoTab == [phase |-> "none", mounted |-> FALSE]

NoConn == [conv |-> Nothing, at |-> "none"]

NewPage(c) == [route |-> c, conversation |-> Nothing, messages |-> <<>>, loading |-> TRUE,
               chatLoading |-> TRUE, error |-> FALSE, wsStatus |-> "idle"]

Unmounted(where) == [NewPage(where) EXCEPT !.loading = FALSE, !.chatLoading = FALSE]

InThread == page.route \in Convs

PageTypeOK ==
    /\ rows \in Seq([conv : Convs, mine : BOOLEAN, typedIn : Convs]) /\ Len(rows) <= MaxMessages
    /\ task \in [DOMAIN rows -> {"notify", "broadcast", "done"}]
    /\ conn \in [Sockets -> [conv : Convs \cup {Nothing}, at : {"none", "dialing", "up"}]]
    /\ send \in [Sockets -> Seq(Frame)]
    /\ page \in [route : Convs \cup {"list", "away"}, conversation : Convs \cup {Nothing},
                 messages : Seq(Message), loading : BOOLEAN, chatLoading : BOOLEAN,
                 error : BOOLEAN, wsStatus : {"idle", "connecting", "open", "closed"}]
    /\ list \in [loading : BOOLEAN, error : BOOLEAN]
    /\ signedIn \in BOOLEAN
    /\ wsRef \in Sockets \cup {Nothing}
    /\ tab \in [Sockets -> [phase : {"none", "connecting", "open", "closing"}, mounted : BOOLEAN]]
    /\ visits \in 0..MaxVisits
    /\ fetches \subseteq [kind : {"conversation", "history", "list"}, conv : Convs \cup {Nothing},
                          read : -1..MaxMessages]

Init ==
    /\ rows = <<>> /\ task = <<>>
    /\ conn = [s \in Sockets |-> NoConn] /\ send = [s \in Sockets |-> <<>>]
    /\ page = Unmounted("away") /\ list = [loading |-> FALSE, error |-> FALSE]
    /\ signedIn = TRUE
    /\ wsRef = Nothing
    /\ tab = [s \in Sockets |-> NoTab]
    /\ fetches = {} /\ visits = 0

-----------------------------------------------------------------------------
(* The server: a client is in the hub of its conversation and in the manager  *)
(* from the upgrade until its pumps end.                                      *)

Clients(c) == {s \in Sockets : conn[s] = [conv |-> c, at |-> "up"]}

ConversationHandler(s) ==
    /\ conn[s].at = "dialing"
    /\ conn' = [conn EXCEPT ![s].at = "up"]
    /\ UNCHANGED <<pageVars, rows, task, send>>

\* Refused, closed from either side, lost, or lost with the process.
ConnectionEnds(s) ==
    /\ conn[s].at # "none"
    /\ conn' = [conn EXCEPT ![s] = NoConn]
    /\ send' = [send EXCEPT ![s] = <<>>]
    /\ UNCHANGED <<pageVars, rows, task>>

\* A read pump saves what it read.
Save(c, mine, typedIn) ==
    /\ Len(rows) < MaxMessages
    /\ rows' = Append(rows, [conv |-> c, mine |-> mine, typedIn |-> typedIn])
    /\ task' = Append(task, IF mine THEN "broadcast" ELSE "notify")

PeerSays(c) == Save(c, FALSE, c) /\ UNCHANGED <<pageVars, conn, send>>

Sent(f, to) == [s \in Sockets |-> IF s \in to THEN Append(send[s], f) ELSE send[s]]

\* When the user is not in the hub of the conversation, NotifyUser writes to all
\* her clients, those of other conversations included. (For her own messages the
\* other participant is looked for.)
NotifyRecipient(m) ==
    LET c == rows[m].conv IN
    /\ task[m] = "notify"
    /\ send' = IF Clients(c) = {}
                 THEN Sent([kind |-> "new_message", msg |-> m], UNION {Clients(d) : d \in Convs})
                 ELSE send
    /\ task' = [task EXCEPT ![m] = "broadcast"]
    /\ UNCHANGED <<pageVars, rows, conn>>

\* The hub broadcasts: to the clients of the conversation, by then.
Broadcast(m) ==
    /\ task[m] = "broadcast"
    /\ send' = Sent([kind |-> "chat", msg |-> m], Clients(rows[m].conv))
    /\ task' = [task EXCEPT ![m] = "done"]
    /\ UNCHANGED <<pageVars, rows, conn>>

-----------------------------------------------------------------------------
(* The socket of the page. *)

Free(s) == tab[s].phase = "none" /\ conn[s].at = "none" /\ s # wsRef

\* A browser socket that is closed: its handshake goes on for a while.
CloseTab(t, s) ==
    IF s # Nothing /\ t[s].phase \in {"connecting", "open"}
      THEN [t EXCEPT ![s].phase = "closing"] ELSE t

Dial(t, s) == [t EXCEPT ![s] = [phase |-> "connecting", mounted |-> TRUE]]

disconnectWs == tab' = CloseTab(tab, wsRef) /\ wsRef' = Nothing /\ UNCHANGED conn

connectWs(p, c) ==
    \E s \in Sockets :
      /\ Free(s)
      /\ tab' = Dial(CloseTab(tab, wsRef), s)
      /\ conn' = [conn EXCEPT ![s] = [conv |-> c, at |-> "dialing"]]
      /\ wsRef' = s
      /\ page' = [p EXCEPT !.wsStatus = "connecting"]

\* slip: the effect does not depend on conversationId, so only a new
\* conversation object or a change of isAuthenticated connects again
SocketEffectStale(p, auth) ==
    IF auth /\ p.conversation # Nothing /\ p.conversation # page.conversation
      THEN connectWs(p, p.route)
      ELSE IF auth /\ p.conversation # Nothing
        THEN page' = p /\ UNCHANGED <<tab, wsRef, conn>>
        ELSE disconnectWs /\ page' = p

\* slip: the effect has no cleanup
SocketEffectNoCleanup(p, auth) ==
    IF auth /\ p.conversation # Nothing
      THEN \E s \in Sockets :
             /\ Free(s)
             /\ tab' = Dial(tab, s)
             /\ conn' = [conn EXCEPT ![s] = [conv |-> p.route, at |-> "dialing"]]
             /\ wsRef' = s
             /\ page' = [p EXCEPT !.wsStatus = "connecting"]
      ELSE page' = p /\ UNCHANGED <<tab, wsRef, conn>>

\* The effect on conversation, isAuthenticated and conversationId: its cleanup
\* disconnects, and it connects if there is a conversation, be it the last one.
SocketEffect(p, auth) ==
    IF auth /\ p.conversation # Nothing
      THEN connectWs(p, p.route)
      ELSE disconnectWs /\ page' = p

\* ws.onopen: the server has upgraded.
OnOpen(s) ==
    /\ tab[s].phase = "connecting" /\ conn[s].at = "up"
    /\ tab' = [tab EXCEPT ![s].phase = "open"]
    /\ page' = IF tab[s].mounted THEN [page EXCEPT !.wsStatus = "open"] ELSE page
    /\ UNCHANGED <<serverVars, list, signedIn, wsRef, fetches, visits>>

\* ws.onclose of any socket of this page, the current one or an earlier one;
\* ws.onerror comes just before it.
OnClose(s) ==
    /\ \/ tab[s].phase = "closing"
       \/ tab[s].phase \in {"connecting", "open"} /\ conn[s].at = "none"
    /\ tab' = [tab EXCEPT ![s] = NoTab]
    /\ page' = IF tab[s].mounted THEN [page EXCEPT !.wsStatus = "closed"] ELSE page
    /\ UNCHANGED <<serverVars, list, signedIn, wsRef, fetches, visits>>

\* slip: a frame without content is appended too
OnMessageUnparsed(s) ==
    /\ tab[s].phase # "connecting"
    /\ send[s] # <<>> /\ send' = [send EXCEPT ![s] = Tail(@)]
    /\ page' = IF tab[s].phase = "open" /\ tab[s].mounted
                 THEN [page EXCEPT !.messages = Append(@, 0)] ELSE page
    /\ UNCHANGED <<rows, task, conn, list, signedIn, wsRef, tab, fetches, visits>>

\* ws.onmessage: chat frame or notice, it is appended to the thread on screen.
OnMessage(s) ==
    /\ tab[s].phase # "connecting"
    /\ send[s] # <<>> /\ send' = [send EXCEPT ![s] = Tail(@)]
    /\ page' = IF tab[s].phase = "open" /\ tab[s].mounted
                 THEN [page EXCEPT !.messages = Append(@, Head(send[s]).msg)] ELSE page
    /\ UNCHANGED <<rows, task, conn, list, signedIn, wsRef, tab, fetches, visits>>

\* The page is rendered when loading is over and a conversation was found ...
PageShown == InThread /\ ~page.loading /\ ~page.error /\ page.conversation # Nothing

\* ... the messages when the history is there, and the input, enabled if open.
ThreadShown == PageShown /\ ~page.chatLoading

InputEnabled == PageShown /\ page.wsStatus = "open"

\* What is typed goes out on wsRef's socket; the read pump at its other end saves it.
sendMessage ==
    /\ InputEnabled
    /\ wsRef # Nothing /\ tab[wsRef].phase = "open" /\ conn[wsRef].at = "up"
    /\ Save(conn[wsRef].conv, TRUE, page.route)
    /\ UNCHANGED <<pageVars, send, conn>>

-----------------------------------------------------------------------------
(* The threads page and the thread page, their fetches and their routes. *)

Fetch(kind, c) == [kind |-> kind, conv |-> c, read |-> -1]

\* Both fetch effects of the thread page, and then the effect of the socket.
OpenThread(c) ==
    LET p == IF InThread THEN [page EXCEPT !.route = c, !.loading = TRUE, !.chatLoading = TRUE,
                                           !.error = FALSE]
             ELSE NewPage(c) IN
    /\ page.route # c
    /\ visits < MaxVisits /\ visits' = visits + 1
    /\ fetches' = {f \in fetches : f.kind # "list"}
                    \cup {Fetch("conversation", c), Fetch("history", c)}
    /\ SocketEffect(p, signedIn)
    /\ list' = [loading |-> FALSE, error |-> FALSE]
    /\ UNCHANGED <<signedIn, rows, task, send>>

\* Leaving the page: its cleanup runs; answers and events to come set no state.
Leave(where) ==
    /\ page.route # where
    /\ visits < MaxVisits /\ visits' = visits + 1
    /\ page' = Unmounted(where)
    /\ tab' = [s \in Sockets |-> [CloseTab(tab, wsRef)[s] EXCEPT !.mounted = FALSE]]
    /\ wsRef' = Nothing
    /\ fetches' = IF where = "list" THEN {Fetch("list", Nothing)} ELSE {}
    /\ list' = [loading |-> where = "list", error |-> FALSE]
    /\ UNCHANGED <<serverVars, signedIn>>

\* The server answers GET /conversations with what the page asked for.
fetchConversation(f) ==
    /\ f.kind = "conversation"
    /\ SocketEffect([page EXCEPT !.conversation = f.conv, !.loading = FALSE], signedIn)
    /\ fetches' = fetches \ {f}
    /\ UNCHANGED <<list, visits, signedIn, rows, task, send>>

\* ... the request fails, or the conversation is not among the user's.
ConversationUnavailable(f) ==
    /\ f.kind = "conversation"
    /\ page' = [page EXCEPT !.error = TRUE, !.loading = FALSE]
    /\ fetches' = fetches \ {f}
    /\ UNCHANGED <<serverVars, list, signedIn, wsRef, tab, visits>>

\* GetMessagesForConversation reads the table; the answer comes later.
ReadHistory(f) ==
    /\ f.kind = "history" /\ f.read = -1
    /\ fetches' = (fetches \ {f}) \cup {[f EXCEPT !.read = Len(rows)]}
    /\ UNCHANGED <<serverVars, page, list, signedIn, wsRef, tab, visits>>

\* The first n rows, those of the conversation, oldest first.
RowsOf(c, n) ==
    LET upTo[i \in 0..n] == IF i = 0 THEN <<>>
                            ELSE IF rows[i].conv = c THEN Append(upTo[i - 1], i)
                            ELSE upTo[i - 1]
    IN upTo[n]

\* The history takes the place of whatever is on the screen.
loadHistory(f) ==
    /\ f.kind = "history" /\ f.read >= 0
    /\ page' = [page EXCEPT !.messages = RowsOf(f.conv, f.read), !.chatLoading = FALSE]
    /\ fetches' = fetches \ {f}
    /\ UNCHANGED <<serverVars, list, signedIn, wsRef, tab, visits>>

\* slip: the spinner is taken away in the try block
HistoryFailsSpinning(f) ==
    /\ f.kind = "history"
    /\ fetches' = fetches \ {f}
    /\ UNCHANGED <<serverVars, page, list, signedIn, wsRef, tab, visits>>

HistoryFails(f) ==
    /\ f.kind = "history"
    /\ page' = [page EXCEPT !.chatLoading = FALSE]
    /\ fetches' = fetches \ {f}
    /\ UNCHANGED <<serverVars, list, signedIn, wsRef, tab, visits>>

\* The list of threads, or its error and the button to try again.
fetchConversations(f, ok) ==
    /\ f.kind = "list"
    /\ list' = [loading |-> FALSE, error |-> ~ok]
    /\ fetches' = fetches \ {f}
    /\ UNCHANGED <<serverVars, page, signedIn, wsRef, tab, visits>>

\* The list is rendered after its spinner, and not after an error.
ListShown == ~list.loading /\ ~list.error

\* Links: of the list when it is shown, of the navbar's dropdown anywhere.
FollowLink(c) ==
    /\ page.route = "list" => ListShown
    /\ OpenThread(c)

\* The token ends, or the user signs out; the page stands until she leaves.
SignOut ==
    /\ signedIn
    /\ signedIn' = FALSE
    /\ IF InThread THEN SocketEffect(page, FALSE) ELSE UNCHANGED <<page, tab, wsRef, conn>>
    /\ UNCHANGED <<list, fetches, rows, task, send, visits>>

SignIn ==
    /\ ~signedIn /\ page.route = "away"
    /\ signedIn' = TRUE
    /\ UNCHANGED <<serverVars, page, list, wsRef, tab, fetches, visits>>

-----------------------------------------------------------------------------
Next ==
    \/ \E c \in Convs : PeerSays(c) \/ FollowLink(c)
    \/ \E m \in DOMAIN rows : NotifyRecipient(m) \/ Broadcast(m)
    \/ \E s \in Sockets : \/ ConversationHandler(s) \/ ConnectionEnds(s)
                           \/ OnOpen(s) \/ OnClose(s) \/ OnMessage(s)
    \/ sendMessage
    \/ \E f \in fetches : \/ fetchConversation(f) \/ ConversationUnavailable(f)
                          \/ ReadHistory(f) \/ loadHistory(f) \/ HistoryFails(f)
                          \/ \E ok \in BOOLEAN : fetchConversations(f, ok)
    \/ Leave("list") \/ Leave("away")
    \/ SignOut \/ SignIn

-----------------------------------------------------------------------------
ConversationSpec == Init /\ [][Next]_vars

-----------------------------------------------------------------------------
(* Properties. *)

\* What is typed in a thread is saved in that thread, whatever threads were open
\* before and however late their answers and socket events come.
SaidInThisThread == \A m \in DOMAIN rows : rows[m].conv = rows[m].typedIn

\* A page leaves no socket behind: every one but wsRef's is closed or closing,
\* after any number of threads, answers, sign-outs and visits.
NoSocketLeftBehind ==
    \A s \in Sockets : tab[s].phase \in {"connecting", "open"} => s = wsRef

\* A spinner turns only while the request that stops it is under way, however
\* the user goes from thread to thread and whichever answers fail.
SpinnersAwaited ==
    /\ page.loading => \E f \in fetches : f.kind = "conversation"
    /\ page.chatLoading => \E f \in fetches : f.kind = "history"
    /\ list.loading => \E f \in fetches : f.kind = "list"

\* The messages on the screen are of the thread that is open. (It does not hold:
\* notices of other threads arrive on the socket, and old answers are shown.)
OnlyThisThread ==
    ThreadShown => \A m \in Range(page.messages) : rows[m].conv = page.route

=============================================================================

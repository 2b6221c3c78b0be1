----------------------------- MODULE ClientSession -----------------------------
(* The session of one browser tab: AuthContext.jsx (token, user, local       *)
(* storage), NotificationsContext.jsx (the notification socket, unread        *)
(* counts, toasts) and the session controls of Navbar.jsx.                    *)
(*                                                                            *)
(* A React commit and the effects it causes are one step. A callback (an      *)
(* answer, a socket event, a timer) is a step of its own, run with the values *)
(* its closure captured, which may be older than the state.                   *)
EXTENDS Integers, Sequences, Functions, FiniteSetsExt

CONSTANTS
    Users,        \* accounts somebody signs in with in this tab
    Nobody,       \* null
    Convs,        \* conversations with unread messages
    Listings,     \* listings somebody is noticed about
    MaxLinks,     \* bound: notification sockets with a reconnect loop of their own
    MaxCalls,     \* bound: requests in flight
    MaxUnread,    \* bound: unread messages counted
    MaxToasts     \* bound: toasts of a listing on the screen

ASSUME SessionAssumption ==
    /\ Nobody \notin Users /\ IsFiniteSet(Convs)
    /\ MaxLinks \in Nat \ {0} /\ {MaxCalls, MaxUnread, MaxToasts} \subseteq Nat

VARIABLES
    storage,   \* localStorage: token, user, unread counts
    session,   \* token and user of AuthContext, and isAuthenticated as last rendered
    alive,     \* the accounts whose last token has not expired
    unread,    \* unreadConversations (0: no entry) and unreadCount
    links,     \* notification sockets, one entry per reconnect loop
    wsRef,     \* the link that wsRef.current points to, 0 for null
    toasts,    \* toasts of each listing on the screen
    timers,    \* pending eight-second timers, in order
    calls,     \* sign-in and avatar requests in flight
    navbar     \* message dropdown and avatar spinner

vars == <<storage, session, alive, unread, links, wsRef, toasts, timers, calls, navbar>>

NoUser == [id |-> Nobody, picture |-> Nobody]
Slots  == 1..MaxLinks

\* The avatar is named after the account that uploaded it.
User == [id : Users \cup {Nobody}, picture : Users \cup {Nobody}]

SessionTypeOK ==
    /\ storage \in [token : Users \cup {Nobody}, user : User,
                    perConv : [Convs -> 0..MaxUnread], count : 0..MaxUnread]
    /\ session \in [token : Users \cup {Nobody}, user : User, auth : BOOLEAN]
    /\ alive \subseteq Users
    /\ unread \in [perConv : [Convs -> 0..MaxUnread], count : 0..MaxUnread]
    /\ links \in [Slots -> [phase : {"none", "open", "closing", "waiting"},
                            as : Users \cup {Nobody}]]
    /\ wsRef \in 0..MaxLinks
    /\ toasts \in [Listings -> 0..MaxToasts]
    /\ timers \in Seq(Listings)
    /\ calls \subseteq [kind : {"login", "google", "avatar"}, as : Users]
    /\ navbar \in [msgOpen : BOOLEAN, uploading : BOOLEAN]

-----------------------------------------------------------------------------
(* The rendered session. *)

isTokenExpired(token) == token \notin alive

IsAuthenticated(token, user) ==
    token # Nobody /\ user # NoUser /\ ~isTokenExpired(token)

Down == [phase |-> "none", as |-> Nobody]

Free(k) == links[k].phase = "none"

\* createNotificationSocket: a socket carries the token in storage, whoever's it
\* is; the server turns an expired one away.
SocketOf(token) ==
    [phase |-> IF isTokenExpired(token) THEN "closing" ELSE "open", as |-> token]

\* close(): the handshake takes its time and onclose is called at its end.
CloseRef(ls) ==
    IF wsRef # 0 /\ ls[wsRef].phase = "open"
      THEN [ls EXCEPT ![wsRef].phase = "closing"] ELSE ls

\* The effect on isAuthenticated: its cleanup closes the socket wsRef knows; it
\* connects when the session begins and does nothing when only the user changed.
NotificationEffect(auth) ==
    CASE auth /\ ~session.auth ->
           \E k \in Slots :
             /\ Free(k)
             /\ links' = [links EXCEPT ![k] = [phase |-> "open", as |-> storage'.token]]
             /\ wsRef' = k
      [] ~auth /\ session.auth -> links' = CloseRef(links) /\ wsRef' = 0
      [] OTHER -> UNCHANGED <<links, wsRef>>

\* setToken and setUser, the render and the effect on isAuthenticated.
Render(token, user) ==
    LET auth == IsAuthenticated(token, user) IN
    /\ session' = [token |-> token, user |-> user, auth |-> auth]
    /\ NotificationEffect(auth)

Init ==
    /\ storage = [token |-> Nobody, user |-> NoUser,
                  perConv |-> [c \in Convs |-> 0], count |-> 0]
    /\ session = [token |-> Nobody, user |-> NoUser, auth |-> FALSE]
    /\ alive = {}
    /\ unread = [perConv |-> [c \in Convs |-> 0], count |-> 0]
    /\ links = [k \in Slots |-> Down] /\ wsRef = 0
    /\ toasts = [l \in Listings |-> 0] /\ timers = <<>>
    /\ calls = {}
    /\ navbar = [msgOpen |-> FALSE, uploading |-> FALSE]

-----------------------------------------------------------------------------
(* AuthContext: sign in, sign out, change the picture. *)

\* AuthPage is shown to a visitor; the Google button is not disabled while a
\* password login is in flight, so there may be one request of each kind.
StartLogin(kind, u) ==
    /\ ~session.auth
    /\ kind \in {"login", "google"} /\ \A c \in calls : c.kind # kind
    /\ Cardinality(calls) < MaxCalls
    /\ calls' = calls \cup {[kind |-> kind, as |-> u]}
    /\ UNCHANGED <<storage, session, alive, unread, links, wsRef, toasts, timers, navbar>>

\* What both kinds of login do with their answer.
SignedIn(c) ==
    LET user == [id |-> c.as, picture |-> Nobody] IN
    /\ alive' = alive \cup {c.as}
    /\ storage' = [storage EXCEPT !.token = c.as, !.user = user]
    /\ session' = [token |-> c.as, user |-> user, auth |-> TRUE]
    /\ NotificationEffect(TRUE)
    /\ calls' = calls \ {c}
    /\ UNCHANGED <<unread, toasts, timers, navbar>>

login(c) == c.kind = "login" /\ SignedIn(c)

googleLogin(c) == c.kind = "google" /\ SignedIn(c)

CallFails(c) ==
    /\ calls' = calls \ {c}
    /\ navbar' = [navbar EXCEPT !.uploading = @ /\ c.kind # "avatar"]
    /\ UNCHANGED <<storage, session, alive, unread, links, wsRef, toasts, timers>>

logout ==
    /\ storage' = [storage EXCEPT !.token = Nobody, !.user = NoUser]
    /\ Render(Nobody, NoUser)

\* The sign-out button.
handleLogout ==
    /\ session.auth
    /\ logout
    /\ UNCHANGED <<alive, unread, toasts, timers, calls, navbar>>

\* The avatar button takes a picture at any time, its spinner notwithstanding.
AvatarShown == session.auth

handleAvatarChange ==
    /\ AvatarShown
    /\ \A c \in calls : c.kind = "avatar" => c.as # storage.token
    /\ Cardinality(calls) < MaxCalls
    /\ calls' = calls \cup {[kind |-> "avatar", as |-> storage.token]}
    /\ navbar' = [navbar EXCEPT !.uploading = TRUE]
    /\ UNCHANGED <<storage, session, alive, unread, links, wsRef, toasts, timers>>

\* slip: the answer edits the user of the render in which the upload began
updatePictureOfRender(c) ==
    LET updated == [id |-> c.as, picture |-> c.as] IN
    /\ c.kind = "avatar"
    /\ storage' = [storage EXCEPT !.user = updated]
    /\ Render(session.token, updated)
    /\ calls' = calls \ {c}
    /\ navbar' = [navbar EXCEPT !.uploading = FALSE]
    /\ UNCHANGED <<alive, unread, toasts, timers>>

\* The answer edits the user that is in storage by now, an empty one after a logout.
updatePicture(c) ==
    LET updated == [storage.user EXCEPT !.picture = c.as] IN
    /\ c.kind = "avatar"
    /\ storage' = [storage EXCEPT !.user = updated]
    /\ Render(session.token, updated)
    /\ calls' = calls \ {c}
    /\ navbar' = [navbar EXCEPT !.uploading = FALSE]
    /\ UNCHANGED <<alive, unread, toasts, timers>>

\* A token lives for a day; nothing on the page notices its end.
TokenExpires(u) ==
    /\ alive' = alive \ {u} /\ u \in alive
    /\ UNCHANGED <<storage, session, unread, links, wsRef, toasts, timers, calls, navbar>>

-----------------------------------------------------------------------------
(* NotificationsContext: the socket and what arrives on it. *)

\* The two effects that write the counts to storage.
Persist == storage' = [storage EXCEPT !.perConv = unread'.perConv, !.count = unread'.count]

addUnread(c) ==
    /\ unread.count < MaxUnread
    /\ unread' = [perConv |-> [unread.perConv EXCEPT ![c] = @ + 1],
                  count   |-> unread.count + 1]
    /\ Persist

showToast(l) ==
    /\ toasts[l] < MaxToasts /\ toasts' = [toasts EXCEPT ![l] = @ + 1]
    /\ timers' = Append(timers, l)

\* onmessage, on any socket that is open, the one in wsRef or not.
NewMessage(k, c) ==
    /\ links[k].phase = "open"
    /\ addUnread(c)
    /\ UNCHANGED <<session, alive, links, wsRef, toasts, timers, calls, navbar>>

AuctionNotice(k, l) ==
    /\ links[k].phase = "open"
    /\ showToast(l)
    /\ UNCHANGED <<storage, session, alive, unread, links, wsRef, calls, navbar>>

\* The timer takes away every toast of its listing, a later one too.
ToastTimer ==
    /\ timers # <<>>
    /\ toasts' = [toasts EXCEPT ![Head(timers)] = 0]
    /\ timers' = Tail(timers)
    /\ UNCHANGED <<storage, session, alive, unread, links, wsRef, calls, navbar>>

\* What onclose does when it finds no token that is valid.
LogoutOnClose(k) ==
    /\ storage' = [storage EXCEPT !.token = Nobody, !.user = NoUser]
    /\ session' = [token |-> Nobody, user |-> NoUser, auth |-> FALSE]
    /\ links' = [(IF session.auth THEN CloseRef(links) ELSE links) EXCEPT ![k] = Down]
    /\ wsRef' = IF session.auth \/ wsRef = k THEN 0 ELSE wsRef

\* ... and when it finds one: setTimeout.
RetryOnClose(k) ==
    /\ links' = [links EXCEPT ![k] = [phase |-> "waiting", as |-> Nobody]]
    /\ UNCHANGED <<storage, session, wsRef>>

\* slip: asks about the token the socket was opened with
OnCloseOwnToken(k) ==
    /\ links[k].phase \in {"open", "closing"}
    /\ IF isTokenExpired(links[k].as) THEN LogoutOnClose(k) ELSE RetryOnClose(k)
    /\ UNCHANGED <<alive, unread, toasts, timers, calls, navbar>>

\* onclose: by the tab, by the server, or because the connection broke. The
\* token in storage decides, not the one the socket was opened with.
OnClose(k) ==
    /\ links[k].phase \in {"open", "closing"}
    /\ IF isTokenExpired(storage.token) THEN LogoutOnClose(k) ELSE RetryOnClose(k)
    /\ UNCHANGED <<alive, unread, toasts, timers, calls, navbar>>

\* slip: does nothing while wsRef points to a socket, though it be the closed one
ReconnectIfNull(k) ==
    /\ links[k].phase = "waiting"
    /\ links' = [links EXCEPT ![k] = IF wsRef # 0 THEN Down ELSE SocketOf(storage.token)]
    /\ UNCHANGED <<storage, session, alive, unread, wsRef, toasts, timers, calls, navbar>>

\* The five-second timer: isAuthenticated is the TRUE of its closure.
Reconnect(k) ==
    /\ links[k].phase = "waiting"
    /\ IF storage.token # Nobody
         THEN links' = [links EXCEPT ![k] = SocketOf(storage.token)] /\ wsRef' = k
         ELSE links' = [links EXCEPT ![k] = Down] /\ wsRef' = IF wsRef = k THEN 0 ELSE wsRef
    /\ UNCHANGED <<storage, session, alive, unread, toasts, timers, calls, navbar>>

\* The dropdown of the navbar, and its "clear all".
DropdownShown == session.auth /\ navbar.msgOpen

ClearShown == DropdownShown /\ unread.count > 0

clearUnread ==
    /\ ClearShown
    /\ unread' = [perConv |-> [c \in Convs |-> 0], count |-> 0]
    /\ Persist
    /\ UNCHANGED <<session, alive, links, wsRef, toasts, timers, calls, navbar>>

\* slip: the updater runs twice and counts down both times, as StrictMode would
\* have it in a development build
clearUnreadForConversationTwice(c) ==
    /\ session.auth
    /\ unread.perConv[c] > 0
    /\ unread' = [perConv |-> [unread.perConv EXCEPT ![c] = 0],
                  count   |-> Max({0, unread.count - 2 * unread.perConv[c]})]
    /\ Persist
    /\ UNCHANGED <<session, alive, links, wsRef, toasts, timers, calls, navbar>>

\* slip: ... and below zero
clearUnreadForConversationBelow(c) ==
    /\ session.auth
    /\ unread.perConv[c] > 0
    /\ unread' = [perConv |-> [unread.perConv EXCEPT ![c] = 0],
                  count   |-> unread.count - 2 * unread.perConv[c]]
    /\ Persist
    /\ UNCHANGED <<session, alive, links, wsRef, toasts, timers, calls, navbar>>

\* Opening a conversation; the count is updated inside the updater of the list.
clearUnreadForConversation(c) ==
    /\ session.auth
    /\ unread.perConv[c] > 0
    /\ unread' = [perConv |-> [unread.perConv EXCEPT ![c] = 0],
                  count   |-> Max({0, unread.count - unread.perConv[c]})]
    /\ Persist
    /\ UNCHANGED <<session, alive, links, wsRef, toasts, timers, calls, navbar>>

-----------------------------------------------------------------------------
(* Navbar and reload. *)

handleMsgClick ==
    /\ session.auth
    /\ navbar' = [navbar EXCEPT !.msgOpen = ~@]
    /\ UNCHANGED <<storage, session, alive, unread, links, wsRef, toasts, timers, calls>>

\* A press outside the dropdown, its close button and its links.
CloseDropdown ==
    /\ DropdownShown
    /\ navbar' = [navbar EXCEPT !.msgOpen = FALSE]
    /\ UNCHANGED <<storage, session, alive, unread, links, wsRef, toasts, timers, calls>>

\* useState(() => ...): the token in storage, unless it is absent or expired.
InitialToken == IF isTokenExpired(storage.token) THEN Nobody ELSE storage.token

\* useState(() => ...) of the notices.
InitialUnread == [perConv |-> storage.perConv, count |-> storage.count]

\* The effect on token, after the first render.
LoadUser(token) == IF token # Nobody THEN storage.user ELSE NoUser

\* The page is loaded again: sockets, timers, toasts and requests are gone.
Reload ==
    LET token == InitialToken
        user  == LoadUser(token)
        auth  == IsAuthenticated(token, user) IN
    /\ storage' = IF token = Nobody
                    THEN [storage EXCEPT !.token = Nobody, !.user = NoUser] ELSE storage
    /\ session' = [token |-> token, user |-> user, auth |-> auth]
    /\ unread' = InitialUnread
    /\ links' = [k \in Slots |-> IF auth /\ k = 1 THEN SocketOf(token) ELSE Down]
    /\ wsRef' = IF auth THEN 1 ELSE 0
    /\ toasts' = [l \in Listings |-> 0] /\ timers' = <<>> /\ calls' = {}
    /\ navbar' = [msgOpen |-> FALSE, uploading |-> FALSE]
    /\ UNCHANGED alive

Next ==
    \/ \E u \in Users : StartLogin("login", u) \/ StartLogin("google", u) \/ TokenExpires(u)
    \/ \E c \in calls : login(c) \/ googleLogin(c) \/ updatePicture(c) \/ CallFails(c)
    \/ handleLogout \/ handleAvatarChange
    \/ \E k \in Slots : \/ OnClose(k) \/ Reconnect(k)
                        \/ \E c \in Convs : NewMessage(k, c)
                        \/ \E l \in Listings : AuctionNotice(k, l)
    \/ ToastTimer \/ clearUnread
    \/ \E c \in Convs : clearUnreadForConversation(c)
    \/ handleMsgClick \/ CloseDropdown
    \/ Reload

-----------------------------------------------------------------------------
(* Fairness: a connection that is being closed ends, and timers fire. *)

SessionFairness ==
    /\ \A k \in Slots : /\ WF_vars(links[k].phase = "closing" /\ OnClose(k))
                        /\ WF_vars(Reconnect(k))
    /\ WF_vars(ToastTimer)

SessionSpec == Init /\ [][Next]_vars /\ SessionFairness

-----------------------------------------------------------------------------
(* Properties. *)

\* The badge is the sum of the entries in the dropdown (two states, updated by
\* separate calls, one of them inside the updater of the other), on the screen
\* and in storage, where the next load of the page takes them from.
UnreadAddsUp ==
    /\ unread.count = FoldFunction(+, 0, unread.perConv)
    /\ storage.count = unread.count /\ storage.perConv = unread.perConv

\* Whom the page shows as signed in is the owner of the token it acts with, in
\* memory and in storage, however logins, sign-outs and avatar answers overlap.
RightAccount ==
    session.auth => /\ session.user.id = session.token
                    /\ storage.token = session.token
                    /\ storage.user.id = session.token

\* A lost connection, a late answer or a reload never signs anybody out: only
\* the user does, or the end of her token.
NoSpuriousSignOut ==
    [][session.auth /\ ~session.auth' => handleLogout \/ session.token \notin alive]_vars

\* A socket that brings the notices of the account that is signed in.
OwnSocket == \E k \in Slots : links[k].phase = "open" /\ links[k].as = session.token

\* The socket of the page is another account's.
Overtaken == /\ session.auth /\ wsRef # 0
             /\ links[wsRef].phase = "open" /\ links[wsRef].as # session.token

\* While somebody is signed in her own notices are not silently off: whenever no
\* socket of hers is open, one is opened again or the session ends. There is one
\* exception, and only a login that is answered during the session of another brings
\* it about: the second account takes the session over, isAuthenticated stays true, so
\* the effect does not run again, and the page's socket remains the first account's
\* until its connection breaks.
StaysConnected ==
    /\ session.auth ~> OwnSocket \/ ~session.auth \/ Overtaken
    /\ [][~Overtaken /\ Overtaken' => session.auth /\ \E c \in calls : login(c) \/ googleLogin(c)]_vars

=============================================================================

-------------------------------- MODULE WebPage --------------------------------
(* What the pages of the web client share: the route of App.jsx that is shown, *)
(* the account that is signed in, and the life of a request (api/index.js).    *)
(* ClientSession has the session itself.                                       *)
EXTENDS Integers, FiniteSets

CONSTANTS
    Users,    \* accounts, named by their email
    Nobody    \* nobody is signed in; a blank field

ASSUME WebPageAssumption == Nobody \notin Users

VARIABLES
    route,    \* the page that is shown; "elsewhere" after it is left
    viewer    \* user of AuthContext

Routes == {"auth", "create", "edit", "home", "auctions", "buy", "mine", "listing", "elsewhere"}

IsAuthenticated == viewer # Nobody

\* A request is sent, answered (its effect is in the database by then) or has
\* failed, and is then taken by its await. A failure may hide a served request.
Phases == {"sent", "answered", "failed"}

\* calls without c, which becomes d
Becomes(calls, c, d) == (calls \ {c}) \cup {d}

Answered(c) == [c EXCEPT !.at = "answered"]

\* The server refuses, or the network fails before or after the request is served.
Failed(c) == [c EXCEPT !.at = "failed"]

Navigate == route' = "elsewhere"

=============================================================================

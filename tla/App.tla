---------------------------------- MODULE App ----------------------------------
(* App.jsx: the routes of the web client, each with the state of its page. The *)
(* pages share the session and the server and nothing else, so a behaviour     *)
(* starts on any page, as a link or a reload does, and ends when it is left;   *)
(* the requests that page has in flight go on.                                 *)
EXTENDS AuthPage, ListingPage, ListingForm, Browse

vars == <<route, viewer, authVars, listingVars, formVars, browseVars>>

\* The type invariant, page by page.
PagesTypeOK ==
    /\ route \in Routes /\ viewer \in Users \cup {Nobody}
    /\ AuthTypeOK /\ ListingTypeOK /\ ListingFormTypeOK /\ BrowseTypeOK

\* A page of App.jsx is entered. AuthPage sends a user who is signed in away.
Init ==
    /\ route \in Routes \ {"elsewhere"} /\ viewer \in Mailboxes \cup {Nobody}
    /\ route = "auth" => viewer = Nobody
    /\ AuthInit /\ ListingInit /\ ListingFormInit /\ BrowseInit

Next ==
    \/ AuthPageNext /\ UNCHANGED <<listingVars, formVars, browseVars>>
    \/ ListingPageNext /\ UNCHANGED <<authVars, formVars, browseVars>>
    \/ ListingFormNext /\ UNCHANGED <<authVars, listingVars, browseVars>>
    \/ BrowseNext /\ UNCHANGED <<authVars, listingVars, formVars>>

Spec == Init /\ [][Next]_vars

=============================================================================

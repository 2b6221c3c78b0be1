--------------------------------- MODULE Browse ---------------------------------
(* The pages that list: HomePage, AuctionsPage, BuyProductsPage and            *)
(* MyListingsPage, with GetListings and DeleteListing of listing.go.           *)
EXTENDS WebPage

CONSTANTS
    Goods,       \* the listings of the market
    Queries,     \* what search, category, type and order can be set to, together
    AnyQuery,    \* the filters as they are at first
    MaxPages,    \* bound: pages of results
    MineLimit,   \* what MyListingsPage asks for of all listings: 50
    MaxAsks      \* bound: requests in flight

ASSUME BrowseAssumption ==
    /\ AnyQuery \in Queries /\ IsFiniteSet(Goods)
    /\ MaxPages \in Nat \ {0} /\ MineLimit \in Nat /\ MaxAsks \in Nat

VARIABLES
    goods,   \* each listing: whose and what it is, and if it is sold or deleted
    board,   \* the state of the page
    asks     \* its requests in flight

browseVars == <<goods, board, asks>>

Rows   == [good : Goods, sold : BOOLEAN]
NoGood == "none"

BrowseTypeOK ==
    /\ goods \in [Goods -> [mine : BOOLEAN, type : {"auction", "fixed"},
                            at : {"unsold", "sold", "deleted"}]]
    /\ board \in [query : Queries, page : 1..MaxPages, pages : 0..MaxPages, loading : BOOLEAN,
                  error : BOOLEAN, listed : SUBSET Rows, deleting : Goods \cup {NoGood}]
    /\ asks \subseteq [kind : {"search", "unsold", "sold", "delete"}, query : Queries,
                       page : 1..MaxPages, good : Goods \cup {NoGood}, at : Phases,
                       found : SUBSET Rows, before : SUBSET Rows, pages : 0..MaxPages]

NewBoard ==
    [query |-> AnyQuery, page |-> 1, pages |-> 1, loading |-> FALSE, error |-> FALSE,
     listed |-> {}, deleting |-> NoGood]

NewAsk(kind, query, page) ==
    [kind |-> kind, query |-> query, page |-> page, good |-> NoGood, at |-> "sent",
     found |-> {}, before |-> {}, pages |-> 0]

IsSearch == route \in {"home", "auctions", "buy"}

\* A page asks when it is mounted; MyListingsPage sends a visitor to /auth instead.
\* Whose a listing is matters to that page only, and who looks to no other.
BrowseInit ==
    /\ goods \in [Goods -> [mine : IF route = "mine" THEN BOOLEAN ELSE {FALSE},
                             type : IF IsSearch THEN {"auction", "fixed"} ELSE {"fixed"},
                             at : {"unsold"}]]
    /\ route = "mine" => IsAuthenticated
    /\ IsSearch => viewer = Nobody
    /\ \E p \in 1..MaxPages :
         /\ p # 1 => route = "home"
         /\ board = [NewBoard EXCEPT !.page = p, !.loading = IsSearch \/ route = "mine"]
         /\ asks = CASE IsSearch -> {NewAsk("search", AnyQuery, p)}
                     [] route = "mine" -> {NewAsk("unsold", AnyQuery, 1)}
                     [] OTHER -> {}

-----------------------------------------------------------------------------
(* What the pages show. *)

\* HomePage always has its filters; the other two are a spinner until there is a row.
PageShown   == IsSearch /\ (route = "home" \/ ~board.loading \/ board.listed # {})
RetryShown  == board.error /\ (route = "home" => ~board.loading) /\ PageShown
CardShown(g) ==
    /\ PageShown /\ \E r \in board.listed : r.good = g
    /\ route = "home" => ~board.loading /\ ~board.error
Pagination  == route = "home" /\ board.pages > 1

MineShown       == route = "mine" /\ ~board.loading
activeListings  == {r.good : r \in {s \in board.listed : ~s.sold}}
soldListings    == {r.good : r \in {s \in board.listed : s.sold}}
ActiveRow(g)    == MineShown /\ g \in activeListings
SoldRow(g)      == MineShown /\ g \in soldListings
MineRetryShown  == MineShown /\ board.error

-----------------------------------------------------------------------------
(* Asking. *)

Asks(c, b) ==
    /\ Cardinality(asks) < MaxAsks /\ c \notin asks
    /\ asks' = asks \cup {c}
    /\ board' = [b EXCEPT !.loading = TRUE, !.error = FALSE]
    /\ UNCHANGED <<route, viewer, goods>>

\* The URL's parameters: the effect runs when one of them is another.
ShowParams(q, p) ==
    /\ q # board.query \/ p # board.page
    /\ Asks(NewAsk("search", q, p), [board EXCEPT !.query = q, !.page = p])

\* setParam deletes the page last, also when it is what was to be set.
setParam(q) == route = "home" /\ ShowParams(q, 1)

\* "Prev" and "Next" stay on, or return to, the first page.
TurnPage ==
    /\ Pagination /\ (board.page > 1 \/ board.page < board.pages)
    /\ setParam(board.query)

\* A new filters object, the same or not.
handleFilterChange(q) ==
    /\ route \in {"auctions", "buy"} /\ PageShown
    /\ Asks(NewAsk("search", q, 1), [board EXCEPT !.query = q, !.page = 1])

Retry == RetryShown /\ Asks(NewAsk("search", board.query, board.page), board)

\* A page that is left keeps only the deletions it asked for.
LeaveBoard ==
    /\ Navigate /\ board' = NewBoard /\ asks' = {c \in asks : c.kind = "delete"}
    /\ UNCHANGED goods

\* A card, a title, "View".
OpenListing(g) ==
    (CardShown(g) \/ ActiveRow(g) \/ SoldRow(g)) /\ LeaveBoard /\ UNCHANGED viewer

\* The bar above and, on an empty page, "List an Item".
LeaveBrowse == (IsSearch \/ route = "mine") /\ LeaveBoard /\ UNCHANGED viewer

\* An expired token makes a visitor of the user, whom MyListingsPage sends away.
MineSessionExpires == route = "mine" /\ viewer' = Nobody /\ LeaveBoard

fetchMyListings == Asks(NewAsk("unsold", AnyQuery, 1), board)

RetryMine == MineRetryShown /\ fetchMyListings

\* The effect runs again for a new user object, whatever is under way.
MineRenewed == route = "mine" /\ fetchMyListings

DeleteRow(g) ==
    /\ ActiveRow(g) /\ board.deleting # g
    /\ LET c == [NewAsk("delete", AnyQuery, 1) EXCEPT !.good = g] IN
         /\ Cardinality(asks) < MaxAsks /\ c \notin asks /\ asks' = asks \cup {c}
    /\ board' = [board EXCEPT !.deleting = g]
    /\ UNCHANGED <<route, viewer, goods>>

-----------------------------------------------------------------------------
(* The server. *)

AskServed(c, d) == asks' = Becomes(asks, c, d) /\ UNCHANGED <<route, viewer, board>>

\* Search and category are given to the database; type is the page's own.
Found(status) ==
    {[good |-> g, sold |-> status = "sold"] :
       g \in {h \in Goods : /\ goods[h].at = status
                            /\ route = "auctions" => goods[h].type = "auction"
                            /\ route = "buy" => goods[h].type = "fixed"}}

\* slip: the sold ones are asked for first
MatchesSoldFirst(c) == Found(IF c.kind = "unsold" THEN "sold" ELSE "unsold")

Matches(c) == Found(IF c.kind = "sold" THEN "sold" ELSE "unsold")

GetListings(c) ==
    /\ c.kind \in {"search", "unsold", "sold"} /\ c.at = "sent"
    /\ \E S \in SUBSET Matches(c), n \in 0..MaxPages :
         /\ c.kind # "search" =>
              n = 0 /\ (S = Matches(c) \/ Cardinality(S) = MineLimit)
         /\ AskServed(c, [Answered(c) EXCEPT !.found = S, !.pages = n])
    /\ UNCHANGED goods

DeleteGood(c) ==
    /\ c.kind = "delete" /\ c.at = "sent"
    /\ IF goods[c.good].at = "deleted" THEN AskServed(c, Failed(c)) /\ UNCHANGED goods
       ELSE /\ goods' = [goods EXCEPT ![c.good].at = "deleted"]
            /\ AskServed(c, Answered(c))

AskLost(c) ==
    /\ c.at \in {"sent", "answered"} /\ UNCHANGED goods
    /\ AskServed(c, [Failed(c) EXCEPT !.found = {}, !.before = {}, !.pages = 0])

\* A closure or a payment sells it.
GoodSold(g) ==
    /\ IsSearch \/ route = "mine"
    /\ goods[g].at = "unsold" /\ goods' = [goods EXCEPT ![g].at = "sold"]
    /\ UNCHANGED <<route, viewer, board, asks>>

-----------------------------------------------------------------------------
(* Answers. *)

Taken(c, b) ==
    /\ asks' = asks \ {c} /\ board' = IF IsSearch \/ route = "mine" THEN b ELSE board
    /\ UNCHANGED <<route, viewer, goods>>

\* Of whichever search: nothing tells an old answer from a new one.
SearchAnswered(c) ==
    /\ c.kind = "search" /\ c.at = "answered"
    /\ Taken(c, [board EXCEPT !.listed = c.found, !.pages = c.pages,
                              !.loading = FALSE])

\* First the unsold, then the sold, then those of the user: a listing that is sold
\* in between is there twice.
MineAnswered(c) ==
    /\ c.at = "answered"
    /\ \/ /\ c.kind = "unsold"
          /\ asks' = Becomes(asks, c, [NewAsk("sold", AnyQuery, 1) EXCEPT !.before = c.found])
          /\ UNCHANGED <<route, viewer, goods, board>>
       \/ /\ c.kind = "sold"
          /\ Taken(c, [board EXCEPT !.loading = FALSE,
                         !.listed = {r \in c.before \cup c.found : goods[r.good].mine}])

\* Its row goes; the button of any other deletion is enabled with it.
DeleteAnswered(c) ==
    /\ c.kind = "delete" /\ c.at = "answered"
    /\ Taken(c, [board EXCEPT !.listed = {r \in @ : r.good # c.good}, !.deleting = NoGood])

\* slip: the spinner is only taken away by an answer
AskFailedSpinning(c) ==
    /\ c.at = "failed"
    /\ Taken(c, IF c.kind = "delete" THEN [board EXCEPT !.deleting = NoGood]
                ELSE [board EXCEPT !.error = TRUE])

AskFailed(c) ==
    /\ c.at = "failed"
    /\ Taken(c, IF c.kind = "delete" THEN [board EXCEPT !.deleting = NoGood]
                ELSE [board EXCEPT !.error = TRUE, !.loading = FALSE])

\* What happens on the pages, apart from their requests.
BrowseActs ==
    \/ \E q \in Queries : setParam(q) \/ handleFilterChange(q)
    \/ TurnPage \/ Retry \/ LeaveBrowse \/ MineSessionExpires \/ RetryMine \/ MineRenewed
    \/ \E g \in Goods : OpenListing(g) \/ DeleteRow(g) \/ GoodSold(g)

BrowseNext ==
    \/ (IsSearch \/ route = "mine") /\ BrowseActs
    \/ \E c \in asks :
         \/ GetListings(c) \/ DeleteGood(c) \/ AskLost(c)
         \/ SearchAnswered(c) \/ MineAnswered(c) \/ DeleteAnswered(c) \/ AskFailed(c)

-----------------------------------------------------------------------------
(* Properties. *)

\* /my-listings leaves no listing of the user out: not one that is sold between its
\* two requests, not one whose deletion is asked for and fails. (The page asks for
\* fifty of everybody's listings: beyond that it does.)
NoListingMissing ==
    (MineShown /\ ~board.error /\ Cardinality(Goods) <= MineLimit) =>
        \A g \in Goods : goods[g].mine /\ goods[g].at # "deleted" =>
                           g \in activeListings \cup soldListings

\* The spinner of a list turns only while a request of this page is under way, also
\* when searches overlap and fail.
ListSpinnerAwaited ==
    board.loading => \E c \in asks : c.kind \in {"search", "unsold", "sold"}

=============================================================================

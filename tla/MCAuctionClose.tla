--------------------------- MODULE MCAuctionClose ---------------------------
(* One bid request at a time and two closures, which may be two repeats of *)
(* a call, a call and a timer, or the sweeper and either.                  *)
EXTENDS AuctionClose, TLC

CONSTANTS seller, ann, bob, h1, c1, c2

MCUsers    == {seller, ann, bob}
MCOneBidder == {seller, ann}
MCHandlers == {h1}
MCClosers  == {c1, c2}

\* Neither the bidders nor the closures have roles of their own.
MCSymmetry == Permutations({ann, bob}) \cup Permutations(MCClosers)
=============================================================================

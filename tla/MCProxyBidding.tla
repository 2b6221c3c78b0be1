--------------------------- MODULE MCProxyBidding ---------------------------
(* Two bid requests at a time, on an auction of two bidders. *)
EXTENDS ProxyBidding, TLC

CONSTANTS seller, ann, bob, h1, h2

MCUsers    == {seller, ann, bob}
MCHandlers == {h1, h2}

\* Neither the bidders nor the goroutines have roles of their own.
MCSymmetry == Permutations({ann, bob}) \cup Permutations(MCHandlers)
=============================================================================

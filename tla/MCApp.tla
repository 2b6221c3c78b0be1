--------------------------------- MODULE MCApp ---------------------------------
(* The pages on a small market: a user who reads the mail of one of two        *)
(* accounts, two listings, a picture and a file that is none.                  *)
EXTENDS App

CONSTANTS me, other, g1, g2

MCUsers == {me, other}

=============================================================================

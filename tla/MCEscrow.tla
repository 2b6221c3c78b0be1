------------------------------- MODULE MCEscrow -------------------------------
(* One buyer at a fixed price or a won auction, two requests at a time. *)
EXTENDS Escrow

CONSTANTS ann, h1, h2

MCBuyers   == {ann}
MCHandlers == {h1, h2}
=============================================================================

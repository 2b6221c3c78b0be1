---------------------------- MODULE MCClientSession ----------------------------
(* Two accounts used in turn in one tab, with two reconnect loops. *)
EXTENDS ClientSession

CONSTANTS ann, bob, nobody, conv1, conv2, item

MCUsers == {ann, bob}
=============================================================================

-------------------------- MODULE MCConversationPage --------------------------
(* One tab, two threads, two sockets, so that an old one closes while the new *)
(* one opens; two messages, so that one may find the channel full.            *)
EXTENDS ConversationPage, TLC

CONSTANTS chat1, chat2, sock1, sock2, null

MCConvs   == {chat1, chat2}
MCSockets == {sock1, sock2}

\* Threads and sockets have no roles of their own.
MCSymmetry == Permutations(MCConvs) \cup Permutations(MCSockets)
=============================================================================

-------------------------- MODULE MCConversations --------------------------
(* Conversations: the one constant is a number. *)
EXTENDS Conversations, TLC
=============================================================================

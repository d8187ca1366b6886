----------------------------- MODULE MCSettleUp -----------------------------
(* SettleUp on three members and one program created by member 1. *)
EXTENDS SettleUp

MCMembers == 1 .. 3
MCCreator == (9 :> 1)
MCNoPrograms == [q \in {} |-> 1]
MCWeight  == <<2, 1, 1>>
MCAmounts == {1, 4}
=============================================================================

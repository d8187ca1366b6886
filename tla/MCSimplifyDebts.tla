-------------------------- MODULE MCSimplifyDebts --------------------------
(* SimplifyDebts on a small group. *)
EXTENDS SimplifyDebts

MCPeople == 1 .. 5
=============================================================================

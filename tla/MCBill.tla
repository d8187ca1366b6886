------------------------------- MODULE MCBill -------------------------------
(* Bill for three people, one of them with a family. *)
EXTENDS Bill

MCPeople == {1, 2, 3}
MCWeight == [u \in MCPeople |-> IF u = 2 THEN 2 ELSE 1]
MCItemAmounts == {-2, 1, 5}
=============================================================================

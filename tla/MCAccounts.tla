----------------------------- MODULE MCAccounts -----------------------------
(* Accounts for two members, one of them admin, and one program. *)
EXTENDS Accounts, TLC

CONSTANTS ali, reza

MCSplits   == { (ali :> 1 @@ reza :> 2) }
MCBothWays == MCSplits \cup { (ali :> 3) }
=============================================================================

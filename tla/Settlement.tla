----------------------------- MODULE Settlement -----------------------------
(***************************************************************************)
(* What a settle-up suggestion promises, whatever way it is computed: it   *)
(* is built from transfers, each from somebody who still owes to somebody  *)
(* who is still owed, never for more than either side has left, until      *)
(* nobody owes anything.  simplify_debts is shown to be one way of doing   *)
(* this (module SimplifyDebts).                                            *)
(***************************************************************************)
EXTENDS Integers

CONSTANTS People, MaxAmount

VARIABLE left   \* left[p] > 0: p is still owed; < 0: p still owes

Init == left \in [People -> -MaxAmount .. MaxAmount]

Transfer(f, t, x) ==
    /\ left[f] + x <= 0
    /\ left[t] - x >= 0
    /\ left' = [left EXCEPT ![f] = @ + x, ![t] = @ - x]

Next == \E f, t \in People, x \in 1 .. MaxAmount : Transfer(f, t, x)

Spec == Init /\ [][Next]_left

AllSettled == \A p \in People : left[p] = 0
=============================================================================

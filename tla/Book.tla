-------------------------------- MODULE Book --------------------------------
(***************************************************************************)
(* What the ledger promises about every money record, whatever its table:  *)
(* it is entered once, it counts only after the decision it needs, it is   *)
(* decided at most once, and once refused or withdrawn it never counts     *)
(* again.  Accounts is shown to keep this promise.                         *)
(***************************************************************************)
CONSTANT Records

VARIABLE entry

Entries == {"absent", "waiting", "counted", "refused", "withdrawn"}

Init == entry \in [Records -> {"absent", "counted"}]

Move(r, from, to) == entry[r] = from /\ entry' = [entry EXCEPT ![r] = to]

Submit(r)   == Move(r, "absent", "waiting")    \* needs somebody's approval
Post(r)     == Move(r, "absent", "counted")    \* counts at once
Accept(r)   == Move(r, "waiting", "counted")
Refuse(r)   == Move(r, "waiting", "refused")
Withdraw(r) == \E from \in {"waiting", "counted", "refused"} : Move(r, from, "withdrawn")

\* One record at a time; that its entry changes follows from each disjunct, and
\* tells TLC at once that most steps of an implementation are none of these.
Next == \E r \in Records :
    /\ entry'[r] # entry[r]
    /\ Submit(r) \/ Post(r) \/ Accept(r) \/ Refuse(r) \/ Withdraw(r)

Spec == Init /\ [][Next]_entry

Dead == {"refused", "withdrawn"}

\* A refused or withdrawn record never counts again.
DeadStaysDead == [][\A r \in Records : entry[r] \in Dead => entry'[r] \in Dead]_entry
=============================================================================

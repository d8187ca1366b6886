------------------------------ MODULE SettleUp ------------------------------
(***************************************************************************)
(* The group over time: expenses and program charges enter the ledger, the *)
(* admin asks for the group report, and members carry out the suggested    *)
(* transfers one by one, in any order, each becoming a confirmed payment.  *)
(* `pairwise` is what build_ledger gives at that moment; build_ledger adds *)
(* up independent rows, so adding each row as it is recorded gives the     *)
(* same ledger as rebuilding it from all of them.                          *)
(***************************************************************************)
EXTENDS SplitEngine

CONSTANTS Members,      \* user ids
          Creator,      \* program pool id -> the admin who created it
          Weight,       \* user id -> headcount
          Amounts,      \* amounts a member types in
          MaxExpenses, MaxCharges

Pools == DOMAIN Creator
Ids   == Members \cup Pools

ASSUME IdsAssumption ==
    /\ IsFiniteSet(Ids) /\ Ids \subseteq Nat /\ Members \cap Pools = {}
    /\ \A q \in Pools : Creator[q] \in Members
ASSUME WeightAssumption == Weight \in [Members -> 1 .. 20]
ASSUME AmountsAssumption == Amounts \subseteq Nat \ {0}
ASSUME BoundsAssumption == MaxExpenses \in Nat /\ MaxCharges \in Nat

VARIABLES pairwise,   \* the ledger
          recorded,   \* expenses recorded so far (bounded by MaxExpenses)
          charged,    \* charges confirmed so far (bounded by MaxCharges)
          plan,       \* transfers of the last report not carried out yet
          asked       \* "no": no report is being followed; "yes": one is

vars == <<pairwise, recorded, charged, plan, asked>>

Init == /\ pairwise = EmptyLedger(Ids)
        /\ recorded = 0 /\ charged = 0
        /\ plan = {} /\ asked = "no"

\* An approved expense: the shares are owed to the payer, or to the pool.
RecordExpense(creditor, present, total, mode) ==
    /\ recorded < MaxExpenses
    /\ recorded' = recorded + 1
    /\ pairwise' = AddShares(pairwise, creditor,
                             CalculateShares(total, Restrict(Weight, present), mode))
    /\ plan' = {} /\ asked' = "no"
    /\ UNCHANGED charged

\* A confirmed charge of a program's mother card.
ChargePool(u, pool, total) ==
    /\ charged < MaxCharges
    /\ charged' = charged + 1
    /\ pairwise' = AddPayment(pairwise, u, pool, total)
    /\ plan' = {} /\ asked' = "no"
    /\ UNCHANGED recorded

\* The admin reads the group report; asking again replaces the suggestion.
Report ==
    /\ plan' = ToSet(SettlementPlan(pairwise, Creator))
    /\ asked' = "yes"
    /\ UNCHANGED <<pairwise, recorded, charged>>

\* A suggested transfer is made and confirmed by its receiver.
CarryOut(t) ==
    /\ t \in plan
    /\ pairwise' = AddPayment(pairwise, t.from, t.to, t.amt)
    /\ plan' = plan \ {t}
    /\ UNCHANGED <<recorded, charged, asked>>

Next ==
    \/ \E c \in Ids, present \in (SUBSET Members) \ {{}}, total \in Amounts,
          mode \in {"equal", "weighted"} : RecordExpense(c, present, total, mode)
    \/ \E u \in Members, pool \in Pools, total \in Amounts : ChargePool(u, pool, total)
    \/ Report
    \/ \E t \in plan : CarryOut(t)

Spec == Init /\ [][Next]_vars

-----------------------------------------------------------------------------
TypeOK ==
    /\ pairwise \in [Ids \X Ids -> Int]
    /\ recorded \in 0 .. MaxExpenses /\ charged \in 0 .. MaxCharges
    /\ plan \subseteq [from : Members, to : Members, amt : Nat \ {0}]
    /\ asked \in {"no", "yes"}

\* What u will have got less what u will have paid, by the transfers still to be made.
ToCome(u) == SumFunction([t \in plan |-> IF t.to = u THEN t.amt ELSE 0])
             - SumFunction([t \in plan |-> IF t.from = u THEN t.amt ELSE 0])

\* Carrying out the suggested transfers in any order leaves every merged
\* position (a person plus the programs they created) at exactly 0, and until
\* then each position is what the transfers still to be made add up to.
PlanClearsPositions ==
    asked = "yes" => \A u \in Members : MergedPositions(pairwise, Creator)[u] = ToCome(u)

\* What the lines of v's own balance view add up to.
Shown(v) ==
    LET own == { t \in AllPairs(pairwise) : t[1] = v \/ t[2] = v }
    IN  SumFunction([t \in own |-> IF t[2] = v THEN t[3] ELSE -t[3]])

\* The two views of one ledger agree: what a member's own balance view adds up
\* to, with the pools they created, is the position the group report settles.
ViewsAgree ==
    \A u \in Members :
        MergedPositions(pairwise, Creator)[u]
            = Shown(u) + SumFunction([q \in { r \in Pools : Creator[r] = u } |-> Shown(q)])

-----------------------------------------------------------------------------
(* What the documents say and the code does not do *)

\* README.md:149-150 and split_engine.py:135-143: carrying out the plan clears
\* all of the group's debts.  Read on the pairs every balance view shows.
PlanClearsDebts == asked = "yes" /\ plan = {} => AllPairs(pairwise) = {}

\* balances.py:87-88: personal_balance lists every non-zero balance that
\* concerns the user.  Read as: a debt one side's view shows is on the other's.
DebtsShownToBothSides ==
    \A u \in Members :
        \A line \in { l \in PersonalBalance(pairwise, Creator, u) : l.other # u } :
            \E mirror \in PersonalBalance(pairwise, Creator, line.other) :
                /\ mirror.amount = line.amount
                /\ mirror.iOwe = ~line.iOwe
                /\ mirror.other = u
=============================================================================

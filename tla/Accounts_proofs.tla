--------------------------- MODULE Accounts_proofs ---------------------------
(***************************************************************************)
(* For every group, every set of programs and any number of records: the   *)
(* rows keep their types, name only people who had been admitted, and each *)
(* record lives as Book says.                                              *)
(***************************************************************************)
EXTENDS Accounts, Roles_proofs, SplitEngine_proofs

Admitted(u) == status[u] \in {"active", "removed"}

\* Where there is no row there is nothing deleted, and no participants.
NoRowNoData ==
    /\ \A e \in ExpenseIds : ~ExpenseExists(e) => ~expenses[e].deleted
    /\ \A g \in Programs : programs[g].status = "none" => programs[g].members = {}

ProgramsNameMembers == \A g \in Programs : \A u \in programs[g].members : Admitted(u)

\* What a confirmation will write without looking: a draft, once made, stays
\* as good as it was, since nobody who was admitted ever has to be admitted
\* again and no program ever loses a participant.
DraftNamesMembers(u) ==
    LET d == draft[u]
    IN  /\ d # NoDraft => Admitted(u)
        /\ d.kind = "expense" => Admitted(d.payer) /\ \A v \in DOMAIN d.shares : Admitted(v)
        /\ d.kind = "payment" => Admitted(d.to) /\ d.to # u
        /\ d.kind = "charge" => u \in programs[d.program].members
        /\ d.kind = "program" => \A v \in d.members : Admitted(v)

DraftsNameMembers == \A u \in Users : DraftNamesMembers(u)

ChargesNamePrograms ==
    \A c \in ChargeIds : ChargeExists(c) => charges[c].program \in Programs

AccountsInv == /\ TypeOK /\ NoRowNoData /\ ChargesNamePrograms
               /\ ProgramsNameMembers /\ DraftsNameMembers /\ RowsNameMembers

-----------------------------------------------------------------------------
(* Types *)

LEMMA DraftKinds ==
  ASSUME NEW d \in Drafts
  PROVE  /\ d.kind = "expense" => d \in ExpenseDraft
         /\ d.kind = "payment" => d \in PaymentDraft
         /\ d.kind = "charge" => d \in ChargeDraft
         /\ d.kind = "program" => d \in ProgramDraft
BY DEF Drafts, ExpenseDraft, PaymentDraft, ChargeDraft, ProgramDraft, Wizard, Menu, Planning, NoDraft

LEMMA RolesTypeStep == RolesTypeOK /\ RolesNext => RolesTypeOK'
BY DEF RolesTypeOK, RolesNext, Statuses, Join, Bootstrap, Approve, Reject, Promote, Demote, RemoveMember

LEMMA NoRowTypes ==
  /\ NoExpense \in ExpenseRow /\ NoPayment \in PaymentRow
  /\ NoCharge \in ChargeRow /\ NoProgram \in ProgramRow
<1>1. (CHOOSE s \in Splits : TRUE) \in Splits
  BY SplitsAssumption
<1>2. (CHOOSE x \in Amounts : TRUE) \in Amounts
  BY AmountsAssumption
<1>3. NoExpense \in ExpenseRow
  BY <1>1 DEF NoExpense, ExpenseRow, Totals
<1> QED
  BY <1>2, <1>3 DEF NoPayment, NoCharge, NoProgram, PaymentRow, ChargeRow, ProgramRow

LEMMA TypeInit == Init => TypeOK
<1> SUFFICES ASSUME Init PROVE TypeOK
  OBVIOUS
<1>1. RolesTypeOK
  BY DEF Init, RolesTypeOK, Statuses
<1>2. expenses \in [ExpenseIds -> ExpenseRow]
  <2>1. PICK legacy \in LegacyRow \cup {NoExpense} :
            expenses = [e \in ExpenseIds |-> IF e = 1 THEN legacy ELSE NoExpense]
    BY DEF Init
  <2>2. legacy \in ExpenseRow
    BY NoRowTypes, FoundersAssumption DEF LegacyRow, ExpenseRow
  <2> QED
    BY <2>1, <2>2, NoRowTypes
<1>3. /\ payments \in [PaymentIds -> PaymentRow]
      /\ charges \in [ChargeIds -> ChargeRow]
      /\ programs \in [Programs -> ProgramRow]
  BY NoRowTypes DEF Init
<1>4. /\ draft \in [Users -> Drafts]
      /\ expenseButtons \in [ExpenseIds -> SUBSET Users]
      /\ paymentButtons \subseteq PaymentIds
      /\ chargeButtons \in [ChargeIds -> SUBSET Users]
  BY DEF Init, Drafts
<1> QED
  BY <1>1, <1>2, <1>3, <1>4 DEF TypeOK

LEMMA TypeStep == TypeOK /\ [Next]_vars => TypeOK'
<1> SUFFICES ASSUME TypeOK, [Next]_vars PROVE TypeOK'
  OBVIOUS
<1> USE DEF TypeOK
<1>1. ASSUME NEW u \in Users, Drafting(u) PROVE TypeOK'
  <2>1. ASSUME NEW d \in Drafts, Preview(u, d) PROVE TypeOK'
    BY <2>1 DEF Preview, roleVars, tables, buttons, RolesTypeOK
  <2>2. ASSUME NEW payer \in ActiveUsers, ChangePayer(u, payer)
        PROVE  [draft[u] EXCEPT !.payer = payer] \in Drafts
    BY <2>2, DraftKinds DEF ChangePayer, Drafts, ExpenseDraft, ActiveUsers
  <2>3. ASSUME NEW payer \in ActiveUsers, ChangePayer(u, payer) PROVE TypeOK'
    BY <2>1, <2>2, <2>3 DEF ChangePayer
  <2>4. /\ Wizard \in Drafts /\ Menu \in Drafts /\ Planning \in Drafts /\ NoDraft \in Drafts
        /\ ExpenseDraft \subseteq Drafts /\ PaymentDraft \subseteq Drafts
        /\ ChargeDraft \subseteq Drafts /\ ProgramDraft \subseteq Drafts
    BY DEF Drafts
  <2>5. CASE \/ OpenConversation(u, Wizard) \/ OpenConversation(u, Menu)
             \/ PlanProgram(u) \/ DropDraft(u)
    BY <2>1, <2>4, <2>5 DEF OpenConversation, PlanProgram, DropDraft
  <2>6. CASE \/ \E d \in ExpenseDraft : DraftExpense(u, d)
             \/ \E d \in PaymentDraft : DraftPayment(u, d)
             \/ \E d \in ChargeDraft : DraftCharge(u, d)
             \/ \E d \in ProgramDraft : DraftProgram(u, d)
    BY <2>1, <2>4, <2>6 DEF DraftExpense, DraftPayment, DraftCharge, DraftProgram
  <2> QED
    BY <1>1, <2>3, <2>5, <2>6 DEF Drafting
<1>2. ASSUME NEW u \in Users, Confirming(u) PROVE TypeOK'
  <2> DEFINE d == draft[u]
  <2>1. NoDraft \in Drafts /\ d \in Drafts
    BY DEF Drafts
  <2>2. ASSUME NEW ok \in BOOLEAN, AfterAnswer(u, ok) PROVE draft' \in [Users -> Drafts]
    BY <2>1, <2>2 DEF AfterAnswer
  <2>3. ASSUME NEW ok \in BOOLEAN, NEW e \in ExpenseIds, NEW reached \in SUBSET ActiveAdmins,
               ConfirmExpense(u, e, reached, ok)
        PROVE  TypeOK'
    <3>1. d \in ExpenseDraft
      BY <2>1, <2>3, DraftKinds DEF ConfirmExpense
    <3>2. expenses' \in [ExpenseIds -> ExpenseRow]
      BY <2>3, <3>1 DEF ConfirmExpense, ExpenseRow, ExpenseDraft
    <3>3. expenseButtons' \in [ExpenseIds -> SUBSET Users]
      BY <2>3 DEF ConfirmExpense, ActiveAdmins, ActiveUsers
    <3> QED
      BY <2>2, <2>3, <3>2, <3>3 DEF ConfirmExpense, roleVars, RolesTypeOK
  <2>4. ASSUME NEW ok \in BOOLEAN, NEW p \in PaymentIds, NEW reached \in BOOLEAN,
               ConfirmPayment(u, p, reached, ok)
        PROVE  TypeOK'
    <3>1. d \in PaymentDraft
      BY <2>1, <2>4, DraftKinds DEF ConfirmPayment
    <3>2. payments' \in [PaymentIds -> PaymentRow]
      BY <2>4, <3>1 DEF ConfirmPayment, PaymentRow, PaymentDraft
    <3>3. paymentButtons' \subseteq PaymentIds
      BY <2>4 DEF ConfirmPayment
    <3> QED
      BY <2>2, <2>4, <3>2, <3>3 DEF ConfirmPayment, roleVars, RolesTypeOK
  <2>5. ASSUME NEW ok \in BOOLEAN, NEW c \in ChargeIds, NEW reached \in SUBSET ActiveAdmins,
               ConfirmCharge(u, c, reached, ok)
        PROVE  TypeOK'
    <3>1. d \in ChargeDraft
      BY <2>1, <2>5, DraftKinds DEF ConfirmCharge
    <3>2. charges' \in [ChargeIds -> ChargeRow]
      BY <2>5, <3>1 DEF ConfirmCharge, ChargeRow, ChargeDraft
    <3>3. chargeButtons' \in [ChargeIds -> SUBSET Users]
      BY <2>5 DEF ConfirmCharge, ActiveAdmins, ActiveUsers
    <3> QED
      BY <2>2, <2>5, <3>2, <3>3 DEF ConfirmCharge, roleVars, RolesTypeOK
  <2> QED
    BY <1>2, <2>3, <2>4, <2>5 DEF Confirming
<1>3. ASSUME NEW u \in Users, Deciding(u) PROVE TypeOK'
  <2>1. ASSUME NEW e \in ExpenseIds, NEW verdict \in {"approved", "rejected"},
               DecideExpense(u, e, verdict)
        PROVE  TypeOK'
    <3>1. expenses' \in [ExpenseIds -> ExpenseRow]
      BY <2>1 DEF DecideExpense, ExpenseRow
    <3> QED
      BY <2>1, <3>1 DEF DecideExpense, roleVars, buttons, RolesTypeOK
  <2>2. ASSUME NEW p \in PaymentIds, NEW verdict \in {"confirmed", "rejected"},
               DecidePayment(u, p, verdict)
        PROVE  TypeOK'
    BY <2>2 DEF DecidePayment, PaymentRow, roleVars, buttons, RolesTypeOK
  <2>3. ASSUME NEW c \in ChargeIds, NEW verdict \in {"confirmed", "rejected"},
               DecideCharge(u, c, verdict)
        PROVE  TypeOK'
    BY <2>3 DEF DecideCharge, ChargeRow, roleVars, buttons, RolesTypeOK
  <2> QED
    BY <1>3, <2>1, <2>2, <2>3 DEF Deciding
<1>4. ASSUME NEW u \in Users, Managing(u) PROVE TypeOK'
  <2>1. ASSUME NEW e \in ExpenseIds, DeleteExpense(u, e) PROVE TypeOK'
    <3>1. expenses' \in [ExpenseIds -> ExpenseRow]
      <4>1. [expenses[e] EXCEPT !.deleted = TRUE] \in ExpenseRow
        BY DEF ExpenseRow
      <4> QED
        BY <2>1, <4>1 DEF DeleteExpense
    <3> QED
      BY <2>1, <3>1 DEF DeleteExpense, roleVars, buttons, RolesTypeOK
  <2>2. ASSUME NEW g \in Programs, CloseProgram(u, g) PROVE TypeOK'
    BY <2>2 DEF CloseProgram, ProgramRow, roleVars, buttons, RolesTypeOK
  <2>3. ASSUME NEW g \in Programs, NEW ok \in BOOLEAN, CreateProgram(u, g, ok) PROVE TypeOK'
    <3>1. draft[u] \in ProgramDraft
      BY <2>3, DraftKinds DEF CreateProgram
    <3>2. programs' \in [Programs -> ProgramRow]
      BY <2>3, <3>1 DEF CreateProgram, ProgramRow, ProgramDraft
    <3>3. draft' \in [Users -> Drafts]
      BY <2>3 DEF CreateProgram, AfterAnswer, Drafts
    <3> QED
      BY <2>3, <3>2, <3>3 DEF CreateProgram, roleVars, buttons, RolesTypeOK
  <2> QED
    BY <1>4, <2>1, <2>2, <2>3 DEF Managing
<1>5. CASE ChangeRoles
  BY <1>5, RolesTypeStep DEF ChangeRoles, tables, buttons
<1>6. CASE Restart
  BY <1>6 DEF Restart, roleVars, tables, buttons, RolesTypeOK, Drafts
<1>7. CASE UNCHANGED vars
  BY <1>7 DEF vars, tables, buttons, RolesTypeOK
<1> QED
  BY <1>1, <1>2, <1>3, <1>4, <1>5, <1>6, <1>7 DEF Next

-----------------------------------------------------------------------------
(* What one step can do to each table, whoever takes it *)

LEMMA DraftingKeepsTables ==
  ASSUME NEW u \in Users, Drafting(u) PROVE UNCHANGED <<roleVars, tables, buttons>>
BY DEF Drafting, OpenConversation, DraftExpense, ChangePayer, DraftPayment, DraftCharge,
       PlanProgram, DraftProgram, DropDraft, Preview

LEMMA TableSteps ==
  ASSUME [Next]_vars
  PROVE  \/ UNCHANGED <<expenses, payments, charges, programs>>
         \/ \E u \in Users : Confirming(u) \/ Deciding(u) \/ Managing(u)
<1>1. CASE ChangeRoles \/ Restart \/ UNCHANGED vars
  BY <1>1 DEF ChangeRoles, Restart, vars, tables
<1>2. ASSUME NEW u \in Users, Drafting(u)
      PROVE  UNCHANGED <<expenses, payments, charges, programs>>
  BY <1>2, DraftingKeepsTables DEF tables
<1> QED
  BY <1>1, <1>2 DEF Next

\* Nobody who was admitted ever stops having been admitted.
LEMMA AdmittedStays ==
  ASSUME TypeOK, [Next]_vars, NEW u \in Users, Admitted(u) PROVE Admitted(u)'
<1>1. CASE ChangeRoles
  BY <1>1, DecidedStays DEF ChangeRoles, TypeOK, Admitted
<1>2. CASE UNCHANGED roleVars
  BY <1>2 DEF roleVars, Admitted
<1>3. ASSUME NEW v \in Users, Confirming(v) \/ Deciding(v) \/ Managing(v)
      PROVE  UNCHANGED roleVars
  BY <1>3 DEF Confirming, ConfirmExpense, ConfirmPayment, ConfirmCharge,
              Deciding, DecideExpense, DecidePayment, DecideCharge,
              Managing, DeleteExpense, CloseProgram, CreateProgram
<1> QED
  BY <1>1, <1>2, <1>3, DraftingKeepsTables DEF Next, Restart, vars, roleVars

\* A program's participants are those of the draft it was created from.
ProgramKept(g) == /\ programs'[g].members = programs[g].members
                  /\ programs'[g].status = "none" <=> programs[g].status = "none"
ProgramCreated(u, g) == /\ draft[u].kind = "program" /\ programs[g].status = "none"
                        /\ programs'[g].members = draft[u].members
                        /\ programs'[g].status = "active"

LEMMA ProgramStep ==
  ASSUME TypeOK, [Next]_vars, NEW g \in Programs
  PROVE  ProgramKept(g) \/ \E u \in Users : ProgramCreated(u, g)
<1>1. ASSUME UNCHANGED programs[g] PROVE ProgramKept(g)
  BY <1>1 DEF ProgramKept
<1>2. ASSUME NEW u \in Users, Confirming(u) \/ Deciding(u) PROVE UNCHANGED programs
  BY <1>2 DEF Confirming, ConfirmExpense, ConfirmPayment, ConfirmCharge,
              Deciding, DecideExpense, DecidePayment, DecideCharge
<1>3. ASSUME NEW u \in Users, NEW h \in Programs, CloseProgram(u, h) PROVE ProgramKept(g)
  BY <1>3 DEF CloseProgram, ProgramKept, TypeOK, ProgramRow
<1>4. ASSUME NEW u \in Users, NEW h \in Programs, NEW ok \in BOOLEAN, CreateProgram(u, h, ok)
      PROVE  UNCHANGED programs[g] \/ ProgramCreated(u, g)
  BY <1>4 DEF CreateProgram, ProgramCreated, TypeOK, ProgramRow
<1>5. ASSUME NEW u \in Users, Managing(u)
      PROVE  ProgramKept(g) \/ ProgramCreated(u, g)
  BY <1>1, <1>3, <1>4, <1>5 DEF Managing, DeleteExpense
<1> QED
  BY <1>1, <1>2, <1>5, TableSteps

\* An expense is entered from a draft; from then on only its approval changes,
\* while it is pending, and it can be marked as deleted.
ExpenseEntered(u, e) ==
    /\ draft[u].kind = "expense" /\ ~ExpenseExists(e)
    /\ expenses'[e] = [approval |-> IF draft[u].program # Nobody THEN "pending" ELSE "approved",
                       payer |-> draft[u].payer, creator |-> u, program |-> draft[u].program,
                       amount |-> draft[u].amount, shares |-> draft[u].shares,
                       deleted |-> FALSE]
ExpenseDecided(e) ==
    /\ expenses[e].approval = "pending"
    /\ \E verdict \in {"approved", "rejected"} :
           expenses'[e] = [expenses[e] EXCEPT !.approval = verdict]
ExpenseDeleted(e) ==
    ExpenseExists(e) /\ expenses'[e] = [expenses[e] EXCEPT !.deleted = TRUE]

LEMMA ExpenseStep ==
  ASSUME TypeOK, [Next]_vars, NEW e \in ExpenseIds
  PROVE  \/ UNCHANGED expenses[e] \/ ExpenseDecided(e) \/ ExpenseDeleted(e)
         \/ \E u \in Users : ExpenseEntered(u, e)
<1>1. ASSUME NEW u \in Users, NEW ok \in BOOLEAN, NEW x \in ExpenseIds,
             NEW reached \in SUBSET ActiveAdmins, ConfirmExpense(u, x, reached, ok)
      PROVE  UNCHANGED expenses[e] \/ ExpenseEntered(u, e)
  BY <1>1 DEF ConfirmExpense, Fresh, ExpenseRows, ExpenseEntered, TypeOK
<1>2. ASSUME NEW u \in Users, NEW x \in ExpenseIds, NEW verdict \in {"approved", "rejected"},
             DecideExpense(u, x, verdict)
      PROVE  UNCHANGED expenses[e] \/ ExpenseDecided(e)
  BY <1>2 DEF DecideExpense, ExpenseDecided, TypeOK
<1>3. ASSUME NEW u \in Users, NEW x \in ExpenseIds, DeleteExpense(u, x)
      PROVE  UNCHANGED expenses[e] \/ ExpenseDeleted(e)
  BY <1>3 DEF DeleteExpense, ExpenseDeleted, TypeOK
<1>4. ASSUME NEW u \in Users, Confirming(u)
      PROVE  UNCHANGED expenses[e] \/ ExpenseEntered(u, e)
  BY <1>1, <1>4 DEF Confirming, ConfirmPayment, ConfirmCharge
<1>5. ASSUME NEW u \in Users, Deciding(u) PROVE UNCHANGED expenses[e] \/ ExpenseDecided(e)
  BY <1>2, <1>5 DEF Deciding, DecidePayment, DecideCharge
<1>6. ASSUME NEW u \in Users, Managing(u) PROVE UNCHANGED expenses[e] \/ ExpenseDeleted(e)
  BY <1>3, <1>6 DEF Managing, CloseProgram, CreateProgram
<1> QED
  BY <1>4, <1>5, <1>6, TableSteps

\* A payment is entered from a draft and decided while it is pending.
PaymentEntered(u, p) ==
    /\ draft[u].kind = "payment" /\ ~PaymentExists(p)
    /\ payments'[p] = [status |-> "pending", from |-> u,
                       to |-> draft[u].to, amount |-> draft[u].amount]
PaymentDecided(p) ==
    /\ payments[p].status = "pending"
    /\ \E verdict \in {"confirmed", "rejected"} :
           payments'[p] = [payments[p] EXCEPT !.status = verdict]

LEMMA PaymentStep ==
  ASSUME TypeOK, [Next]_vars, NEW p \in PaymentIds
  PROVE  UNCHANGED payments[p] \/ PaymentDecided(p) \/ \E u \in Users : PaymentEntered(u, p)
<1>1. ASSUME NEW u \in Users, NEW ok \in BOOLEAN, NEW x \in PaymentIds,
             NEW reached \in BOOLEAN, ConfirmPayment(u, x, reached, ok)
      PROVE  UNCHANGED payments[p] \/ PaymentEntered(u, p)
  BY <1>1 DEF ConfirmPayment, Fresh, PaymentRows, PaymentEntered, TypeOK
<1>2. ASSUME NEW u \in Users, NEW x \in PaymentIds, NEW verdict \in {"confirmed", "rejected"},
             DecidePayment(u, x, verdict)
      PROVE  UNCHANGED payments[p] \/ PaymentDecided(p)
  BY <1>2 DEF DecidePayment, PaymentDecided, TypeOK
<1>3. ASSUME NEW u \in Users, Confirming(u)
      PROVE  UNCHANGED payments[p] \/ PaymentEntered(u, p)
  BY <1>1, <1>3 DEF Confirming, ConfirmExpense, ConfirmCharge
<1>4. ASSUME NEW u \in Users, Deciding(u) PROVE UNCHANGED payments[p] \/ PaymentDecided(p)
  BY <1>2, <1>4 DEF Deciding, DecideExpense, DecideCharge
<1>5. ASSUME NEW u \in Users, Managing(u) PROVE UNCHANGED payments[p]
  BY <1>5 DEF Managing, DeleteExpense, CloseProgram, CreateProgram
<1> QED
  BY <1>3, <1>4, <1>5, TableSteps

\* So is a charge.
ChargeEntered(u, c) ==
    /\ draft[u].kind = "charge" /\ ~ChargeExists(c)
    /\ charges'[c] = [status |-> "pending", user |-> u,
                      program |-> draft[u].program, amount |-> draft[u].amount]
ChargeDecided(c) ==
    /\ charges[c].status = "pending"
    /\ \E verdict \in {"confirmed", "rejected"} :
           charges'[c] = [charges[c] EXCEPT !.status = verdict]

LEMMA ChargeStep ==
  ASSUME TypeOK, [Next]_vars, NEW c \in ChargeIds
  PROVE  UNCHANGED charges[c] \/ ChargeDecided(c) \/ \E u \in Users : ChargeEntered(u, c)
<1>1. ASSUME NEW u \in Users, NEW ok \in BOOLEAN, NEW x \in ChargeIds,
             NEW reached \in SUBSET ActiveAdmins, ConfirmCharge(u, x, reached, ok)
      PROVE  UNCHANGED charges[c] \/ ChargeEntered(u, c)
  BY <1>1 DEF ConfirmCharge, Fresh, ChargeRows, ChargeEntered, TypeOK
<1>2. ASSUME NEW u \in Users, NEW x \in ChargeIds, NEW verdict \in {"confirmed", "rejected"},
             DecideCharge(u, x, verdict)
      PROVE  UNCHANGED charges[c] \/ ChargeDecided(c)
  BY <1>2 DEF DecideCharge, ChargeDecided, TypeOK
<1>3. ASSUME NEW u \in Users, Confirming(u)
      PROVE  UNCHANGED charges[c] \/ ChargeEntered(u, c)
  BY <1>1, <1>3 DEF Confirming, ConfirmExpense, ConfirmPayment
<1>4. ASSUME NEW u \in Users, Deciding(u) PROVE UNCHANGED charges[c] \/ ChargeDecided(c)
  BY <1>2, <1>4 DEF Deciding, DecideExpense, DecidePayment
<1>5. ASSUME NEW u \in Users, Managing(u) PROVE UNCHANGED charges[c]
  BY <1>5 DEF Managing, DeleteExpense, CloseProgram, CreateProgram
<1> QED
  BY <1>3, <1>4, <1>5, TableSteps

-----------------------------------------------------------------------------
(* The invariant is inductive *)

\* A conversation goes on, ends, or comes by a draft that is as good as it
\* has to be; whatever makes one good is not touched by that step.
DraftRenewed(u) == UNCHANGED <<roleVars, tables>> /\ DraftNamesMembers(u)'

LEMMA DraftStep ==
  ASSUME AccountsInv, [Next]_vars, NEW u \in Users
  PROVE  draft'[u] = draft[u] \/ draft'[u] = NoDraft \/ DraftRenewed(u)
<1> USE DEF AccountsInv
<1>1. draft \in [Users -> Drafts] /\ status \in [Users -> Statuses]
  BY DEF TypeOK, RolesTypeOK
<1>2. ASSUME NEW v \in Users, NEW d, Preview(v, d), v # u PROVE draft'[u] = draft[u]
  BY <1>1, <1>2 DEF Preview
<1>3. ASSUME NEW d, Preview(u, d)
      PROVE  /\ draft'[u] = d /\ UNCHANGED <<roleVars, tables>>
             /\ UNCHANGED status /\ UNCHANGED programs
  BY <1>1, <1>3 DEF Preview, roleVars, tables
<1>4. \A v \in ActiveUsers : v \in Users /\ Admitted(v)
  BY DEF ActiveUsers, Admitted
<1>5. draft[u] # NoDraft => Admitted(u)
  BY DEF DraftsNameMembers, DraftNamesMembers
<1>6. \A g \in Programs : \A v \in programs[g].members : Admitted(v)
  BY DEF ProgramsNameMembers
<1>7. ASSUME NEW c \in {Wizard, Menu}, OpenConversation(u, c) PROVE DraftRenewed(u)
  BY <1>3, <1>4, <1>7 DEF OpenConversation, MayStart, DraftRenewed, DraftNamesMembers, Admitted, Wizard, Menu
<1>8. ASSUME NEW d \in ExpenseDraft, DraftExpense(u, d) PROVE DraftRenewed(u)
  <2>1. Admitted(u)
    BY <1>5, <1>8 DEF DraftExpense, Wizard, NoDraft
  <2>2. Admitted(d.payer) /\ d.kind = "expense"
    BY <1>4, <1>8, <2>1 DEF DraftExpense, ExpenseDraft
  <2>3. \A v \in DOMAIN d.shares : Admitted(v)
    BY <1>4, <1>6, <1>8 DEF DraftExpense, Named, Candidates, ProgramsOf
  <2>4. draft'[u] = d /\ UNCHANGED <<roleVars, tables>> /\ UNCHANGED status
    BY <1>3, <1>8 DEF DraftExpense
  <2> QED
    BY <2>1, <2>2, <2>3, <2>4 DEF DraftRenewed, DraftNamesMembers, Admitted
<1>9. ASSUME NEW payer \in ActiveUsers, ChangePayer(u, payer) PROVE DraftRenewed(u)
  <2>1. draft[u] \in ExpenseDraft
    BY <1>1, <1>9, DraftKinds DEF ChangePayer
  <2>2. Admitted(u) /\ \A v \in DOMAIN draft[u].shares : Admitted(v)
    BY <1>9 , <2>1 DEF ChangePayer, DraftsNameMembers, DraftNamesMembers, ExpenseDraft, NoDraft
  <2>3. draft'[u] = [draft[u] EXCEPT !.payer = payer] /\ UNCHANGED <<roleVars, tables>> /\ UNCHANGED status
    BY <1>3, <1>9 DEF ChangePayer
  <2>4. /\ draft'[u].kind = "expense" /\ draft'[u].payer = payer
        /\ draft'[u].shares = draft[u].shares
    BY <2>1, <2>3 DEF ExpenseDraft
  <2> QED
    BY <1>4, <2>2, <2>3, <2>4 DEF DraftRenewed, DraftNamesMembers, Admitted
<1>10. ASSUME NEW d \in PaymentDraft, DraftPayment(u, d) PROVE DraftRenewed(u)
  <2>1. draft'[u] = d /\ UNCHANGED <<roleVars, tables>> /\ UNCHANGED status
    BY <1>3, <1>10 DEF DraftPayment
  <2>2. Admitted(u) /\ Admitted(d.to) /\ d.to # u /\ d.kind = "payment"
    BY <1>4, <1>10 DEF DraftPayment, MayStart, PaymentDraft
  <2> QED
    BY <2>1, <2>2 DEF DraftRenewed, DraftNamesMembers, Admitted
<1>11. ASSUME NEW d \in ChargeDraft, DraftCharge(u, d) PROVE DraftRenewed(u)
  <2>1. draft'[u] = d /\ UNCHANGED <<roleVars, tables>> /\ UNCHANGED status /\ UNCHANGED programs
    BY <1>3, <1>11 DEF DraftCharge
  <2>2. Admitted(u) /\ u \in programs[d.program].members /\ d.kind = "charge"
    BY <1>4, <1>11 DEF DraftCharge, MayStart, Targets, ProgramsOf, ChargeDraft
  <2> QED
    BY <2>1, <2>2 DEF DraftRenewed, DraftNamesMembers, Admitted
<1>12. ASSUME PlanProgram(u) PROVE DraftRenewed(u)
  <2>1. Admitted(u)
    BY <1>5, <1>12 DEF PlanProgram, Menu, NoDraft
  <2> QED
    BY <1>3, <1>12, <2>1 DEF PlanProgram, DraftRenewed, DraftNamesMembers, Admitted, Planning
<1>13. ASSUME NEW d \in ProgramDraft, DraftProgram(u, d) PROVE DraftRenewed(u)
  <2>1. draft'[u] = d /\ UNCHANGED <<roleVars, tables>> /\ UNCHANGED status
    BY <1>3, <1>13 DEF DraftProgram
  <2>2. Admitted(u) /\ d.kind = "program" /\ \A v \in d.members : Admitted(v)
    BY <1>4, <1>5, <1>13 DEF DraftProgram, Planning, NoDraft, ProgramDraft
  <2> QED
    BY <2>1, <2>2 DEF DraftRenewed, DraftNamesMembers, Admitted
<1>14. ASSUME DropDraft(u) PROVE draft'[u] = NoDraft
  BY <1>3, <1>14 DEF DropDraft
<1>15. ASSUME Drafting(u) PROVE draft'[u] = NoDraft \/ DraftRenewed(u)
  BY <1>7, <1>8, <1>9, <1>10, <1>11, <1>12, <1>13, <1>14, <1>15 DEF Drafting
<1>16. ASSUME NEW v \in Users, v # u, Drafting(v) PROVE draft'[u] = draft[u]
  BY <1>2, <1>16 DEF Drafting, OpenConversation, DraftExpense, ChangePayer, DraftPayment,
                     DraftCharge, PlanProgram, DraftProgram, DropDraft
<1>17. ASSUME NEW v \in Users, Confirming(v) \/ Deciding(v) \/ Managing(v)
       PROVE  draft'[u] = draft[u] \/ draft'[u] = NoDraft
  BY <1>1, <1>17 DEF Confirming, ConfirmExpense, ConfirmPayment, ConfirmCharge, AfterAnswer,
                     Deciding, DecideExpense, DecidePayment, DecideCharge,
                     Managing, DeleteExpense, CloseProgram, CreateProgram
<1>18. CASE ChangeRoles \/ Restart \/ UNCHANGED vars
  BY <1>18 DEF ChangeRoles, Restart, vars
<1> QED
  BY <1>15, <1>16, <1>17, <1>18 DEF Next

LEMMA AccountsInvInit == Init => AccountsInv
<1> SUFFICES ASSUME Init PROVE AccountsInv
  OBVIOUS
<1>1. TypeOK
  BY TypeInit
<1>0. \A e \in ExpenseIds : expenses[e] = NoExpense \/ expenses[e] \in LegacyRow
  BY DEF Init
<1>2. NoRowNoData
  <2>1. ~NoExpense.deleted /\ \A row \in LegacyRow : ~row.deleted
    BY DEF NoExpense, LegacyRow
  <2>2. \A g \in Programs : programs[g].members = {}
    BY DEF Init, NoProgram
  <2> QED
    BY <1>0, <2>1, <2>2 DEF NoRowNoData
<1>3. ProgramsNameMembers
  BY DEF Init, ProgramsNameMembers, NoProgram
<1>4. DraftsNameMembers
  BY DEF Init, DraftsNameMembers, DraftNamesMembers, NoDraft
<1>5. RowsNameMembers
  <2>0. \A u \in Founders : status[u] = "active" /\ u \in Users
    BY FoundersAssumption DEF Init
  <2>1. NoExpense.approval = "none"
    BY DEF NoExpense
  <2>2. ASSUME NEW e \in ExpenseIds, ExpenseExists(e)
        PROVE  DOMAIN expenses[e].shares \cup {expenses[e].payer, expenses[e].creator} \subseteq Founders
    <3>1. expenses[e] \in LegacyRow
      BY <1>0, <2>1, <2>2 DEF ExpenseExists
    <3> QED
      BY <3>1 DEF LegacyRow
  <2>3. /\ \A p \in PaymentIds : ~PaymentExists(p)
        /\ \A c \in ChargeIds : ~ChargeExists(c)
    BY DEF Init, PaymentExists, ChargeExists, NoPayment, NoCharge
  <2> QED
    BY <2>0, <2>2, <2>3 DEF RowsNameMembers, ExpenseRows, PaymentRows, ChargeRows
<1>6. ChargesNamePrograms
  BY DEF Init, ChargesNamePrograms, ChargeExists, NoCharge
<1> QED
  BY <1>1, <1>2, <1>3, <1>4, <1>5, <1>6 DEF AccountsInv

LEMMA NoRowStep == AccountsInv /\ [Next]_vars => NoRowNoData'
<1> SUFFICES ASSUME AccountsInv, [Next]_vars PROVE NoRowNoData'
  OBVIOUS
<1> USE DEF AccountsInv
<1>1. ASSUME NEW e \in ExpenseIds PROVE (~ExpenseExists(e) => ~expenses[e].deleted)'
  <2>1. expenses[e] \in ExpenseRow
    BY DEF TypeOK
  <2> QED
    <3>1. CASE UNCHANGED expenses[e]
      BY <3>1 DEF NoRowNoData, ExpenseExists
    <3>2. CASE ExpenseDecided(e)
      <4>1. PICK verdict \in {"approved", "rejected"} :
                expenses'[e] = [expenses[e] EXCEPT !.approval = verdict]
        BY <3>2 DEF ExpenseDecided
      <4>2. expenses'[e].approval = verdict
        BY <2>1, <4>1 DEF ExpenseRow
      <4> QED
        BY <4>2 DEF ExpenseExists
    <3>4. CASE \E u \in Users : ExpenseEntered(u, e)
      BY <3>4 DEF ExpenseEntered
    <3>3. CASE ExpenseDeleted(e)
      BY <2>1, <3>3 DEF ExpenseDeleted, ExpenseExists, ExpenseRow
    <3> QED
      BY <3>1, <3>2, <3>3, <3>4, ExpenseStep
<1>2. ASSUME NEW g \in Programs PROVE (programs[g].status = "none" => programs[g].members = {})'
  BY ProgramStep DEF NoRowNoData, ProgramKept, ProgramCreated
<1> QED
  BY <1>1, <1>2 DEF NoRowNoData

LEMMA ChargesStep == AccountsInv /\ [Next]_vars => ChargesNamePrograms'
<1> SUFFICES ASSUME AccountsInv, [Next]_vars, NEW c \in ChargeIds, ChargeExists(c)'
             PROVE  charges'[c].program \in Programs
  BY DEF ChargesNamePrograms
<1> USE DEF AccountsInv
<1>1. charges[c] \in ChargeRow
  BY DEF TypeOK
<1>2. CASE UNCHANGED charges[c]
  BY <1>2 DEF ChargeExists, ChargesNamePrograms
<1>3. CASE ChargeDecided(c)
  BY <1>1, <1>3 DEF ChargeDecided, ChargeExists, ChargesNamePrograms, ChargeRow
<1>4. ASSUME NEW u \in Users, ChargeEntered(u, c) PROVE charges'[c].program \in Programs
  BY <1>4, DraftKinds DEF ChargeEntered, TypeOK, ChargeDraft
<1> QED
  BY <1>2, <1>3, <1>4, ChargeStep

LEMMA ProgramsStep == AccountsInv /\ [Next]_vars => ProgramsNameMembers'
<1> SUFFICES ASSUME AccountsInv, [Next]_vars, NEW g \in Programs
             PROVE  \A u \in programs'[g].members : Admitted(u)'
  BY DEF ProgramsNameMembers
<1> USE DEF AccountsInv
<1>1. \A u \in Users : Admitted(u) => Admitted(u)'
  BY AdmittedStays
<1>2. \A u \in programs[g].members : u \in Users /\ Admitted(u)
  BY TeamsAssumption DEF ProgramsNameMembers, TypeOK, ProgramRow
<1>3. ASSUME NEW u \in Users, ProgramCreated(u, g)
      PROVE  \A v \in programs'[g].members : v \in Users /\ Admitted(v)
  <2>1. draft[u] \in ProgramDraft
    BY <1>3, DraftKinds DEF ProgramCreated, TypeOK
  <2>2. \A v \in draft[u].members : Admitted(v)
    BY <1>3 DEF ProgramCreated, DraftsNameMembers, DraftNamesMembers
  <2>3. draft[u].members \subseteq Users
    BY <2>1, TeamsAssumption DEF ProgramDraft
  <2> QED
    BY <1>3, <2>2, <2>3 DEF ProgramCreated
<1> QED
  BY <1>1, <1>2, <1>3, ProgramStep DEF ProgramKept

\* No program loses a participant.
LEMMA ParticipantsStay ==
  ASSUME AccountsInv, [Next]_vars, NEW g \in Programs, NEW u \in programs[g].members
  PROVE  u \in programs'[g].members
BY ProgramStep DEF AccountsInv, NoRowNoData, ProgramKept, ProgramCreated

LEMMA DraftsStep == AccountsInv /\ [Next]_vars => DraftsNameMembers'
<1> SUFFICES ASSUME AccountsInv, [Next]_vars, NEW u \in Users PROVE DraftNamesMembers(u)'
  BY DEF DraftsNameMembers
<1>1. CASE draft'[u] = NoDraft
  BY <1>1 DEF DraftNamesMembers, NoDraft
<1>2. CASE draft'[u] = draft[u]
  <2> DEFINE d == draft[u]
  <2>1. d \in Drafts /\ DraftNamesMembers(u)
    BY DEF AccountsInv, TypeOK, DraftsNameMembers
  <2>2. \A v \in Users : Admitted(v) => Admitted(v)'
    BY AdmittedStays DEF AccountsInv
  <2>3. d.kind = "expense" => d.payer \in Users /\ DOMAIN d.shares \subseteq Users
    BY <2>1, DraftKinds, SplitsAssumption DEF ExpenseDraft
  <2>4. d.kind = "payment" => d.to \in Users
    BY <2>1, DraftKinds DEF PaymentDraft
  <2>5. d.kind = "program" => d.members \subseteq Users
    BY <2>1, DraftKinds, TeamsAssumption DEF ProgramDraft
  <2>6. d.kind = "charge" => (u \in programs[d.program].members)'
    <3>1. d.kind = "charge" => d.program \in Programs /\ u \in programs[d.program].members
      BY <2>1, DraftKinds DEF ChargeDraft, DraftNamesMembers
    <3> QED
      BY <3>1, <1>2, ParticipantsStay
  <2> QED
    BY <1>2, <2>1, <2>2, <2>3, <2>4, <2>5, <2>6 DEF DraftNamesMembers
<1> QED
  BY <1>1, <1>2, DraftStep DEF DraftRenewed

LEMMA RowsStep == AccountsInv /\ [Next]_vars => RowsNameMembers'
<1> SUFFICES ASSUME AccountsInv, [Next]_vars PROVE RowsNameMembers'
  OBVIOUS
<1> USE DEF AccountsInv
<1>1. \A u \in Users : Admitted(u) => Admitted(u)'
  BY AdmittedStays
<1>2. ASSUME NEW e \in ExpenseIds, ExpenseExists(e)'
      PROVE  \A u \in DOMAIN expenses'[e].shares \cup {expenses'[e].payer, expenses'[e].creator} :
                 u \in Users /\ Admitted(u)'
  <2> DEFINE People(row) == DOMAIN row.shares \cup {row.payer, row.creator}
  <2>1. expenses[e] \in ExpenseRow
    BY DEF TypeOK
  <2>2. ASSUME ExpenseExists(e) PROVE \A u \in People(expenses[e]) : u \in Users /\ Admitted(u)
    BY <2>2 DEF RowsNameMembers, ExpenseRows, PaymentRows, ChargeRows, Admitted
  <2>3. ASSUME ExpenseDecided(e) PROVE ExpenseExists(e) /\ People(expenses'[e]) = People(expenses[e])
    BY <2>1, <2>3 DEF ExpenseDecided, ExpenseExists, ExpenseRow
  <2>4. ASSUME ExpenseDeleted(e) PROVE ExpenseExists(e) /\ People(expenses'[e]) = People(expenses[e])
    BY <2>1, <2>4 DEF ExpenseDeleted, ExpenseRow
  <2>5. ASSUME UNCHANGED expenses[e] PROVE ExpenseExists(e) /\ People(expenses'[e]) = People(expenses[e])
    BY <1>2, <2>5 DEF ExpenseExists
  <2>6. ASSUME NEW u \in Users, ExpenseEntered(u, e)
        PROVE  \A v \in People(expenses'[e]) : v \in Users /\ Admitted(v)
    <3>1. draft[u] \in ExpenseDraft
      BY <2>6, DraftKinds DEF ExpenseEntered, TypeOK
    <3>2. draft[u].payer \in Users /\ DOMAIN draft[u].shares \subseteq Users
      BY <3>1, SplitsAssumption DEF ExpenseDraft
    <3>3. /\ Admitted(u) /\ Admitted(draft[u].payer)
          /\ \A v \in DOMAIN draft[u].shares : Admitted(v)
      BY <2>6 DEF ExpenseEntered, DraftsNameMembers, DraftNamesMembers, NoDraft
    <3>4. People(expenses'[e]) = DOMAIN draft[u].shares \cup {draft[u].payer, u}
      BY <2>6 DEF ExpenseEntered
    <3> QED
      BY <3>2, <3>3, <3>4
  <2> HIDE DEF People
  <2>7. \A u \in People(expenses'[e]) : u \in Users /\ Admitted(u)
    BY <2>2, <2>3, <2>4, <2>5, <2>6, ExpenseStep
  <2> QED
    BY <1>1, <2>7 DEF People
<1>3. ASSUME NEW p \in PaymentIds, PaymentExists(p)'
      PROVE  /\ \A u \in {payments'[p].from, payments'[p].to} : u \in Users /\ Admitted(u)'
             /\ payments'[p].from # payments'[p].to
  <2>1. payments[p] \in PaymentRow
    BY DEF TypeOK
  <2>2. ASSUME PaymentExists(p)
        PROVE  /\ payments[p].from \in Users /\ Admitted(payments[p].from)
               /\ payments[p].to \in Users /\ Admitted(payments[p].to)
               /\ payments[p].from # payments[p].to
    BY <2>2 DEF RowsNameMembers, ExpenseRows, PaymentRows, ChargeRows, Admitted
  <2>3. ASSUME PaymentDecided(p)
        PROVE  PaymentExists(p) /\ payments'[p].from = payments[p].from /\ payments'[p].to = payments[p].to
    BY <2>1, <2>3 DEF PaymentDecided, PaymentExists, PaymentRow
  <2>4. ASSUME UNCHANGED payments[p]
        PROVE  PaymentExists(p) /\ payments'[p].from = payments[p].from /\ payments'[p].to = payments[p].to
    BY <1>3, <2>4 DEF PaymentExists
  <2>5. ASSUME NEW u \in Users, PaymentEntered(u, p)
        PROVE  /\ payments'[p].from = u /\ Admitted(u)
               /\ payments'[p].to \in Users \ {u} /\ Admitted(payments'[p].to)
    <3>1. draft[u].to \in Users
      BY <2>5, DraftKinds DEF PaymentEntered, TypeOK, PaymentDraft
    <3>2. Admitted(u) /\ Admitted(draft[u].to) /\ draft[u].to # u
      BY <2>5 DEF PaymentEntered, DraftsNameMembers, DraftNamesMembers, NoDraft
    <3> QED
      BY <2>5, <3>1, <3>2 DEF PaymentEntered
  <2> QED
    BY <1>1, <2>2, <2>3, <2>4, <2>5, PaymentStep
<1>4. ASSUME NEW c \in ChargeIds, ChargeExists(c)'
      PROVE  charges'[c].user \in programs'[charges'[c].program].members
  <2>1. charges[c] \in ChargeRow
    BY DEF TypeOK
  <2>2. ASSUME ChargeExists(c) PROVE charges[c].user \in programs[charges[c].program].members
    BY <2>2 DEF RowsNameMembers, ExpenseRows, PaymentRows, ChargeRows
  <2>3. \A g \in Programs : \A u \in programs[g].members : u \in programs'[g].members
    BY ParticipantsStay
  <2>4. ASSUME NEW u \in Users, ChargeEntered(u, c)
        PROVE  charges'[c].program \in Programs /\ charges'[c].user \in programs[charges'[c].program].members
    <3>1. draft[u].program \in Programs
      BY <2>4, DraftKinds DEF ChargeEntered, TypeOK, ChargeDraft
    <3>2. u \in programs[draft[u].program].members
      BY <2>4 DEF ChargeEntered, DraftsNameMembers, DraftNamesMembers
    <3> QED
      BY <2>4, <3>1, <3>2 DEF ChargeEntered
  <2>5. ASSUME ChargeDecided(c) \/ UNCHANGED charges[c]
        PROVE  ChargeExists(c) /\ charges'[c].user = charges[c].user /\ charges'[c].program = charges[c].program
    BY <1>4, <2>1, <2>5 DEF ChargeDecided, ChargeExists, ChargeRow
  <2>6. ASSUME ChargeExists(c) PROVE charges[c].program \in Programs
    BY <2>6 DEF ChargesNamePrograms
  <2> QED
    BY <2>2, <2>3, <2>4, <2>5, <2>6, ChargeStep
<1>5. \A e \in ExpenseIds : ExpenseExists(e)' =>
          DOMAIN expenses'[e].shares \cup {expenses'[e].payer, expenses'[e].creator}
              \subseteq { u \in Users : status'[u] \in {"active", "removed"} }
  BY <1>2 DEF Admitted
<1>6. \A p \in PaymentIds : PaymentExists(p)' =>
          /\ {payments'[p].from, payments'[p].to}
                 \subseteq { u \in Users : status'[u] \in {"active", "removed"} }
          /\ payments'[p].from # payments'[p].to
  BY <1>3 DEF Admitted
<1> QED
  BY <1>4, <1>5, <1>6 DEF RowsNameMembers, ExpenseRows, PaymentRows, ChargeRows

LEMMA AccountsInvStep == AccountsInv /\ [Next]_vars => AccountsInv'
<1> SUFFICES ASSUME AccountsInv, [Next]_vars PROVE AccountsInv'
  OBVIOUS
<1> QED
  BY TypeStep, NoRowStep, ChargesStep, ProgramsStep, DraftsStep, RowsStep DEF AccountsInv

\* For every group and any number of records the tables hold rows of their
\* types, whatever the handlers do (database.py:25-119).
THEOREM AccountsTypeCorrect == Spec => []TypeOK
<1>1. Init => TypeOK
  BY TypeInit
<1>2. TypeOK /\ [Next]_vars => TypeOK'
  BY TypeStep
<1> QED
  BY <1>1, <1>2, PTL DEF Spec

\* Rows name people who had been admitted, nobody pays themselves and chargers
\* take part in what they charge.  Rows alone cannot show it: a confirmation
\* writes its draft without looking, so the invariant says as much of drafts.
THEOREM RowsNameAdmittedPeople == Spec => []RowsNameMembers
<1>1. Init => AccountsInv
  BY AccountsInvInit
<1>2. AccountsInv /\ [Next]_vars => AccountsInv'
  BY AccountsInvStep
<1>3. AccountsInv => RowsNameMembers
  BY DEF AccountsInv
<1> QED
  BY <1>1, <1>2, <1>3, PTL DEF Spec

-----------------------------------------------------------------------------
(* Accounts implements Book *)

EntryMap == [r \in Records |-> EntryOf(r)]

ExpenseEntry(row) == IF row.deleted THEN "withdrawn" ELSE DecidedEntry(row.approval)

LEMMA EntryCases ==
  /\ \A e \in ExpenseIds : <<"expense", e>> \in Records
                           /\ EntryOf(<<"expense", e>>) = ExpenseEntry(expenses[e])
  /\ \A p \in PaymentIds : <<"payment", p>> \in Records
                           /\ EntryOf(<<"payment", p>>) = DecidedEntry(payments[p].status)
  /\ \A c \in ChargeIds : <<"charge", c>> \in Records
                          /\ EntryOf(<<"charge", c>>) = DecidedEntry(charges[c].status)
BY DEF EntryOf, ExpenseEntry, Records

LEMMA DecidedValues ==
  /\ DecidedEntry("none") = "absent" /\ DecidedEntry("pending") = "waiting"
  /\ DecidedEntry("approved") = "counted" /\ DecidedEntry("null") = "counted"
  /\ DecidedEntry("confirmed") = "counted" /\ DecidedEntry("rejected") = "refused"
BY DEF DecidedEntry

\* A step that writes one row moves that record's entry and no other.
LEMMA ExpenseMove ==
  ASSUME TypeOK, NEW e \in ExpenseIds, NEW row, expenses' = [expenses EXCEPT ![e] = row],
         UNCHANGED <<payments, charges>>
  PROVE  EntryMap' = [EntryMap EXCEPT ![<<"expense", e>>] = ExpenseEntry(row)]
<1>1. /\ expenses'[e] = row
      /\ \A x \in ExpenseIds \ {e} : expenses'[x] = expenses[x]
  BY DEF TypeOK
<1>2. ASSUME NEW r \in Records
      PROVE  EntryOf(r)' = IF r = <<"expense", e>> THEN ExpenseEntry(row) ELSE EntryOf(r)
  BY <1>1 DEF Records, EntryOf, ExpenseEntry
<1> QED
  BY <1>2 DEF EntryMap

LEMMA PaymentMove ==
  ASSUME TypeOK, NEW p \in PaymentIds, NEW row, payments' = [payments EXCEPT ![p] = row],
         UNCHANGED <<expenses, charges>>
  PROVE  EntryMap' = [EntryMap EXCEPT ![<<"payment", p>>] = DecidedEntry(row.status)]
<1>1. /\ payments'[p] = row
      /\ \A x \in PaymentIds \ {p} : payments'[x] = payments[x]
  BY DEF TypeOK
<1>2. ASSUME NEW r \in Records
      PROVE  EntryOf(r)' = IF r = <<"payment", p>> THEN DecidedEntry(row.status) ELSE EntryOf(r)
  BY <1>1 DEF Records, EntryOf
<1> QED
  BY <1>2 DEF EntryMap

LEMMA ChargeMove ==
  ASSUME TypeOK, NEW c \in ChargeIds, NEW row, charges' = [charges EXCEPT ![c] = row],
         UNCHANGED <<expenses, payments>>
  PROVE  EntryMap' = [EntryMap EXCEPT ![<<"charge", c>>] = DecidedEntry(row.status)]
<1>1. /\ charges'[c] = row
      /\ \A x \in ChargeIds \ {c} : charges'[x] = charges[x]
  BY DEF TypeOK
<1>2. ASSUME NEW r \in Records
      PROVE  EntryOf(r)' = IF r = <<"charge", c>> THEN DecidedEntry(row.status) ELSE EntryOf(r)
  BY <1>1 DEF Records, EntryOf
<1> QED
  BY <1>2 DEF EntryMap

LEMMA EntryInit == Init /\ NoRowNoData => Ledger!Init
<1> SUFFICES ASSUME Init, NoRowNoData, NEW r \in Records PROVE EntryOf(r) \in {"absent", "counted"}
  BY DEF Ledger!Init, EntryMap
<1>1. \A p \in PaymentIds : payments[p].status = "none"
  BY DEF Init, NoPayment
<1>2. \A c \in ChargeIds : charges[c].status = "none"
  BY DEF Init, NoCharge
<1>3. ASSUME NEW e \in ExpenseIds
      PROVE  ~expenses[e].deleted /\ expenses[e].approval \in {"none", "null"}
  <2>1. ~NoExpense.deleted /\ NoExpense.approval = "none"
    BY DEF NoExpense
  <2>2. \A row \in LegacyRow : ~row.deleted /\ row.approval = "null"
    BY DEF LegacyRow
  <2>3. expenses[e] = NoExpense \/ expenses[e] \in LegacyRow
    BY DEF Init
  <2> QED
    BY <2>1, <2>2, <2>3
<1>4. ASSUME NEW e \in ExpenseIds PROVE EntryOf(<<"expense", e>>) \in {"absent", "counted"}
  BY <1>3, EntryCases, DecidedValues DEF ExpenseEntry
<1> QED
  BY <1>1, <1>2, <1>4, EntryCases, DecidedValues DEF Records

\* Each confirmation submits or posts, each decision accepts or refuses, and a
\* deletion withdraws what had not been withdrawn before.
LEMMA BookConfirming ==
  ASSUME AccountsInv, NEW u \in Users, Confirming(u) PROVE Ledger!Next
<1> USE DEF AccountsInv
<1>1. ASSUME NEW ok \in BOOLEAN, NEW e \in ExpenseIds, NEW reached \in SUBSET ActiveAdmins,
             ConfirmExpense(u, e, reached, ok)
      PROVE  Ledger!Next
  <2> DEFINE row == expenses'[e]
             r == <<"expense", e>>
  <2>1. /\ expenses' = [expenses EXCEPT ![e] = row] /\ UNCHANGED <<payments, charges>>
        /\ ~row.deleted /\ row.approval \in {"pending", "approved"}
    BY <1>1 DEF ConfirmExpense, TypeOK
  <2>2. r \in Records /\ EntryMap[r] = "absent"
    BY <1>1, EntryCases, DecidedValues
    DEF ConfirmExpense, Fresh, ExpenseRows, ExpenseExists, NoRowNoData, ExpenseEntry, EntryMap
  <2>3. ExpenseEntry(row) \in {"waiting", "counted"}
    BY <2>1, DecidedValues DEF ExpenseEntry
  <2>4. EntryMap' = [EntryMap EXCEPT ![r] = ExpenseEntry(row)]
    BY <2>1, ExpenseMove
  <2> QED
    BY <2>2, <2>3, <2>4 DEF Ledger!Next, Ledger!Submit, Ledger!Post, Ledger!Move, EntryMap
<1>2. ASSUME NEW ok \in BOOLEAN, NEW p \in PaymentIds, NEW reached \in BOOLEAN,
             ConfirmPayment(u, p, reached, ok)
      PROVE  Ledger!Next
  <2> DEFINE row == payments'[p]
             r == <<"payment", p>>
  <2>1. /\ payments' = [payments EXCEPT ![p] = row] /\ UNCHANGED <<expenses, charges>>
        /\ row.status = "pending"
    BY <1>2 DEF ConfirmPayment, TypeOK
  <2>2. r \in Records /\ EntryMap[r] = "absent"
    BY <1>2, EntryCases, DecidedValues DEF ConfirmPayment, Fresh, PaymentRows, PaymentExists, EntryMap
  <2>3. EntryMap' = [EntryMap EXCEPT ![r] = "waiting"]
    BY <2>1, PaymentMove, DecidedValues
  <2> QED
    BY <2>2, <2>3 DEF Ledger!Next, Ledger!Submit, Ledger!Move, EntryMap
<1>3. ASSUME NEW ok \in BOOLEAN, NEW c \in ChargeIds, NEW reached \in SUBSET ActiveAdmins,
             ConfirmCharge(u, c, reached, ok)
      PROVE  Ledger!Next
  <2> DEFINE row == charges'[c]
             r == <<"charge", c>>
  <2>1. /\ charges' = [charges EXCEPT ![c] = row] /\ UNCHANGED <<expenses, payments>>
        /\ row.status = "pending"
    BY <1>3 DEF ConfirmCharge, TypeOK
  <2>2. r \in Records /\ EntryMap[r] = "absent"
    BY <1>3, EntryCases, DecidedValues DEF ConfirmCharge, Fresh, ChargeRows, ChargeExists, EntryMap
  <2>3. EntryMap' = [EntryMap EXCEPT ![r] = "waiting"]
    BY <2>1, ChargeMove, DecidedValues
  <2> QED
    BY <2>2, <2>3 DEF Ledger!Next, Ledger!Submit, Ledger!Move, EntryMap
<1> QED
  BY <1>1, <1>2, <1>3 DEF Confirming

LEMMA BookDeciding ==
  ASSUME AccountsInv, NEW u \in Users, Deciding(u)
  PROVE  Ledger!Next \/ UNCHANGED EntryMap
<1> USE DEF AccountsInv
<1>1. ASSUME NEW e \in ExpenseIds, NEW verdict \in {"approved", "rejected"},
             DecideExpense(u, e, verdict)
      PROVE  Ledger!Next \/ UNCHANGED EntryMap
  <2> DEFINE row == [expenses[e] EXCEPT !.approval = verdict]
             r == <<"expense", e>>
  <2>1. expenses[e] \in ExpenseRow /\ expenses[e].approval = "pending"
    BY <1>1 DEF DecideExpense, TypeOK
  <2>2. expenses' = [expenses EXCEPT ![e] = row] /\ UNCHANGED <<payments, charges>>
    BY <1>1 DEF DecideExpense
  <2>3. row.deleted = expenses[e].deleted /\ row.approval = verdict
    BY <2>1 DEF ExpenseRow
  <2>4. /\ r \in Records
        /\ EntryMap[r] = IF expenses[e].deleted THEN "withdrawn" ELSE "waiting"
    BY <2>1, EntryCases, DecidedValues DEF ExpenseEntry, EntryMap
  <2>5. ExpenseEntry(row) \in IF expenses[e].deleted THEN {"withdrawn"} ELSE {"counted", "refused"}
    BY <2>3, DecidedValues DEF ExpenseEntry
  <2> HIDE DEF row
  <2>6. EntryMap' = [EntryMap EXCEPT ![r] = ExpenseEntry(row)]
    BY <2>2, ExpenseMove
  <2> QED
    BY <2>4, <2>5, <2>6 DEF Ledger!Next, Ledger!Accept, Ledger!Refuse, Ledger!Move, EntryMap
<1>2. ASSUME NEW p \in PaymentIds, NEW verdict \in {"confirmed", "rejected"},
             DecidePayment(u, p, verdict)
      PROVE  Ledger!Next
  <2> DEFINE row == [payments[p] EXCEPT !.status = verdict]
             r == <<"payment", p>>
  <2>1. payments[p] \in PaymentRow /\ payments[p].status = "pending"
    BY <1>2 DEF DecidePayment, TypeOK
  <2>2. payments' = [payments EXCEPT ![p] = row] /\ UNCHANGED <<expenses, charges>>
    BY <1>2 DEF DecidePayment
  <2>3. DecidedEntry(row.status) \in {"counted", "refused"}
    BY <2>1, DecidedValues DEF PaymentRow
  <2>4. r \in Records /\ EntryMap[r] = "waiting"
    BY <2>1, EntryCases, DecidedValues DEF EntryMap
  <2> HIDE DEF row
  <2>5. EntryMap' = [EntryMap EXCEPT ![r] = DecidedEntry(row.status)]
    BY <2>2, PaymentMove
  <2> QED
    BY <2>3, <2>4, <2>5 DEF Ledger!Next, Ledger!Accept, Ledger!Refuse, Ledger!Move, EntryMap
<1>3. ASSUME NEW c \in ChargeIds, NEW verdict \in {"confirmed", "rejected"},
             DecideCharge(u, c, verdict)
      PROVE  Ledger!Next
  <2> DEFINE row == [charges[c] EXCEPT !.status = verdict]
             r == <<"charge", c>>
  <2>1. charges[c] \in ChargeRow /\ charges[c].status = "pending"
    BY <1>3 DEF DecideCharge, TypeOK
  <2>2. charges' = [charges EXCEPT ![c] = row] /\ UNCHANGED <<expenses, payments>>
    BY <1>3 DEF DecideCharge
  <2>3. DecidedEntry(row.status) \in {"counted", "refused"}
    BY <2>1, DecidedValues DEF ChargeRow
  <2>4. r \in Records /\ EntryMap[r] = "waiting"
    BY <2>1, EntryCases, DecidedValues DEF EntryMap
  <2> HIDE DEF row
  <2>5. EntryMap' = [EntryMap EXCEPT ![r] = DecidedEntry(row.status)]
    BY <2>2, ChargeMove
  <2> QED
    BY <2>3, <2>4, <2>5 DEF Ledger!Next, Ledger!Accept, Ledger!Refuse, Ledger!Move, EntryMap
<1> QED
  BY <1>1, <1>2, <1>3 DEF Deciding

LEMMA BookManaging ==
  ASSUME AccountsInv, NEW u \in Users, Managing(u)
  PROVE  Ledger!Next \/ UNCHANGED EntryMap
<1> USE DEF AccountsInv
<1>1. ASSUME NEW e \in ExpenseIds, DeleteExpense(u, e)
      PROVE  Ledger!Next \/ UNCHANGED EntryMap
  <2> DEFINE row == [expenses[e] EXCEPT !.deleted = TRUE]
             r == <<"expense", e>>
  <2>1. expenses[e] \in ExpenseRow /\ expenses[e].approval # "none"
    BY <1>1 DEF DeleteExpense, ExpenseExists, TypeOK
  <2>2. expenses' = [expenses EXCEPT ![e] = row] /\ UNCHANGED <<payments, charges>>
    BY <1>1 DEF DeleteExpense
  <2>3. ExpenseEntry(row) = "withdrawn"
    BY <2>1 DEF ExpenseRow, ExpenseEntry
  <2>4. r \in Records /\ EntryMap[r] \in {"waiting", "counted", "refused", "withdrawn"}
    BY <2>1, EntryCases, DecidedValues DEF ExpenseRow, ExpenseEntry, EntryMap
  <2> HIDE DEF row
  <2>5. EntryMap' = [EntryMap EXCEPT ![r] = "withdrawn"]
    BY <2>2, <2>3, ExpenseMove
  <2> QED
    BY <2>4, <2>5 DEF Ledger!Next, Ledger!Withdraw, Ledger!Move, EntryMap
<1>2. ASSUME UNCHANGED <<expenses, payments, charges>> PROVE UNCHANGED EntryMap
  BY <1>2 DEF EntryMap, EntryOf
<1> QED
  BY <1>1, <1>2 DEF Managing, CloseProgram, CreateProgram

LEMMA BookStep == AccountsInv /\ [Next]_vars => Ledger!Next \/ UNCHANGED EntryMap
<1> SUFFICES ASSUME AccountsInv, [Next]_vars PROVE Ledger!Next \/ UNCHANGED EntryMap
  OBVIOUS
<1>1. ASSUME UNCHANGED <<expenses, payments, charges>> PROVE UNCHANGED EntryMap
  BY <1>1 DEF EntryMap, EntryOf
<1> QED
  BY <1>1, TableSteps, BookConfirming, BookDeciding, BookManaging

\* Every behaviour of the handlers is one of Book: a record is entered once,
\* decided at most once and only while it waits, and withdrawn for good, however
\* presses, retries, deletions, removals and restarts interleave.
THEOREM AccountsImplementBook == Spec => ImplementsBook
<1>1. Init => AccountsInv /\ Ledger!Init
  BY AccountsInvInit, EntryInit DEF AccountsInv
<1>2. AccountsInv /\ [Next]_vars => AccountsInv'
  BY AccountsInvStep
<1>3. AccountsInv /\ [Next]_vars => [Ledger!Next]_EntryMap
  BY BookStep
<1> QED
  BY <1>1, <1>2, <1>3, PTL DEF Spec, ImplementsBook, Ledger!Spec, EntryMap

\* What was refused or deleted never counts again.
THEOREM DeadRecordsNeverReturn == Spec => DeadRecordsStayDead
<1>1. Init => AccountsInv
  BY AccountsInvInit
<1>2. AccountsInv /\ [Next]_vars => AccountsInv'
  BY AccountsInvStep
<1>3. ASSUME AccountsInv, [Next]_vars
      PROVE  [\A r \in Records : EntryMap[r] \in Ledger!Dead => EntryMap'[r] \in Ledger!Dead]_EntryMap
  BY <1>3, BookStep DEF EntryMap, Ledger!Dead, Ledger!Next, Ledger!Submit, Ledger!Post,
         Ledger!Accept, Ledger!Refuse, Ledger!Withdraw, Ledger!Move
<1> QED
  BY <1>1, <1>2, <1>3, PTL DEF Spec, DeadRecordsStayDead, Ledger!DeadStaysDead, EntryMap

-----------------------------------------------------------------------------
(* The group ledger and the programs' own reports *)

\* A row from before programs belongs to none, and the tables are finite.
LegacyOutsidePrograms ==
    \A e \in ExpenseIds : expenses[e].approval = "null" => expenses[e].program = Nobody
FiniteTables ==
    IsFiniteSet(ExpenseRows) /\ IsFiniteSet(PaymentRows) /\ IsFiniteSet(ChargeRows)

\* The amount column is written from the preview and never parts from the shares.
RowAddsUp(e)   == expenses[e].amount = SumFunction(expenses[e].shares)
DraftAddsUp(u) == draft[u].kind = "expense" => draft[u].amount = SumFunction(draft[u].shares)
AmountsAddUp   == (\A e \in ExpenseIds : RowAddsUp(e)) /\ \A u \in Users : DraftAddsUp(u)

MoneyInv == AccountsInv /\ LegacyOutsidePrograms /\ FiniteTables /\ AmountsAddUp

LEMMA MoneyInit == Init => MoneyInv
<1> SUFFICES ASSUME Init PROVE MoneyInv
  OBVIOUS
<1>1. \A e \in ExpenseIds : \/ expenses[e] = NoExpense
                            \/ e = 1 /\ expenses[e] \in LegacyRow
  BY DEF Init
<1>2. NoExpense.approval = "none" /\ \A row \in LegacyRow : row.program = Nobody
  BY DEF NoExpense, LegacyRow
<1>3. LegacyOutsidePrograms
  BY <1>1, <1>2 DEF LegacyOutsidePrograms
<1>4. ExpenseRows \subseteq {1} /\ PaymentRows = {} /\ ChargeRows = {}
  BY <1>1, <1>2 DEF Init, ExpenseRows, PaymentRows, ChargeRows, ExpenseExists, PaymentExists,
                    ChargeExists, NoPayment, NoCharge
<1>5. FiniteTables
  BY <1>4, FS_EmptySet, FS_Singleton, FS_Subset DEF FiniteTables
<1>6. AmountsAddUp
  <2>1. NoExpense.amount = SumFunction(NoExpense.shares)
    BY DEF NoExpense
  <2>2. \A row \in LegacyRow : row.amount = SumFunction(row.shares)
    BY DEF LegacyRow
  <2>3. \A u \in Users : draft[u].kind = "none"
    BY DEF Init, NoDraft
  <2> QED BY <1>1, <2>1, <2>2, <2>3, Zenon DEF AmountsAddUp, RowAddsUp, DraftAddsUp
<1> QED BY <1>3, <1>5, <1>6, AccountsInvInit DEF MoneyInv

LEMMA LegacyStep == MoneyInv /\ [Next]_vars => LegacyOutsidePrograms'
<1> SUFFICES ASSUME MoneyInv, [Next]_vars, NEW e \in ExpenseIds,
                    expenses'[e].approval = "null"
             PROVE  expenses'[e].program = Nobody
  BY DEF LegacyOutsidePrograms
<1>1. TypeOK /\ expenses[e] \in ExpenseRow
  BY DEF MoneyInv, AccountsInv, TypeOK
<1>2. CASE UNCHANGED expenses[e]
  BY <1>2 DEF MoneyInv, LegacyOutsidePrograms
<1>3. CASE ExpenseDecided(e)
  BY <1>1, <1>3 DEF ExpenseDecided, ExpenseRow
<1>4. CASE ExpenseDeleted(e)
  BY <1>1, <1>4 DEF ExpenseDeleted, ExpenseRow, MoneyInv, LegacyOutsidePrograms
<1>5. ASSUME NEW u \in Users, ExpenseEntered(u, e) PROVE FALSE
  BY <1>5 DEF ExpenseEntered
<1> QED BY <1>1, <1>2, <1>3, <1>4, <1>5, ExpenseStep

\* A preview shows shares that add up, a new payer leaves them alone, and a
\* confirmation copies both columns.
LEMMA AmountsStep == MoneyInv /\ [Next]_vars => AmountsAddUp'
<1> SUFFICES ASSUME MoneyInv, [Next]_vars PROVE AmountsAddUp'
  OBVIOUS
<1>1. TypeOK /\ AmountsAddUp /\ draft \in [Users -> Drafts]
  BY DEF MoneyInv, AccountsInv, TypeOK
<1>2. ASSUME NEW e \in ExpenseIds PROVE RowAddsUp(e)'
  <2>1. expenses[e] \in ExpenseRow /\ RowAddsUp(e)
    BY <1>1 DEF TypeOK, AmountsAddUp
  <2>2. CASE UNCHANGED expenses[e]
    BY <2>1, <2>2 DEF RowAddsUp
  <2>3. CASE ExpenseDecided(e) \/ ExpenseDeleted(e)
    <3>1. /\ expenses'[e].amount = expenses[e].amount
          /\ expenses'[e].shares = expenses[e].shares
      BY <2>1, <2>3 DEF ExpenseDecided, ExpenseDeleted, ExpenseRow
    <3> QED BY <2>1, <3>1 DEF RowAddsUp
  <2>4. ASSUME NEW u \in Users, ExpenseEntered(u, e) PROVE RowAddsUp(e)'
    <3>1. draft[u].amount = SumFunction(draft[u].shares)
      BY <1>1, <2>4 DEF AmountsAddUp, DraftAddsUp, ExpenseEntered
    <3>2. expenses'[e].amount = draft[u].amount /\ expenses'[e].shares = draft[u].shares
      BY <2>4 DEF ExpenseEntered
    <3> QED BY <3>1, <3>2 DEF RowAddsUp
  <2> QED BY <1>1, <2>2, <2>3, <2>4, ExpenseStep
<1>3. ASSUME NEW u \in Users PROVE DraftAddsUp(u)'
  <2>1. draft[u] \in Drafts /\ DraftAddsUp(u)
    BY <1>1 DEF AmountsAddUp
  <2>2. CASE draft'[u] = draft[u]
    BY <2>1, <2>2 DEF DraftAddsUp
  <2>3. CASE draft'[u].kind # "expense"
    BY <2>3 DEF DraftAddsUp
  <2>4. ASSUME NEW v \in Users, NEW d, Preview(v, d)
        PROVE  draft'[v] = d /\ (v # u => draft'[u] = draft[u])
    BY <1>1, <2>4 DEF Preview
  <2>5. ASSUME NEW d \in ExpenseDraft, DraftExpense(u, d) PROVE DraftAddsUp(u)'
    <3>1. draft'[u] = d /\ d.amount = SumFunction(d.shares)
      BY <2>4, <2>5 DEF DraftExpense
    <3> QED BY <3>1 DEF DraftAddsUp
  <2>6. ASSUME NEW payer \in ActiveUsers, ChangePayer(u, payer) PROVE DraftAddsUp(u)'
    <3>1. draft[u].kind = "expense" /\ draft[u] \in ExpenseDraft
      BY <2>1, <2>6, DraftKinds DEF ChangePayer
    <3>2. draft'[u] = [draft[u] EXCEPT !.payer = payer]
      BY <2>4, <2>6 DEF ChangePayer
    <3>3. draft'[u].amount = draft[u].amount /\ draft'[u].shares = draft[u].shares
      BY <3>1, <3>2 DEF ExpenseDraft
    <3> QED BY <2>1, <3>1, <3>3 DEF DraftAddsUp
  <2>7. ASSUME NEW d \in PaymentDraft \cup ChargeDraft \cup ProgramDraft
                         \cup {Wizard, Menu, Planning, NoDraft}, Preview(u, d)
        PROVE  draft'[u].kind # "expense"
    BY <2>4, <2>7 DEF PaymentDraft, ChargeDraft, ProgramDraft, Wizard, Menu, Planning, NoDraft
  <2>8. ASSUME Drafting(u) PROVE DraftAddsUp(u)'
    BY <2>3, <2>5, <2>6, <2>7, <2>8
    DEF Drafting, OpenConversation, DraftPayment, DraftCharge, PlanProgram, DraftProgram, DropDraft
  <2>9. ASSUME NEW v \in Users, v # u, Drafting(v) PROVE draft'[u] = draft[u]
    BY <2>4, <2>9 DEF Drafting, OpenConversation, DraftExpense, ChangePayer, DraftPayment,
                      DraftCharge, PlanProgram, DraftProgram, DropDraft
  <2>10. ASSUME NEW v \in Users, Confirming(v) \/ Deciding(v) \/ Managing(v)
         PROVE  draft'[u] = draft[u] \/ draft'[u] = NoDraft
    BY <1>1, <2>10 DEF Confirming, ConfirmExpense, ConfirmPayment, ConfirmCharge, AfterAnswer,
                       Deciding, DecideExpense, DecidePayment, DecideCharge,
                       Managing, DeleteExpense, CloseProgram, CreateProgram
  <2>11. CASE ChangeRoles \/ Restart \/ UNCHANGED vars
    BY <2>2, <2>3, <2>11 DEF ChangeRoles, Restart, vars, NoDraft
  <2> QED BY <2>2, <2>3, <2>8, <2>9, <2>10, <2>11 DEF Next, NoDraft
<1> QED BY <1>2, <1>3 DEF AmountsAddUp

\* A step adds at most one row.
LEMMA RowsGrow ==
  ASSUME TypeOK, [Next]_vars
  PROVE  /\ \E e : ExpenseRows' \subseteq ExpenseRows \cup {e}
         /\ \E p : PaymentRows' \subseteq PaymentRows \cup {p}
         /\ \E c : ChargeRows' \subseteq ChargeRows \cup {c}
<1> DEFINE Es == \E e : ExpenseRows' \subseteq ExpenseRows \cup {e}
           Ps == \E p : PaymentRows' \subseteq PaymentRows \cup {p}
           Cs == \E c : ChargeRows' \subseteq ChargeRows \cup {c}
<1>1. expenses' = expenses => Es
  BY DEF ExpenseRows, ExpenseExists
<1>2. payments' = payments => Ps
  BY DEF PaymentRows, PaymentExists
<1>3. charges' = charges => Cs
  BY DEF ChargeRows, ChargeExists
<1>4. /\ \A e \in ExpenseIds : (\A x \in ExpenseIds \ {e} : expenses'[x] = expenses[x]) => Es
      /\ \A p \in PaymentIds : (\A x \in PaymentIds \ {p} : payments'[x] = payments[x]) => Ps
      /\ \A c \in ChargeIds : (\A x \in ChargeIds \ {c} : charges'[x] = charges[x]) => Cs
  BY DEF ExpenseRows, ExpenseExists, PaymentRows, PaymentExists, ChargeRows, ChargeExists
<1> HIDE DEF Es, Ps, Cs
<1>5. ASSUME NEW u \in Users, NEW ok \in BOOLEAN, NEW e \in ExpenseIds,
             NEW reached \in SUBSET ActiveAdmins, ConfirmExpense(u, e, reached, ok)
      PROVE  Es /\ Ps /\ Cs
  BY <1>2, <1>3, <1>4, <1>5 DEF ConfirmExpense, TypeOK
<1>6. ASSUME NEW u \in Users, NEW ok \in BOOLEAN, NEW p \in PaymentIds,
             NEW reached \in BOOLEAN, ConfirmPayment(u, p, reached, ok)
      PROVE  Es /\ Ps /\ Cs
  BY <1>1, <1>3, <1>4, <1>6 DEF ConfirmPayment, TypeOK
<1>7. ASSUME NEW u \in Users, NEW ok \in BOOLEAN, NEW c \in ChargeIds,
             NEW reached \in SUBSET ActiveAdmins, ConfirmCharge(u, c, reached, ok)
      PROVE  Es /\ Ps /\ Cs
  BY <1>1, <1>2, <1>4, <1>7 DEF ConfirmCharge, TypeOK
<1>8. ASSUME NEW u \in Users, NEW e \in ExpenseIds, NEW verdict \in {"approved", "rejected"},
             DecideExpense(u, e, verdict)
      PROVE  Es /\ Ps /\ Cs
  BY <1>2, <1>3, <1>4, <1>8 DEF DecideExpense, TypeOK
<1>9. ASSUME NEW u \in Users, NEW p \in PaymentIds, NEW verdict \in {"confirmed", "rejected"},
             DecidePayment(u, p, verdict)
      PROVE  Es /\ Ps /\ Cs
  BY <1>1, <1>3, <1>4, <1>9 DEF DecidePayment, TypeOK
<1>10. ASSUME NEW u \in Users, NEW c \in ChargeIds, NEW verdict \in {"confirmed", "rejected"},
              DecideCharge(u, c, verdict)
       PROVE  Es /\ Ps /\ Cs
  BY <1>1, <1>2, <1>4, <1>10 DEF DecideCharge, TypeOK
<1>11. ASSUME NEW u \in Users, NEW e \in ExpenseIds, DeleteExpense(u, e)
       PROVE  Es /\ Ps /\ Cs
  BY <1>2, <1>3, <1>4, <1>11 DEF DeleteExpense, TypeOK
<1>12. ASSUME NEW u \in Users, NEW g \in Programs,
              CloseProgram(u, g) \/ \E ok \in BOOLEAN : CreateProgram(u, g, ok)
       PROVE  Es /\ Ps /\ Cs
  BY <1>1, <1>2, <1>3, <1>12 DEF CloseProgram, CreateProgram
<1>13. Es /\ Ps /\ Cs
  BY <1>1, <1>2, <1>3, <1>5, <1>6, <1>7, <1>8, <1>9, <1>10, <1>11, <1>12, TableSteps
     DEF Confirming, Deciding, Managing
<1> QED BY <1>13 DEF Es, Ps, Cs

LEMMA MoneyStep == MoneyInv /\ [Next]_vars => MoneyInv'
<1> SUFFICES ASSUME MoneyInv, [Next]_vars PROVE MoneyInv'
  OBVIOUS
<1>1. AccountsInv' /\ LegacyOutsidePrograms' /\ AmountsAddUp'
  BY AccountsInvStep, LegacyStep, AmountsStep DEF MoneyInv
<1>2. TypeOK /\ FiniteTables
  BY DEF MoneyInv, AccountsInv
<1>3. /\ \E e : ExpenseRows' \subseteq ExpenseRows \cup {e}
      /\ \E p : PaymentRows' \subseteq PaymentRows \cup {p}
      /\ \E c : ChargeRows' \subseteq ChargeRows \cup {c}
  BY <1>2, RowsGrow
<1>4. \A old, new : IsFiniteSet(old) /\ (\E x : new \subseteq old \cup {x}) => IsFiniteSet(new)
  BY FS_AddElement, FS_Subset
<1>5. FiniteTables'
  BY <1>2, <1>3, <1>4 DEF FiniteTables
<1> QED BY <1>1, <1>5 DEF MoneyInv

Holders == Users \cup Programs
Pairs   == Holders \X Holders

\* What a row that counts adds to each entry of the ledger.
ExpenseEffect ==
    [e \in CountedExpenses |-> [p \in Pairs |->
        IF p[2] = CreditorOf(e) /\ p[1] # p[2] /\ p[1] \in DOMAIN expenses[e].shares
        THEN expenses[e].shares[p[1]] ELSE 0]]
PaymentEffect ==
    [r \in ConfirmedPayments |-> [p \in Pairs |->
        IF p = <<payments[r].from, payments[r].to>> THEN -payments[r].amount ELSE 0]]
ChargeEffect ==
    [c \in ConfirmedCharges |-> [p \in Pairs |->
        IF p = <<charges[c].user, charges[c].program>> THEN -charges[c].amount ELSE 0]]

WithExpenses(pw) ==
    FoldSet(LAMBDA e, l : AddShares(l, CreditorOf(e), expenses[e].shares), pw, CountedExpenses)
WithPayments(pw) ==
    FoldSet(LAMBDA p, l : AddPayment(l, payments[p].from, payments[p].to, payments[p].amount),
            pw, ConfirmedPayments)
WithCharges(pw) ==
    FoldSet(LAMBDA c, l : AddPayment(l, charges[c].user, charges[c].program, charges[c].amount),
            pw, ConfirmedCharges)

\* Rows that count, of a table that holds finitely many.
LEMMA CountedRows ==
  ASSUME MoneyInv
  PROVE  /\ IsFiniteSet(CountedExpenses) /\ IsFiniteSet(ConfirmedPayments)
         /\ IsFiniteSet(ConfirmedCharges)
         /\ \A e \in CountedExpenses :
              /\ CreditorOf(e) \in Holders
              /\ DOMAIN expenses[e].shares \in SUBSET Users
              /\ IsFiniteSet(DOMAIN expenses[e].shares)
              /\ \A u \in DOMAIN expenses[e].shares : expenses[e].shares[u] \in Nat
         /\ \A p \in ConfirmedPayments :
              /\ payments[p].from \in Users /\ payments[p].to \in Users
              /\ payments[p].from # payments[p].to /\ payments[p].amount \in Nat
         /\ \A c \in ConfirmedCharges :
              /\ charges[c].user \in Users /\ charges[c].program \in Programs
              /\ charges[c].user # charges[c].program /\ charges[c].amount \in Nat
<1>1. TypeOK /\ RowsNameMembers /\ ChargesNamePrograms /\ FiniteTables
  BY DEF MoneyInv, AccountsInv
<1>2. /\ CountedExpenses \subseteq ExpenseRows /\ ConfirmedPayments \subseteq PaymentRows
      /\ ConfirmedCharges \subseteq ChargeRows
  BY DEF CountedExpenses, ConfirmedPayments, ConfirmedCharges, ExpenseRows, PaymentRows,
         ChargeRows, ExpenseExists, PaymentExists, ChargeExists
<1>3. /\ IsFiniteSet(CountedExpenses) /\ IsFiniteSet(ConfirmedPayments)
      /\ IsFiniteSet(ConfirmedCharges)
  BY <1>1, <1>2, FS_Subset DEF FiniteTables
<1>4. ASSUME NEW e \in CountedExpenses
      PROVE  /\ CreditorOf(e) \in Holders
             /\ DOMAIN expenses[e].shares \in SUBSET Users
             /\ IsFiniteSet(DOMAIN expenses[e].shares)
             /\ \A u \in DOMAIN expenses[e].shares : expenses[e].shares[u] \in Nat
  <2>1. e \in ExpenseRows /\ e \in ExpenseIds
    BY <1>2 DEF CountedExpenses
  <2>2. expenses[e] \in ExpenseRow
    BY <1>1, <2>1 DEF TypeOK
  <2>3. expenses[e].program \in Programs \cup {Nobody} /\ expenses[e].shares \in Splits
    BY <2>2 DEF ExpenseRow
  <2>4. expenses[e].payer \in Users
    BY <1>1, <2>1 DEF RowsNameMembers
  <2>5. CreditorOf(e) \in Holders
    BY <2>3, <2>4 DEF CreditorOf, Holders
  <2>6. /\ DOMAIN expenses[e].shares \in SUBSET Users
        /\ expenses[e].shares \in [DOMAIN expenses[e].shares -> Nat]
    BY <2>3, SplitsAssumption
  <2>7. IsFiniteSet(DOMAIN expenses[e].shares)
    BY <2>6, UsersAssumption, FS_Subset
  <2> QED BY <2>5, <2>6, <2>7
<1>5. ASSUME NEW p \in ConfirmedPayments
      PROVE  /\ payments[p].from \in Users /\ payments[p].to \in Users
             /\ payments[p].from # payments[p].to /\ payments[p].amount \in Nat
  <2>1. p \in PaymentRows /\ p \in PaymentIds
    BY <1>2 DEF ConfirmedPayments
  <2>2. payments[p] \in PaymentRow
    BY <1>1, <2>1 DEF TypeOK
  <2>3. payments[p].amount \in Nat
    BY <2>2, AmountsAssumption DEF PaymentRow
  <2> QED BY <1>1, <2>1, <2>3 DEF RowsNameMembers
<1>6. ASSUME NEW c \in ConfirmedCharges
      PROVE  /\ charges[c].user \in Users /\ charges[c].program \in Programs
             /\ charges[c].user # charges[c].program /\ charges[c].amount \in Nat
  <2>1. c \in ChargeRows /\ c \in ChargeIds /\ ChargeExists(c)
    BY <1>2 DEF ConfirmedCharges, ChargeRows
  <2>2. charges[c] \in ChargeRow
    BY <1>1, <2>1 DEF TypeOK
  <2>3. charges[c].amount \in Nat
    BY <2>2, AmountsAssumption DEF ChargeRow
  <2>4. charges[c].program \in Programs
    BY <1>1, <2>1 DEF ChargesNamePrograms
  <2>5. charges[c].user \in programs[charges[c].program].members
    BY <1>1, <2>1 DEF RowsNameMembers
  <2>6. programs[charges[c].program].members \in SUBSET Users
    BY <1>1, <2>4, TeamsAssumption DEF TypeOK, ProgramRow
  <2> QED BY <2>3, <2>4, <2>5, <2>6, IdsAssumption
<1> QED BY <1>3, <1>4, <1>5, <1>6

\* The three folds of build_ledger add up their rows.
LEMMA ExpensesAdd ==
  ASSUME MoneyInv, NEW pw \in Tables(Pairs)
  PROVE  /\ WithExpenses(pw) \in Tables(Pairs)
         /\ \A p \in Pairs :
              LET f == EffectAt(CountedExpenses, ExpenseEffect, p)
              IN  /\ IsSummable(f, CountedExpenses)
                  /\ WithExpenses(pw)[p] = pw[p] + SumFunctionOnSet(f, CountedExpenses)
<1> DEFINE S == CountedExpenses
           op(x, l) == AddShares(l, CreditorOf(x), expenses[x].shares)
           step == Adding(Pairs, S, ExpenseEffect)
           Def(g) == [s \in SUBSET S |->
                        IF s = {} THEN pw
                        ELSE op(CHOOSE x \in s : TRUE, g[s \ {CHOOSE x \in s : TRUE}])]
           it == CHOOSE g : g = Def(g)
<1>1. IsFiniteSet(S)
  BY CountedRows
<1>2. \A x \in S : ExpenseEffect[x] \in Tables(Pairs)
  <2> SUFFICES ASSUME NEW x \in S PROVE ExpenseEffect[x] \in Tables(Pairs)
    OBVIOUS
  <2>1. \A u \in DOMAIN expenses[x].shares : expenses[x].shares[u] \in Int
    BY CountedRows
  <2> QED BY <2>1 DEF ExpenseEffect, Tables
<1>3. ASSUME NEW x \in S, NEW l \in Tables(Pairs) PROVE op(x, l) = step[x][l]
  <2>1. step[x][l] = [p \in Pairs |-> l[p] + ExpenseEffect[x][p]]
    BY DEF Adding
  <2>2. op(x, l) \in Tables(Pairs) /\ \A p \in Pairs : op(x, l)[p] = l[p] + ExpenseEffect[x][p]
    <3> DEFINE creditor == CreditorOf(x)
               shares == expenses[x].shares
    <3>1. /\ creditor \in Holders /\ DOMAIN shares \in SUBSET Holders
          /\ IsFiniteSet(DOMAIN shares) /\ \A u \in DOMAIN shares : shares[u] \in Nat
      BY CountedRows DEF Holders
    <3>2. l \in Tables(Holders \X Holders)
      BY DEF Pairs
    <3>3. \A p \in Pairs : ExpenseEffect[x][p]
             = IF p[2] = creditor /\ p[1] # p[2] /\ p[1] \in DOMAIN shares THEN shares[p[1]] ELSE 0
      BY DEF ExpenseEffect
    <3> HIDE DEF creditor, shares
    <3>4. /\ AddShares(l, creditor, shares) \in Tables(Holders \X Holders)
          /\ AddShares(l, creditor, shares) = SharesAdded(l, creditor, shares)
      BY <3>1, <3>2, AddSharesAdds
    <3>5. op(x, l) = AddShares(l, creditor, shares)
      BY DEF creditor, shares
    <3> HIDE DEF op
    <3>6. op(x, l) \in Tables(Pairs)
      BY <3>4, <3>5 DEF Pairs
    <3>7. ASSUME NEW p \in Pairs PROVE op(x, l)[p] = l[p] + ExpenseEffect[x][p]
      <4>1. ExpenseEffect[x][p] = ShareAt(shares, creditor, p)
        BY <3>3 DEF ShareAt
      <4>2. p \in DOMAIN l
        BY DEF Tables
      <4> QED BY <3>4, <3>5, <4>1, <4>2 DEF SharesAdded
    <3> QED BY <3>6, <3>7
  <2>3. op(x, l) = [p \in Pairs |-> op(x, l)[p]]
    BY <2>2 DEF Tables
  <2> HIDE DEF op, step
  <2>4. [p \in Pairs |-> op(x, l)[p]] = [p \in Pairs |-> l[p] + ExpenseEffect[x][p]]
    BY <2>2
  <2> QED BY <2>1, <2>3, <2>4
<1>4. WithExpenses(pw) = it[S]
  BY DEF WithExpenses, FoldSet, MapThenFoldSet
<1> HIDE DEF op, S
<1>5. step \in [S -> [Tables(Pairs) -> Tables(Pairs)]]
  BY <1>2, AddingTypes
<1>6. PICK jt : IsFold(jt, S, Tables(Pairs), pw, step)
  <2>1. S \in SUBSET S
    OBVIOUS
  <2> HIDE DEF step
  <2> QED BY <1>1, <1>5, <2>1, FoldsExist
<1>7. jt = Def(jt)
  <2>1. ASSUME NEW s \in SUBSET S, s # {}
        PROVE  jt[s] = op(Pick(s), jt[s \ {Pick(s)}])
    <3>1. Pick(s) \in S /\ s \ {Pick(s)} \in SUBSET S
      BY <2>1, PickIn
    <3>2. jt[s] = step[Pick(s)][jt[s \ {Pick(s)}]] /\ jt[s \ {Pick(s)}] \in Tables(Pairs)
      BY <1>6, <2>1, <3>1 DEF IsFold
    <3> QED BY <1>3, <3>1, <3>2
  <2>2. jt = [s \in SUBSET S |-> jt[s]] /\ jt[{}] = pw
    BY <1>6 DEF IsFold
  <2> QED BY <2>1, <2>2 DEF Pick
<1>8. it = Def(it)
  BY <1>7
<1>9. IsFold(it, S, Tables(Pairs), pw, step)
  <2> HIDE DEF it
  <2>1. it = [s \in SUBSET S |-> it[s]] /\ it[{}] = pw
    BY <1>8
  <2>2. ASSUME NEW s \in SUBSET S, s # {}, it[s \ {Pick(s)}] \in Tables(Pairs)
        PROVE  it[s] = step[Pick(s)][it[s \ {Pick(s)}]]
    <3>1. it[s] = op(Pick(s), it[s \ {Pick(s)}])
      BY <1>8, <2>2 DEF Pick
    <3>2. Pick(s) \in S
      BY <2>2, PickIn
    <3> QED BY <1>3, <2>2, <3>1, <3>2
  <2> HIDE DEF step
  <2> QED BY <1>1, <1>5, <2>1, <2>2, FoldStays
<1> HIDE DEF it
<1>10. it[S] \in Tables(Pairs)
  BY <1>9 DEF IsFold
<1>11. ASSUME NEW p \in Pairs
       PROVE  /\ IsSummable(EffectAt(S, ExpenseEffect, p), S)
              /\ it[S][p] = pw[p] + SumFunctionOnSet(EffectAt(S, ExpenseEffect, p), S)
  BY <1>1, <1>2, <1>9, AddingAdds
<1> QED BY <1>4, <1>10, <1>11 DEF S

LEMMA PaymentsAdd ==
  ASSUME MoneyInv, NEW pw \in Tables(Pairs)
  PROVE  /\ WithPayments(pw) \in Tables(Pairs)
         /\ \A p \in Pairs :
              LET f == EffectAt(ConfirmedPayments, PaymentEffect, p)
              IN  /\ IsSummable(f, ConfirmedPayments)
                  /\ WithPayments(pw)[p] = pw[p] + SumFunctionOnSet(f, ConfirmedPayments)
<1> DEFINE S == ConfirmedPayments
           op(x, l) == AddPayment(l, payments[x].from, payments[x].to, payments[x].amount)
           step == Adding(Pairs, S, PaymentEffect)
           Def(g) == [s \in SUBSET S |->
                        IF s = {} THEN pw
                        ELSE op(CHOOSE x \in s : TRUE, g[s \ {CHOOSE x \in s : TRUE}])]
           it == CHOOSE g : g = Def(g)
<1>1. IsFiniteSet(S)
  BY CountedRows
<1>2. \A x \in S : PaymentEffect[x] \in Tables(Pairs)
  <2> SUFFICES ASSUME NEW x \in S PROVE PaymentEffect[x] \in Tables(Pairs)
    OBVIOUS
  <2>1. payments[x].amount \in Int
    BY CountedRows
  <2> QED BY <2>1 DEF PaymentEffect, Tables
<1>3. ASSUME NEW x \in S, NEW l \in Tables(Pairs) PROVE op(x, l) = step[x][l]
  <2>1. step[x][l] = [p \in Pairs |-> l[p] + PaymentEffect[x][p]]
    BY DEF Adding
  <2>2. op(x, l) \in Tables(Pairs) /\ \A p \in Pairs : op(x, l)[p] = l[p] + PaymentEffect[x][p]
    <3> DEFINE a == payments[x].from
               b == payments[x].to
               amount == payments[x].amount
    <3>1. a \in Holders /\ b \in Holders /\ a # b /\ amount \in Nat
      BY CountedRows DEF Holders
    <3>2. l \in Tables(Holders \X Holders)
      BY DEF Pairs
    <3>3. \A p \in Pairs : PaymentEffect[x][p] = IF p = <<a, b>> THEN -amount ELSE 0
      BY DEF PaymentEffect
    <3> HIDE DEF a, b, amount
    <3>4. /\ AddPayment(l, a, b, amount) \in Tables(Holders \X Holders)
          /\ \A p \in Holders \X Holders : AddPayment(l, a, b, amount)[p]
               = l[p] + (IF p = <<a, b>> /\ a # b THEN -amount ELSE 0)
      BY <3>1, <3>2, AddPaymentAdds
    <3>5. op(x, l) = AddPayment(l, a, b, amount)
      BY DEF a, b, amount
    <3> HIDE DEF op
    <3>6. op(x, l) \in Tables(Pairs)
      BY <3>4, <3>5 DEF Pairs
    <3>7. ASSUME NEW p \in Pairs PROVE op(x, l)[p] = l[p] + PaymentEffect[x][p]
      BY <3>1, <3>3, <3>4, <3>5 DEF Pairs
    <3> QED BY <3>6, <3>7
  <2>3. op(x, l) = [p \in Pairs |-> op(x, l)[p]]
    BY <2>2 DEF Tables
  <2> HIDE DEF op, step
  <2>4. [p \in Pairs |-> op(x, l)[p]] = [p \in Pairs |-> l[p] + PaymentEffect[x][p]]
    BY <2>2
  <2> QED BY <2>1, <2>3, <2>4
<1>4. WithPayments(pw) = it[S]
  BY DEF WithPayments, FoldSet, MapThenFoldSet
<1> HIDE DEF op, S
<1>5. step \in [S -> [Tables(Pairs) -> Tables(Pairs)]]
  BY <1>2, AddingTypes
<1>6. PICK jt : IsFold(jt, S, Tables(Pairs), pw, step)
  <2>1. S \in SUBSET S
    OBVIOUS
  <2> HIDE DEF step
  <2> QED BY <1>1, <1>5, <2>1, FoldsExist
<1>7. jt = Def(jt)
  <2>1. ASSUME NEW s \in SUBSET S, s # {}
        PROVE  jt[s] = op(Pick(s), jt[s \ {Pick(s)}])
    <3>1. Pick(s) \in S /\ s \ {Pick(s)} \in SUBSET S
      BY <2>1, PickIn
    <3>2. jt[s] = step[Pick(s)][jt[s \ {Pick(s)}]] /\ jt[s \ {Pick(s)}] \in Tables(Pairs)
      BY <1>6, <2>1, <3>1 DEF IsFold
    <3> QED BY <1>3, <3>1, <3>2
  <2>2. jt = [s \in SUBSET S |-> jt[s]] /\ jt[{}] = pw
    BY <1>6 DEF IsFold
  <2> QED BY <2>1, <2>2 DEF Pick
<1>8. it = Def(it)
  BY <1>7
<1>9. IsFold(it, S, Tables(Pairs), pw, step)
  <2> HIDE DEF it
  <2>1. it = [s \in SUBSET S |-> it[s]] /\ it[{}] = pw
    BY <1>8
  <2>2. ASSUME NEW s \in SUBSET S, s # {}, it[s \ {Pick(s)}] \in Tables(Pairs)
        PROVE  it[s] = step[Pick(s)][it[s \ {Pick(s)}]]
    <3>1. it[s] = op(Pick(s), it[s \ {Pick(s)}])
      BY <1>8, <2>2 DEF Pick
    <3>2. Pick(s) \in S
      BY <2>2, PickIn
    <3> QED BY <1>3, <2>2, <3>1, <3>2
  <2> HIDE DEF step
  <2> QED BY <1>1, <1>5, <2>1, <2>2, FoldStays
<1> HIDE DEF it
<1>10. it[S] \in Tables(Pairs)
  BY <1>9 DEF IsFold
<1>11. ASSUME NEW p \in Pairs
       PROVE  /\ IsSummable(EffectAt(S, PaymentEffect, p), S)
              /\ it[S][p] = pw[p] + SumFunctionOnSet(EffectAt(S, PaymentEffect, p), S)
  BY <1>1, <1>2, <1>9, AddingAdds
<1> QED BY <1>4, <1>10, <1>11 DEF S

LEMMA ChargesAdd ==
  ASSUME MoneyInv, NEW pw \in Tables(Pairs)
  PROVE  /\ WithCharges(pw) \in Tables(Pairs)
         /\ \A p \in Pairs :
              LET f == EffectAt(ConfirmedCharges, ChargeEffect, p)
              IN  /\ IsSummable(f, ConfirmedCharges)
                  /\ WithCharges(pw)[p] = pw[p] + SumFunctionOnSet(f, ConfirmedCharges)
<1> DEFINE S == ConfirmedCharges
           op(x, l) == AddPayment(l, charges[x].user, charges[x].program, charges[x].amount)
           step == Adding(Pairs, S, ChargeEffect)
           Def(g) == [s \in SUBSET S |->
                        IF s = {} THEN pw
                        ELSE op(CHOOSE x \in s : TRUE, g[s \ {CHOOSE x \in s : TRUE}])]
           it == CHOOSE g : g = Def(g)
<1>1. IsFiniteSet(S)
  BY CountedRows
<1>2. \A x \in S : ChargeEffect[x] \in Tables(Pairs)
  <2> SUFFICES ASSUME NEW x \in S PROVE ChargeEffect[x] \in Tables(Pairs)
    OBVIOUS
  <2>1. charges[x].amount \in Int
    BY CountedRows
  <2> QED BY <2>1 DEF ChargeEffect, Tables
<1>3. ASSUME NEW x \in S, NEW l \in Tables(Pairs) PROVE op(x, l) = step[x][l]
  <2>1. step[x][l] = [p \in Pairs |-> l[p] + ChargeEffect[x][p]]
    BY DEF Adding
  <2>2. op(x, l) \in Tables(Pairs) /\ \A p \in Pairs : op(x, l)[p] = l[p] + ChargeEffect[x][p]
    <3> DEFINE a == charges[x].user
               b == charges[x].program
               amount == charges[x].amount
    <3>1. a \in Holders /\ b \in Holders /\ a # b /\ amount \in Nat
      BY CountedRows DEF Holders
    <3>2. l \in Tables(Holders \X Holders)
      BY DEF Pairs
    <3>3. \A p \in Pairs : ChargeEffect[x][p] = IF p = <<a, b>> THEN -amount ELSE 0
      BY DEF ChargeEffect
    <3> HIDE DEF a, b, amount
    <3>4. /\ AddPayment(l, a, b, amount) \in Tables(Holders \X Holders)
          /\ \A p \in Holders \X Holders : AddPayment(l, a, b, amount)[p]
               = l[p] + (IF p = <<a, b>> /\ a # b THEN -amount ELSE 0)
      BY <3>1, <3>2, AddPaymentAdds
    <3>5. op(x, l) = AddPayment(l, a, b, amount)
      BY DEF a, b, amount
    <3> HIDE DEF op
    <3>6. op(x, l) \in Tables(Pairs)
      BY <3>4, <3>5 DEF Pairs
    <3>7. ASSUME NEW p \in Pairs PROVE op(x, l)[p] = l[p] + ChargeEffect[x][p]
      BY <3>1, <3>3, <3>4, <3>5 DEF Pairs
    <3> QED BY <3>6, <3>7
  <2>3. op(x, l) = [p \in Pairs |-> op(x, l)[p]]
    BY <2>2 DEF Tables
  <2> HIDE DEF op, step
  <2>4. [p \in Pairs |-> op(x, l)[p]] = [p \in Pairs |-> l[p] + ChargeEffect[x][p]]
    BY <2>2
  <2> QED BY <2>1, <2>3, <2>4
<1>4. WithCharges(pw) = it[S]
  BY DEF WithCharges, FoldSet, MapThenFoldSet
<1> HIDE DEF op, S
<1>5. step \in [S -> [Tables(Pairs) -> Tables(Pairs)]]
  BY <1>2, AddingTypes
<1>6. PICK jt : IsFold(jt, S, Tables(Pairs), pw, step)
  <2>1. S \in SUBSET S
    OBVIOUS
  <2> HIDE DEF step
  <2> QED BY <1>1, <1>5, <2>1, FoldsExist
<1>7. jt = Def(jt)
  <2>1. ASSUME NEW s \in SUBSET S, s # {}
        PROVE  jt[s] = op(Pick(s), jt[s \ {Pick(s)}])
    <3>1. Pick(s) \in S /\ s \ {Pick(s)} \in SUBSET S
      BY <2>1, PickIn
    <3>2. jt[s] = step[Pick(s)][jt[s \ {Pick(s)}]] /\ jt[s \ {Pick(s)}] \in Tables(Pairs)
      BY <1>6, <2>1, <3>1 DEF IsFold
    <3> QED BY <1>3, <3>1, <3>2
  <2>2. jt = [s \in SUBSET S |-> jt[s]] /\ jt[{}] = pw
    BY <1>6 DEF IsFold
  <2> QED BY <2>1, <2>2 DEF Pick
<1>8. it = Def(it)
  BY <1>7
<1>9. IsFold(it, S, Tables(Pairs), pw, step)
  <2> HIDE DEF it
  <2>1. it = [s \in SUBSET S |-> it[s]] /\ it[{}] = pw
    BY <1>8
  <2>2. ASSUME NEW s \in SUBSET S, s # {}, it[s \ {Pick(s)}] \in Tables(Pairs)
        PROVE  it[s] = step[Pick(s)][it[s \ {Pick(s)}]]
    <3>1. it[s] = op(Pick(s), it[s \ {Pick(s)}])
      BY <1>8, <2>2 DEF Pick
    <3>2. Pick(s) \in S
      BY <2>2, PickIn
    <3> QED BY <1>3, <2>2, <3>1, <3>2
  <2> HIDE DEF step
  <2> QED BY <1>1, <1>5, <2>1, <2>2, FoldStays
<1> HIDE DEF it
<1>10. it[S] \in Tables(Pairs)
  BY <1>9 DEF IsFold
<1>11. ASSUME NEW p \in Pairs
       PROVE  /\ IsSummable(EffectAt(S, ChargeEffect, p), S)
              /\ it[S][p] = pw[p] + SumFunctionOnSet(EffectAt(S, ChargeEffect, p), S)
  BY <1>1, <1>2, <1>9, AddingAdds
<1> QED BY <1>4, <1>10, <1>11 DEF S

LEMMA SumZero ==
  ASSUME NEW f, NEW S, IsFiniteSet(S), \A x \in S : f[x] = 0
  PROVE  IsSummable(f, S) /\ SumFunctionOnSet(f, S) = 0
<1>1. IsSummable(f, S) /\ SumFunctionOnSet(f, S) = 0 * Cardinality(S)
  BY SumConstant
<1> QED BY <1>1, FS_CardinalityType

\* An entry of the ledger is what the rows that count add to it.
LEMMA LedgerEntries ==
  ASSUME MoneyInv
  PROVE  /\ BuildLedger \in Tables(Pairs)
         /\ \A p \in Pairs :
              LET e == SumFunctionOnSet(EffectAt(CountedExpenses, ExpenseEffect, p), CountedExpenses)
                  r == SumFunctionOnSet(EffectAt(ConfirmedPayments, PaymentEffect, p), ConfirmedPayments)
                  c == SumFunctionOnSet(EffectAt(ConfirmedCharges, ChargeEffect, p), ConfirmedCharges)
              IN  e \in Int /\ r \in Int /\ c \in Int /\ BuildLedger[p] = e + r + c
<1> DEFINE empty == EmptyLedger(Users \cup Programs)
           owed == WithExpenses(empty)
           paid == WithPayments(owed)
           all  == WithCharges(paid)
<1>1. empty \in Tables(Pairs) /\ \A p \in Pairs : empty[p] = 0
  BY DEF EmptyLedger, Tables, Pairs, Holders
<1> HIDE DEF empty
<1>2. owed \in Tables(Pairs)
  BY <1>1, ExpensesAdd
<1>3. paid \in Tables(Pairs)
  <2> HIDE DEF owed
  <2> QED BY <1>2, PaymentsAdd
<1>4. all \in Tables(Pairs)
  <2> HIDE DEF paid
  <2> QED BY <1>3, ChargesAdd
<1>5. BuildLedger = all
  BY DEF BuildLedger, WithExpenses, WithPayments, WithCharges, empty
<1>6. ASSUME NEW p \in Pairs
      PROVE  LET e == SumFunctionOnSet(EffectAt(CountedExpenses, ExpenseEffect, p), CountedExpenses)
                 r == SumFunctionOnSet(EffectAt(ConfirmedPayments, PaymentEffect, p), ConfirmedPayments)
                 c == SumFunctionOnSet(EffectAt(ConfirmedCharges, ChargeEffect, p), ConfirmedCharges)
             IN  e \in Int /\ r \in Int /\ c \in Int /\ all[p] = e + r + c
  <2> DEFINE fe == EffectAt(CountedExpenses, ExpenseEffect, p)
             fr == EffectAt(ConfirmedPayments, PaymentEffect, p)
             fc == EffectAt(ConfirmedCharges, ChargeEffect, p)
  <2>1. IsSummable(fe, CountedExpenses)
        /\ owed[p] = empty[p] + SumFunctionOnSet(fe, CountedExpenses)
    BY <1>1, ExpensesAdd
  <2>2. IsSummable(fr, ConfirmedPayments)
        /\ paid[p] = owed[p] + SumFunctionOnSet(fr, ConfirmedPayments)
    <3> HIDE DEF owed
    <3> QED BY <1>2, PaymentsAdd
  <2>3. IsSummable(fc, ConfirmedCharges)
        /\ all[p] = paid[p] + SumFunctionOnSet(fc, ConfirmedCharges)
    <3> HIDE DEF paid
    <3> QED BY <1>3, ChargesAdd
  <2> HIDE DEF fe, fr, fc, owed, paid, all
  <2>4. /\ SumFunctionOnSet(fe, CountedExpenses) \in Int
        /\ SumFunctionOnSet(fr, ConfirmedPayments) \in Int
        /\ SumFunctionOnSet(fc, ConfirmedCharges) \in Int
    BY <2>1, <2>2, <2>3, SumInt
  <2>5. empty[p] = 0
    BY <1>1
  <2> QED BY <2>1, <2>2, <2>3, <2>4, <2>5 DEF fe, fr, fc
<1> HIDE DEF all
<1> QED BY <1>4, <1>5, <1>6

\* What u has put into g and what u has used of it, row by row.
Put(g, u)  == [c \in ChargesOf(g, u) |-> charges[c].amount]
Used(g, u) == [e \in ExpensesWith(g, u) |-> expenses[e].shares[u]]

LEMMA ProgramRows ==
  ASSUME MoneyInv, NEW g \in Programs
  PROVE  /\ ProgramExpenses(g) \in SUBSET CountedExpenses
         /\ ProgramCharges(g) \in SUBSET ConfirmedCharges
         /\ IsFiniteSet(ProgramExpenses(g)) /\ IsFiniteSet(ProgramCharges(g))
         /\ \A u \in Users :
              /\ IsSummable(Put(g, u), ChargesOf(g, u))
              /\ IsSummable(Used(g, u), ExpensesWith(g, u))
              /\ ProgramNet(g, u) = SumFunctionOnSet(Put(g, u), ChargesOf(g, u))
                                  - SumFunctionOnSet(Used(g, u), ExpensesWith(g, u))
<1>1. ProgramExpenses(g) \in SUBSET CountedExpenses /\ ProgramCharges(g) \in SUBSET ConfirmedCharges
  BY DEF ProgramExpenses, CountedExpenses, ProgramCharges
<1>2. IsFiniteSet(ProgramExpenses(g)) /\ IsFiniteSet(ProgramCharges(g))
  BY <1>1, CountedRows, FS_Subset
<1>3. ASSUME NEW u \in Users
      PROVE  /\ IsSummable(Put(g, u), ChargesOf(g, u))
             /\ IsSummable(Used(g, u), ExpensesWith(g, u))
             /\ ProgramNet(g, u) = SumFunctionOnSet(Put(g, u), ChargesOf(g, u))
                                 - SumFunctionOnSet(Used(g, u), ExpensesWith(g, u))
  <2>1. ChargesOf(g, u) \in SUBSET ProgramCharges(g)
        /\ ExpensesWith(g, u) \in SUBSET ProgramExpenses(g)
    BY DEF ChargesOf, ExpensesWith
  <2>2. IsFiniteSet(ChargesOf(g, u)) /\ IsFiniteSet(ExpensesWith(g, u))
    BY <1>2, <2>1, FS_Subset
  <2>3. \A c \in ChargesOf(g, u) : Put(g, u)[c] \in Int
    BY <1>1, <2>1, CountedRows DEF Put
  <2>4. \A e \in ExpensesWith(g, u) : Used(g, u)[e] \in Int
    <3> SUFFICES ASSUME NEW e \in ExpensesWith(g, u) PROVE expenses[e].shares[u] \in Int
      BY DEF Used
    <3>1. u \in DOMAIN expenses[e].shares /\ e \in CountedExpenses
      BY <1>1, <2>1 DEF ExpensesWith
    <3> QED BY <3>1, CountedRows
  <2>5. DOMAIN Put(g, u) = ChargesOf(g, u) /\ DOMAIN Used(g, u) = ExpensesWith(g, u)
    BY DEF Put, Used
  <2>6. ProgramNet(g, u) = SumFunction(Put(g, u)) - SumFunction(Used(g, u))
    BY DEF ProgramNet, Put, Used
  <2>7. /\ SumFunction(Put(g, u)) = SumFunctionOnSet(Put(g, u), ChargesOf(g, u))
        /\ SumFunction(Used(g, u)) = SumFunctionOnSet(Used(g, u), ExpensesWith(g, u))
    BY <2>5, Zenon DEF SumFunction
  <2> QED BY <2>2, <2>3, <2>4, <2>6, <2>7 DEF IsSummable
<1> QED BY <1>1, <1>2, <1>3

\* A program owes nobody but by the charges, and is owed by the expenses.
LEMMA ProgramColumn ==
  ASSUME MoneyInv, NEW g \in Programs, NEW u \in Users
  PROVE  NetBetween(BuildLedger, g, u) = ProgramNet(g, u)
<1> DEFINE fe(p) == EffectAt(CountedExpenses, ExpenseEffect, p)
           fr(p) == EffectAt(ConfirmedPayments, PaymentEffect, p)
           fc(p) == EffectAt(ConfirmedCharges, ChargeEffect, p)
           out == <<g, u>>
           in  == <<u, g>>
<1>1. /\ u # g /\ g \notin Users /\ u \notin Programs /\ g # Nobody
      /\ out \in Pairs /\ in \in Pairs
  BY IdsAssumption DEF Pairs, Holders
<1>2. /\ \A e \in CountedExpenses : \A p \in Pairs : fe(p)[e] =
           IF p[2] = CreditorOf(e) /\ p[1] # p[2] /\ p[1] \in DOMAIN expenses[e].shares
           THEN expenses[e].shares[p[1]] ELSE 0
      /\ \A r \in ConfirmedPayments : \A p \in Pairs : fr(p)[r] =
           IF p = <<payments[r].from, payments[r].to>> THEN -payments[r].amount ELSE 0
      /\ \A c \in ConfirmedCharges : \A p \in Pairs : fc(p)[c] =
           IF p = <<charges[c].user, charges[c].program>> THEN -charges[c].amount ELSE 0
  BY DEF EffectAt, ExpenseEffect, PaymentEffect, ChargeEffect
<1>3. /\ SumFunctionOnSet(fe(out), CountedExpenses) = 0
      /\ SumFunctionOnSet(fr(out), ConfirmedPayments) = 0
      /\ SumFunctionOnSet(fc(out), ConfirmedCharges) = 0
      /\ SumFunctionOnSet(fr(in), ConfirmedPayments) = 0
  <2>1. \A e \in CountedExpenses : fe(out)[e] = 0
    BY <1>1, <1>2, CountedRows
  <2>2. \A r \in ConfirmedPayments : fr(out)[r] = 0 /\ fr(in)[r] = 0
    BY <1>1, <1>2, CountedRows
  <2>3. \A c \in ConfirmedCharges : fc(out)[c] = 0
    BY <1>1, <1>2, CountedRows
  <2> HIDE DEF fe, fr, fc
  <2> QED BY <2>1, <2>2, <2>3, CountedRows, SumZero
<1>4. SumFunctionOnSet(fe(in), CountedExpenses)
        = SumFunctionOnSet(Used(g, u), ExpensesWith(g, u))
  <2> DEFINE f == fe(in)
             T == ExpensesWith(g, u)
  <2>1. T \in SUBSET CountedExpenses
    BY ProgramRows DEF ExpensesWith
  <2>2. \A e \in CountedExpenses :
          f[e] = IF g = CreditorOf(e) /\ u \in DOMAIN expenses[e].shares
                 THEN expenses[e].shares[u] ELSE 0
    BY <1>1, <1>2
  <2> HIDE DEF f
  <2>3. ASSUME NEW e \in T PROVE f[e] = Used(g, u)[e]
    <3>1. CreditorOf(e) = g /\ u \in DOMAIN expenses[e].shares
      BY <1>1 DEF ExpensesWith, ProgramExpenses, CreditorOf
    <3>2. f[e] = expenses[e].shares[u]
      BY <2>1, <2>2, <3>1
    <3> QED BY <3>2 DEF Used
  <2>4. ASSUME NEW e \in CountedExpenses \ T PROVE f[e] = 0
    <3> SUFFICES ASSUME g = CreditorOf(e), u \in DOMAIN expenses[e].shares PROVE FALSE
      BY <2>2
    <3>1. expenses[e].program = g
      <4>1. e \in ExpenseRows /\ RowsNameMembers
        BY DEF CountedExpenses, ExpenseRows, ExpenseExists, MoneyInv, AccountsInv
      <4>2. expenses[e].payer \in Users
        BY <4>1 DEF RowsNameMembers
      <4> QED BY <1>1, <4>2 DEF CreditorOf
    <3>2. expenses[e].approval # "null"
      BY <1>1, <3>1 DEF MoneyInv, LegacyOutsidePrograms, CountedExpenses
    <3>3. e \in ExpensesWith(g, u)
      BY <3>1, <3>2 DEF CountedExpenses, ProgramExpenses, ExpensesWith
    <3> QED BY <3>3
  <2>5. IsSummable(Used(g, u), T)
    BY ProgramRows
  <2> HIDE DEF T
  <2>6. IsSummable(f, T) /\ SumFunctionOnSet(f, T) = SumFunctionOnSet(Used(g, u), T)
    BY <2>3, <2>5, SumEqual
  <2>7. \A e \in CountedExpenses : f[e] \in Int
    BY <2>4, <2>6 DEF IsSummable
  <2>8. IsSummable(f, CountedExpenses)
    BY <2>7, CountedRows DEF IsSummable
  <2>9. SumFunctionOnSet(f, CountedExpenses) = SumFunctionOnSet(f, T)
    BY <2>1, <2>4, <2>8, SumSupport
  <2> QED BY <2>6, <2>9 DEF f, T
<1>5. SumFunctionOnSet(fc(in), ConfirmedCharges)
        = -SumFunctionOnSet(Put(g, u), ChargesOf(g, u))
  <2> DEFINE f == fc(in)
             T == ChargesOf(g, u)
             minus == -1
  <2>1. T \in SUBSET ConfirmedCharges
    BY ProgramRows DEF ChargesOf
  <2>2. \A c \in ConfirmedCharges :
          f[c] = IF charges[c].user = u /\ charges[c].program = g THEN -charges[c].amount ELSE 0
    BY <1>1, <1>2
  <2> HIDE DEF f
  <2>3. ASSUME NEW c \in T PROVE f[c] = (-1) * Put(g, u)[c]
    <3>1. /\ c \in ConfirmedCharges /\ charges[c].user = u /\ charges[c].program = g
          /\ Put(g, u)[c] = charges[c].amount
      BY <2>1 DEF ChargesOf, ProgramCharges, Put
    <3>2. charges[c].amount \in Nat
      BY <3>1, CountedRows
    <3> QED BY <2>2, <3>1, <3>2
  <2>4. ASSUME NEW c \in ConfirmedCharges \ T PROVE f[c] = 0
    BY <2>2 DEF ChargesOf, ProgramCharges
  <2>5. IsSummable(Put(g, u), T)
    BY ProgramRows
  <2>6. minus \in Int /\ \A c \in T : f[c] = minus * Put(g, u)[c]
    BY <2>3
  <2> HIDE DEF T, minus
  <2>7. IsSummable(f, T) /\ SumFunctionOnSet(f, T) = minus * SumFunctionOnSet(Put(g, u), T)
    BY <2>5, <2>6, SumScaled
  <2>8. \A c \in ConfirmedCharges : f[c] \in Int
    BY <2>4, <2>7 DEF IsSummable
  <2>9. IsSummable(f, ConfirmedCharges)
    BY <2>8, CountedRows DEF IsSummable
  <2>10. SumFunctionOnSet(f, ConfirmedCharges) = SumFunctionOnSet(f, T)
    BY <2>1, <2>4, <2>9, SumSupport
  <2>11. SumFunctionOnSet(Put(g, u), T) \in Int
    BY <2>5, SumInt
  <2>12. SumFunctionOnSet(f, ConfirmedCharges) = -SumFunctionOnSet(Put(g, u), T)
    BY <2>7, <2>10, <2>11 DEF minus
  <2> QED BY <2>12 DEF f, T
<1>6. BuildLedger[out] = 0 + 0 + 0
  BY <1>1, <1>3, LedgerEntries
<1>7. BuildLedger[in] = SumFunctionOnSet(Used(g, u), ExpensesWith(g, u)) + 0
                        + (-SumFunctionOnSet(Put(g, u), ChargesOf(g, u)))
  <2> DEFINE e == SumFunctionOnSet(fe(in), CountedExpenses)
             r == SumFunctionOnSet(fr(in), ConfirmedPayments)
             c == SumFunctionOnSet(fc(in), ConfirmedCharges)
  <2>1. BuildLedger[in] = e + r + c
    BY <1>1, LedgerEntries
  <2>2. r = 0
    BY <1>3
  <2> HIDE DEF e, r, c
  <2>3. e = SumFunctionOnSet(Used(g, u), ExpensesWith(g, u))
    BY <1>4 DEF e
  <2>4. c = -SumFunctionOnSet(Put(g, u), ChargesOf(g, u))
    BY <1>5 DEF c
  <2> QED BY <2>1, <2>2, <2>3, <2>4
<1>8. NetBetween(BuildLedger, g, u) = BuildLedger[out] - BuildLedger[in]
  BY DEF NetBetween
<1> DEFINE used == SumFunctionOnSet(Used(g, u), ExpensesWith(g, u))
           put  == SumFunctionOnSet(Put(g, u), ChargesOf(g, u))
<1>9. used \in Int /\ put \in Int /\ ProgramNet(g, u) = put - used
  BY ProgramRows, SumInt
<1>10. BuildLedger[in] = used + 0 + (-put)
  BY <1>7
<1> HIDE DEF used, put, out, in
<1> QED BY <1>6, <1>8, <1>9, <1>10

\* The shares of a row divide into those of the participants and the others'.
LEMMA SharesDivide ==
  ASSUME NEW shares, IsFiniteSet(DOMAIN shares), \A u \in DOMAIN shares : shares[u] \in Int,
         NEW M, IsFiniteSet(M),
         NEW line, \A u \in M : /\ u \in DOMAIN shares => line[u] = shares[u]
                                /\ u \notin DOMAIN shares => line[u] = 0
  PROVE  LET others == SumFunction(Restrict(shares, DOMAIN shares \ M))
         IN  others \in Int /\ SumFunction(shares) = SumFunctionOnSet(line, M) + others
<1> DEFINE D == DOMAIN shares
           out == Restrict(shares, D \ M)
<1>1. /\ IsSummable(shares, D)
      /\ D = (D \cap M) \cup (D \ M) /\ (D \cap M) \cap (D \ M) = {}
      /\ D \cap M \in SUBSET D /\ D \ M \in SUBSET D /\ D \cap M \in SUBSET M
  BY DEF IsSummable
<1>2. DOMAIN out = D \ M /\ \A u \in D \ M : out[u] = shares[u]
  BY DEF Restrict
<1>3. SumFunction(shares) = SumFunctionOnSet(shares, D)
  BY DEF SumFunction
<1>4. SumFunction(out) = SumFunctionOnSet(out, D \ M)
  <2> HIDE DEF D, out
  <2> QED BY <1>2 DEF SumFunction
<1>5. \A u \in M : line[u] \in Int
  OBVIOUS
<1>6. IsSummable(line, M)
  BY <1>5 DEF IsSummable
<1>7. /\ \A u \in D \cap M : line[u] = shares[u]
      /\ \A u \in M \ (D \cap M) : line[u] = 0
  OBVIOUS
<1> HIDE DEF D, out
<1>8. /\ IsSummable(shares, D \cap M) /\ IsSummable(shares, D \ M)
  BY <1>1, SummableSubset
<1>9. SumFunctionOnSet(shares, D)
        = SumFunctionOnSet(shares, D \cap M) + SumFunctionOnSet(shares, D \ M)
  <2>1. SumFunctionOnSet(shares, (D \cap M) \cup (D \ M))
          = SumFunctionOnSet(shares, D \cap M) + SumFunctionOnSet(shares, D \ M)
    BY <1>1, <1>8, SumUnion
  <2> QED BY <1>1, <2>1
<1>10. SumFunctionOnSet(line, M) = SumFunctionOnSet(line, D \cap M)
  BY <1>1, <1>6, <1>7, SumSupport
<1>11. SumFunctionOnSet(line, D \cap M) = SumFunctionOnSet(shares, D \cap M)
  BY <1>7, <1>8, SumEqual
<1>12. /\ SumFunctionOnSet(out, D \ M) = SumFunctionOnSet(shares, D \ M)
       /\ SumFunctionOnSet(out, D \ M) \in Int
  BY <1>2, <1>8, SumEqual, SumInt
<1> QED BY <1>3, <1>4, <1>9, <1>10, <1>11, <1>12 DEF D, out

\* What the participants have put in, less what they have used, is what is left
\* and what the others have used.
LEMMA ProgramTotals ==
  ASSUME MoneyInv, NEW g \in Programs
  PROVE  SumFunction(PerParticipant(g)) = Remaining(g) + UnlistedUse(g)
<1> DEFINE M == programs[g].members
           E == ProgramExpenses(g)
           C == ProgramCharges(g)
           Others(e) == Restrict(expenses[e].shares, DOMAIN expenses[e].shares \ M)
           amounts  == [c \in C |-> charges[c].amount]
           totals   == [e \in E |-> expenses[e].amount]
           unlisted == [e \in E |-> SumFunction(Others(e))]
           owner   == [c \in C |-> charges[c].user]
           part    == [u \in M |-> SumFunctionOnSet(amounts, { c \in C : owner[c] = u })]
           t       == [p \in E \X M |-> IF p[2] \in DOMAIN expenses[p[1]].shares
                                        THEN expenses[p[1]].shares[p[2]] ELSE 0]
           line(e)   == [u \in M |-> t[<<e, u>>]]
           column(u) == [e \in E |-> t[<<e, u>>]]
           row == [e \in E |-> SumFunctionOnSet(line(e), M)]
           col == [u \in M |-> SumFunctionOnSet(column(u), E)]
           net == [u \in M |-> ProgramNet(g, u)]
<1>m. M \in SUBSET Users
  BY TeamsAssumption DEF MoneyInv, AccountsInv, TypeOK, ProgramRow
<1>1. IsFiniteSet(E) /\ IsFiniteSet(C) /\ IsFiniteSet(M)
  BY <1>m, ProgramRows, UsersAssumption, FS_Subset
<1>2. /\ \A c \in C : amounts[c] \in Int /\ owner[c] \in M
      /\ \A e \in E : /\ IsFiniteSet(DOMAIN expenses[e].shares)
                      /\ \A u \in DOMAIN expenses[e].shares : expenses[e].shares[u] \in Int
                      /\ expenses[e].amount = SumFunction(expenses[e].shares)
  <2>1. ASSUME NEW c \in C PROVE amounts[c] \in Int /\ owner[c] \in M
    <3>1. c \in ChargeRows /\ charges[c].program = g /\ charges[c].amount \in Nat
      BY ProgramRows, CountedRows DEF ProgramCharges, ConfirmedCharges, ChargeRows, ChargeExists
    <3>2. charges[c].user \in M
      BY <3>1 DEF MoneyInv, AccountsInv, RowsNameMembers
    <3> QED BY <3>1, <3>2
  <2>2. ASSUME NEW e \in E
        PROVE  /\ IsFiniteSet(DOMAIN expenses[e].shares)
               /\ \A u \in DOMAIN expenses[e].shares : expenses[e].shares[u] \in Int
    <3>1. e \in CountedExpenses
      BY ProgramRows
    <3> QED BY <3>1, CountedRows
  <2>3. \A e \in E : expenses[e].amount = SumFunction(expenses[e].shares)
    BY DEF MoneyInv, AmountsAddUp, RowAddsUp, ProgramExpenses
  <2> HIDE DEF amounts, owner, E, C
  <2> QED BY <2>1, <2>2, <2>3
<1>3. /\ \A u \in M : part[u] = SumFunctionOnSet(amounts, { c \in C : owner[c] = u })
      /\ \A e \in E, u \in M : line(e)[u] = t[<<e, u>>] /\ column(u)[e] = t[<<e, u>>]
      /\ \A e \in E : row[e] = SumFunctionOnSet(line(e), M)
      /\ \A u \in M : col[u] = SumFunctionOnSet(column(u), E)
      /\ \A u \in M : net[u] = ProgramNet(g, u)
      /\ \A e \in E : totals[e] = expenses[e].amount /\ unlisted[e] = SumFunction(Others(e))
      /\ \A c \in C : amounts[c] = charges[c].amount /\ owner[c] = charges[c].user
      /\ DOMAIN amounts = C /\ DOMAIN totals = E /\ DOMAIN unlisted = E /\ DOMAIN net = M
  OBVIOUS
<1>4. IsSummable(amounts, C)
  BY <1>1, <1>2 DEF IsSummable
<1>5. IsSummable(part, M) /\ SumFunctionOnSet(part, M) = SumFunctionOnSet(amounts, C)
  <2> HIDE DEF amounts, owner, C, M
  <2> QED BY <1>1, <1>2, <1>4, SumPartition
<1>c. \A e \in E, u \in M :
         /\ u \in DOMAIN expenses[e].shares => t[<<e, u>>] = expenses[e].shares[u]
         /\ u \notin DOMAIN expenses[e].shares => t[<<e, u>>] = 0
  BY Zenon
<1>6. ASSUME NEW e \in E, NEW u \in M PROVE t[<<e, u>>] \in Int
  <2> HIDE DEF t, E, M
  <2>1. CASE u \in DOMAIN expenses[e].shares
    BY <1>2, <1>c, <2>1
  <2>2. CASE u \notin DOMAIN expenses[e].shares
    BY <1>c, <2>2
  <2> QED BY <2>1, <2>2
<1>7. IsSummable(row, E) /\ IsSummable(col, M)
      /\ SumFunctionOnSet(row, E) = SumFunctionOnSet(col, M)
  <2> HIDE DEF t, E, M
  <2> QED BY <1>1, <1>6, SumSwap
<1>e. /\ \A u \in M : ChargesOf(g, u) = { c \in C : charges[c].user = u }
      /\ \A u \in M : ExpensesWith(g, u) = { e \in E : u \in DOMAIN expenses[e].shares }
  BY DEF ChargesOf, ExpensesWith
<1>r. /\ SumFunction(PerParticipant(g)) = SumFunction(net)
      /\ TotalCharges(g) = SumFunction(amounts) /\ TotalExpenses(g) = SumFunction(totals)
      /\ UnlistedUse(g) = SumFunction(unlisted)
  BY DEF PerParticipant, TotalCharges, TotalExpenses, UnlistedUse
<1> HIDE DEF amounts, totals, unlisted, owner, part, t, line, column, row, col, net, E, C, M
<1>8. ASSUME NEW u \in M
      PROVE  /\ part[u] = SumFunctionOnSet(Put(g, u), ChargesOf(g, u))
             /\ col[u] = SumFunctionOnSet(Used(g, u), ExpensesWith(g, u))
  <2>1. { c \in C : owner[c] = u } = ChargesOf(g, u)
    BY <1>3, <1>e
  <2>2. ChargesOf(g, u) \in SUBSET C /\ ExpensesWith(g, u) \in SUBSET E
    BY <1>e
  <2>3. IsSummable(Put(g, u), ChargesOf(g, u)) /\ IsSummable(Used(g, u), ExpensesWith(g, u))
    BY <1>m, ProgramRows
  <2>4. part[u] = SumFunctionOnSet(amounts, ChargesOf(g, u))
    BY <1>3, <2>1, Zenon
  <2>5. \A c \in ChargesOf(g, u) : amounts[c] = Put(g, u)[c]
    BY <1>3, <2>2 DEF Put
  <2>6. SumFunctionOnSet(amounts, ChargesOf(g, u)) = SumFunctionOnSet(Put(g, u), ChargesOf(g, u))
    BY <2>3, <2>5, SumEqual
  <2>7. IsSummable(column(u), E)
    BY <1>1, <1>3, <1>6 DEF IsSummable
  <2>8. \A e \in E \ ExpensesWith(g, u) : column(u)[e] = 0
    <3> SUFFICES ASSUME NEW e \in E, e \notin ExpensesWith(g, u) PROVE column(u)[e] = 0
      OBVIOUS
    <3>1. u \notin DOMAIN expenses[e].shares
      BY <1>e
    <3>2. column(u)[e] = t[<<e, u>>]
      BY <1>3
    <3>3. t[<<e, u>>] = 0
      BY <1>c, <3>1, Zenon
    <3> QED BY <3>2, <3>3
  <2>9. \A e \in ExpensesWith(g, u) : column(u)[e] = Used(g, u)[e]
    <3> SUFFICES ASSUME NEW e \in ExpensesWith(g, u) PROVE column(u)[e] = Used(g, u)[e]
      OBVIOUS
    <3>1. e \in E /\ u \in DOMAIN expenses[e].shares
      BY <1>e
    <3>2. column(u)[e] = expenses[e].shares[u]
      BY <1>3, <1>c, <3>1
    <3> QED BY <3>2 DEF Used
  <2>10. SumFunctionOnSet(column(u), E) = SumFunctionOnSet(column(u), ExpensesWith(g, u))
    BY <2>2, <2>7, <2>8, SumSupport
  <2>11. SumFunctionOnSet(column(u), ExpensesWith(g, u))
           = SumFunctionOnSet(Used(g, u), ExpensesWith(g, u))
    BY <2>3, <2>9, SumEqual
  <2>12. col[u] = SumFunctionOnSet(column(u), E)
    BY <1>3
  <2> QED BY <2>4, <2>6, <2>10, <2>11, <2>12
<1>9. ASSUME NEW e \in E PROVE unlisted[e] \in Int /\ totals[e] = row[e] + unlisted[e]
  <2> DEFINE shares == expenses[e].shares
             others == SumFunction(Restrict(shares, DOMAIN shares \ M))
  <2>1. IsFiniteSet(DOMAIN shares) /\ \A u \in DOMAIN shares : shares[u] \in Int
    BY <1>2
  <2>2. \A u \in M : /\ u \in DOMAIN shares => line(e)[u] = shares[u]
                     /\ u \notin DOMAIN shares => line(e)[u] = 0
    <3> SUFFICES ASSUME NEW u \in M
                 PROVE  /\ u \in DOMAIN shares => line(e)[u] = shares[u]
                        /\ u \notin DOMAIN shares => line(e)[u] = 0
      OBVIOUS
    <3>1. line(e)[u] = t[<<e, u>>]
      BY <1>3
    <3>2. /\ u \in DOMAIN shares => t[<<e, u>>] = shares[u]
          /\ u \notin DOMAIN shares => t[<<e, u>>] = 0
      BY <1>c, Zenon
    <3> QED BY <3>1, <3>2, Zenon
  <2>3. totals[e] = SumFunction(shares) /\ unlisted[e] = others
    BY <1>2, <1>3
  <2> HIDE DEF shares
  <2>4. others \in Int /\ SumFunction(shares) = SumFunctionOnSet(line(e), M) + others
    BY <1>1, <2>1, <2>2, SharesDivide
  <2> QED BY <1>3, <2>3, <2>4
<1>10. IsSummable(unlisted, E)
  BY <1>1, <1>9 DEF IsSummable
<1>11. SumFunctionOnSet(totals, E) = SumFunctionOnSet(row, E) + SumFunctionOnSet(unlisted, E)
  BY <1>7, <1>9, <1>10, SumOfSums
<1>12. \A u \in M : net[u] = part[u] - col[u]
  BY <1>m, <1>3, <1>8, ProgramRows
<1>13. SumFunctionOnSet(net, M) = SumFunctionOnSet(part, M) - SumFunctionOnSet(col, M)
  BY <1>5, <1>7, <1>12, SumMinus
<1>14. /\ SumFunction(net) = SumFunctionOnSet(net, M)
       /\ SumFunction(amounts) = SumFunctionOnSet(amounts, C)
       /\ SumFunction(totals) = SumFunctionOnSet(totals, E)
       /\ SumFunction(unlisted) = SumFunctionOnSet(unlisted, E)
  BY <1>3, Zenon DEF SumFunction
<1>15. /\ SumFunctionOnSet(part, M) \in Int /\ SumFunctionOnSet(col, M) \in Int
       /\ SumFunctionOnSet(unlisted, E) \in Int
  BY <1>5, <1>7, <1>10, SumInt
<1> QED BY <1>5, <1>7, <1>11, <1>13, <1>14, <1>15, <1>r DEF Remaining

LEMMA MoneyAlways == Spec => []MoneyInv
<1>1. Init => MoneyInv
  BY MoneyInit
<1>2. MoneyInv /\ [Next]_vars => MoneyInv'
  BY MoneyStep
<1> QED BY <1>1, <1>2, PTL DEF Spec

\* A program's report and the group ledger agree about everybody at any moment,
\* for any number of rows.  The two queries differ on rows from before programs
\* existed; they agree because such a row belongs to no program
\* (balances.py:39-58 and 140-180).
THEOREM ReportsAlwaysAgree == Spec => []ReportsAgree
<1>1. MoneyInv => ReportsAgree
  BY ProgramColumn DEF ReportsAgree
<1> QED BY <1>1, MoneyAlways, PTL

\* The nets of a program's participants add up to what is left on the mother card
\* and what the people it does not list have used, whoever is dragged into its
\* expenses, removed or decided upon and whenever it is closed.  It rests on two
\* parts of the invariant: every charge comes from a participant, since the draft
\* it is written from names one and no program loses any, and the amount column of
\* every row is the sum of its shares (balances.py:140-180, test_programs.py:94).
THEOREM ProgramAlwaysAddsUp == Spec => []ProgramAddsUp
<1>1. MoneyInv => ProgramAddsUp
  BY ProgramTotals DEF ProgramAddsUp
<1> QED BY <1>1, MoneyAlways, PTL
=============================================================================

------------------------------ MODULE Accounts ------------------------------
(***************************************************************************)
(* The money records (expenses, payments, program charges), the programs   *)
(* they belong to, and the handlers that create, decide and delete them.   *)
(*                                                                         *)
(* A conversation that has reached its preview holds a draft; what it put  *)
(* in it was on a keyboard once and is not looked at again when it is      *)
(* confirmed.  A confirmation commits its row first and then answers and   *)
(* notifies: `reached` are the people whose message arrived, and without   *)
(* `ok` an answer failed, which leaves the conversation, with its draft,   *)
(* where it was.  Every button stays in the chat for ever.                 *)
(* Membership enters by the rules of Roles.                                *)
(*                                                                         *)
(* Each member talks to the bot in their private chat and has one          *)
(* conversation open at a time.                                            *)
(***************************************************************************)
EXTENDS Roles, SplitEngine

CONSTANTS ExpenseIds, PaymentIds, ChargeIds,   \* bounds of the AUTOINCREMENT ids
          Programs,                            \* program ids, as ledger pools
          Splits,      \* the share functions a wizard may end with
          Teams,       \* the sets of participants an admin may pick
          Amounts,     \* the amounts a member may type in
          MaxRecords,  \* bound: expenses, payments and charges together
          MaxDrafts,   \* bound: conversations open at the same time
          Founders, FirstAdmins,    \* the group the database starts with
          Nobody       \* NULL in a user or program column

ASSUME IdsAssumption ==
    /\ IsFiniteSet(Programs) /\ Users \cap Programs = {}
    /\ ExpenseIds \subseteq Nat /\ PaymentIds \subseteq Nat /\ ChargeIds \subseteq Nat
    /\ Nobody \notin Users \cup Programs
ASSUME SplitsAssumption ==
    Splits # {} /\ \A s \in Splits : DOMAIN s \subseteq Users /\ DOMAIN s # {} /\ s \in [DOMAIN s -> Nat]
ASSUME TeamsAssumption == Teams \subseteq (SUBSET Users) \ {{}}
ASSUME AmountsAssumption == Amounts # {} /\ Amounts \subseteq Nat \ {0}
ASSUME FoundersAssumption == FirstAdmins \subseteq Founders /\ Founders \subseteq Users

VARIABLES expenses, payments, charges, programs,   \* the tables
          draft,           \* each user's conversation and, at its preview, what
                           \* it would record
          expenseButtons,  \* who has been sent the approve/reject buttons of it
          paymentButtons,  \* the payments whose receiver has got the buttons
          chargeButtons

tables  == <<expenses, payments, charges, programs>>
buttons == <<expenseButtons, paymentButtons, chargeButtons>>
vars    == <<status, isAdmin, tables, draft, buttons>>

-----------------------------------------------------------------------------
(* Rows and drafts *)

\* The amount of a bill is a column of its own, and a key of its own before that.
Totals == { SumFunction(s) : s \in Splits }

ExpenseRow == [approval : {"none", "null", "pending", "approved", "rejected"},
               payer : Users \cup {Nobody}, creator : Users \cup {Nobody},
               program : Programs \cup {Nobody}, amount : Totals, shares : Splits,
               deleted : BOOLEAN]
PaymentRow == [status : {"none", "pending", "confirmed", "rejected"},
               from : Users \cup {Nobody}, to : Users \cup {Nobody}, amount : Amounts]
ChargeRow  == [status : {"none", "pending", "confirmed", "rejected"},
               user : Users \cup {Nobody}, program : Programs \cup {Nobody}, amount : Amounts]
ProgramRow == [status : {"none", "active", "closed"},
               creator : Users \cup {Nobody}, members : Teams \cup {{}}]

\* No row: the other columns hold nothing anybody reads.
NoExpense == LET blank == CHOOSE s \in Splits : TRUE
             IN  [approval |-> "none", payer |-> Nobody, creator |-> Nobody, program |-> Nobody,
                  amount |-> SumFunction(blank), shares |-> blank, deleted |-> FALSE]
NoPayment == [status |-> "none", from |-> Nobody, to |-> Nobody,
              amount |-> CHOOSE x \in Amounts : TRUE]
NoCharge  == [status |-> "none", user |-> Nobody, program |-> Nobody,
              amount |-> CHOOSE x \in Amounts : TRUE]
NoProgram == [status |-> "none", creator |-> Nobody, members |-> {}]

ExpenseDraft == [kind : {"expense"}, payer : Users, program : Programs \cup {Nobody},
                 amount : Totals, shares : Splits]
PaymentDraft == [kind : {"payment"}, to : Users, amount : Amounts]
ChargeDraft  == [kind : {"charge"}, program : Programs, amount : Amounts]
ProgramDraft == [kind : {"program"}, members : Teams]
Wizard  == [kind |-> "wizard"]      \* expense_conv before its preview
Menu    == [kind |-> "menu"]        \* program_conv in PROG_MENU
Planning == [kind |-> "planning"]   \* program_conv from PROG_NAME to PROG_CARD
NoDraft == [kind |-> "none"]
Drafts  == ExpenseDraft \cup PaymentDraft \cup ChargeDraft \cup ProgramDraft
           \cup {Wizard, Menu, Planning, NoDraft}

TypeOK ==
    /\ RolesTypeOK
    /\ expenses \in [ExpenseIds -> ExpenseRow]
    /\ payments \in [PaymentIds -> PaymentRow]
    /\ charges \in [ChargeIds -> ChargeRow]
    /\ programs \in [Programs -> ProgramRow]
    /\ draft \in [Users -> Drafts]
    /\ expenseButtons \in [ExpenseIds -> SUBSET Users]
    /\ paymentButtons \subseteq PaymentIds
    /\ chargeButtons \in [ChargeIds -> SUBSET Users]

ExpenseExists(e) == expenses[e].approval # "none"
PaymentExists(p) == payments[p].status # "none"
ChargeExists(c)  == charges[c].status # "none"

ExpenseRows == { e \in ExpenseIds : ExpenseExists(e) }
PaymentRows == { p \in PaymentIds : PaymentExists(p) }
ChargeRows  == { c \in ChargeIds : ChargeExists(c) }

RecordCount == Cardinality(ExpenseRows) + Cardinality(PaymentRows) + Cardinality(ChargeRows)

\* lastrowid: ids are handed out in order
Fresh(id, ids, rows) ==
    id \notin rows /\ (\A d \in ids : d < id => d \in rows) /\ RecordCount < MaxRecords

\* A database from before programs existed: its rows have no approval status.
LegacyRow == { row \in [approval : {"null"}, payer : Founders, creator : Founders,
                        program : {Nobody}, amount : Totals,
                        shares : { s \in Splits : DOMAIN s \subseteq Founders },
                        deleted : {FALSE}] : row.amount = SumFunction(row.shares) }

Init ==
    /\ status = [u \in Users |-> IF u \in Founders THEN "active" ELSE "none"]
    /\ isAdmin = [u \in Users |-> u \in FirstAdmins]
    /\ \E legacy \in LegacyRow \cup {NoExpense} :
           expenses = [e \in ExpenseIds |-> IF e = 1 THEN legacy ELSE NoExpense]
    /\ payments = [p \in PaymentIds |-> NoPayment]
    /\ charges = [c \in ChargeIds |-> NoCharge]
    /\ programs = [g \in Programs |-> NoProgram]
    /\ draft = [u \in Users |-> NoDraft]
    /\ expenseButtons = [e \in ExpenseIds |-> {}]
    /\ paymentButtons = {}
    /\ chargeButtons = [c \in ChargeIds |-> {}]

-----------------------------------------------------------------------------
(* The conversations, up to their preview *)

MayStart(u) == /\ u \in ActiveUsers /\ draft[u] = NoDraft
               /\ Cardinality({ v \in Users : draft[v] # NoDraft }) < MaxDrafts

Preview(u, d) == draft' = [draft EXCEPT ![u] = d] /\ UNCHANGED <<roleVars, tables, buttons>>

\* expense_entry and programs_entry; what follows reads the tables again.
OpenConversation(u, conversation) ==
    MayStart(u) /\ Preview(u, conversation)

\* A program stands on u's keyboards while u takes part in it and it is open;
\* a keyboard drawn then still works after it was closed.
ProgramsOf(u) == { g \in Programs : u \in programs[g].members }

\* Mutant: everybody with a row, applicants too.
CandidatesWithApplicants(program) ==
    IF program = Nobody THEN { u \in Users : status[u] # "none" } ELSE programs[program].members

\* _candidate_users
Candidates(program) == IF program = Nobody THEN ActiveUsers ELSE programs[program].members

\* Names on the participants keyboards u can press.  participants_callback takes
\* any id a button names, and /cancel leaves the keyboard in the chat: a member
\* can leave one that names the whole group behind and then start the expense.
Named(u, candidates) == candidates \cup IF u \in ActiveUsers THEN ActiveUsers ELSE {}

\* expense_conv from EXP_DESC to EXP_CONFIRM.  Whatever way a bill is divided, its
\* preview has shares that add up to its amount (SharesAddUp of Bill).
DraftExpense(u, d) ==
    /\ draft[u] = Wizard
    /\ d.payer \in ActiveUsers \cup {u}
    /\ d.program \in ProgramsOf(u) \cup {Nobody}
    /\ DOMAIN d.shares \subseteq Named(u, Candidates(d.program))
    /\ d.amount = SumFunction(d.shares)
    /\ Preview(u, d)

\* change_payer_callback and payer_chosen_callback
ChangePayer(u, payer) ==
    /\ draft[u].kind = "expense" /\ payer \in ActiveUsers
    /\ Preview(u, [draft[u] EXCEPT !.payer = payer])

\* list_programs_for_user, active only: the programs payment_entry offers.
Targets(u) == { g \in ProgramsOf(u) : programs[g].status = "active" }

\* Mutant: every open program is offered to everybody.
DraftChargeOfAnybody(u, d) ==
    /\ MayStart(u) /\ ActiveUsers # {u}
    /\ programs[d.program].status = "active"
    /\ Preview(u, d)

\* payment_conv up to PAY_CONFIRM, with a person or a program as target: all it
\* offers is on the keyboard drawn when it starts.
DraftPayment(u, d) ==
    MayStart(u) /\ d.to \in ActiveUsers \ {u} /\ Preview(u, d)
DraftCharge(u, d) ==
    MayStart(u) /\ ActiveUsers # {u} /\ d.program \in Targets(u) /\ Preview(u, d)

\* program_menu_callback, "prog_new", and what leads from there to PROG_CONFIRM
PlanProgram(a) == draft[a] = Menu /\ isAdmin[a] /\ Preview(a, Planning)
DraftProgram(a, d) ==
    draft[a] = Planning /\ d.members \subseteq ActiveUsers /\ Preview(a, d)

\* The cancel button, or cancel_conversation.
DropDraft(u) == draft[u] # NoDraft /\ Preview(u, NoDraft)

AfterAnswer(u, ok) == draft' = IF ok THEN [draft EXCEPT ![u] = NoDraft] ELSE draft

-----------------------------------------------------------------------------
(* Confirming a preview: u may have been removed and the program closed since *)

\* confirm_callback of expense_conv
ConfirmExpense(u, e, reached, ok) ==
    LET d == draft[u]
        needsApproval == d.program # Nobody
    IN  /\ d.kind = "expense" /\ Fresh(e, ExpenseIds, ExpenseRows)
        /\ reached \subseteq IF needsApproval THEN ActiveAdmins ELSE {}
        /\ expenses' = [expenses EXCEPT ![e] =
               [approval |-> IF needsApproval THEN "pending" ELSE "approved",
                payer |-> d.payer, creator |-> u, program |-> d.program,
                amount |-> d.amount, shares |-> d.shares, deleted |-> FALSE]]
        /\ expenseButtons' = [expenseButtons EXCEPT ![e] = reached]
        /\ AfterAnswer(u, ok)
        /\ UNCHANGED <<roleVars, payments, charges, programs,
                       paymentButtons, chargeButtons>>

\* payment_confirm_callback, to a person
ConfirmPayment(u, p, reached, ok) ==
    LET d == draft[u]
    IN  /\ d.kind = "payment" /\ Fresh(p, PaymentIds, PaymentRows)
        /\ payments' = [payments EXCEPT ![p] =
               [status |-> "pending", from |-> u, to |-> d.to, amount |-> d.amount]]
        /\ paymentButtons' = IF reached THEN paymentButtons \cup {p} ELSE paymentButtons
        /\ AfterAnswer(u, ok)
        /\ UNCHANGED <<roleVars, expenses, charges, programs,
                       expenseButtons, chargeButtons>>

\* Mutant: the table's column knows no such status.
ConfirmChargeAsApproved(u, c, reached, ok) ==
    LET d == draft[u]
    IN  /\ d.kind = "charge" /\ Fresh(c, ChargeIds, ChargeRows)
        /\ reached \subseteq ActiveAdmins
        /\ charges' = [charges EXCEPT ![c] =
               [status |-> "approved", user |-> u, program |-> d.program, amount |-> d.amount]]
        /\ chargeButtons' = [chargeButtons EXCEPT ![c] = reached]
        /\ AfterAnswer(u, ok)
        /\ UNCHANGED <<roleVars, expenses, payments, programs, expenseButtons, paymentButtons>>

\* payment_confirm_callback, to a program
ConfirmCharge(u, c, reached, ok) ==
    LET d == draft[u]
    IN  /\ d.kind = "charge" /\ Fresh(c, ChargeIds, ChargeRows)
        /\ reached \subseteq ActiveAdmins
        /\ charges' = [charges EXCEPT ![c] =
               [status |-> "pending", user |-> u, program |-> d.program, amount |-> d.amount]]
        /\ chargeButtons' = [chargeButtons EXCEPT ![c] = reached]
        /\ AfterAnswer(u, ok)
        /\ UNCHANGED <<roleVars, expenses, payments, programs,
                       expenseButtons, paymentButtons>>

-----------------------------------------------------------------------------
(* Decisions: the presser needs the button and the right, not to be active *)

\* Mutant: an expense that has been decided is decided again.
DecideExpenseAgain(a, e, verdict) ==
    /\ a \in expenseButtons[e]
    /\ isAdmin[a]
    /\ expenses' = [expenses EXCEPT ![e].approval = verdict]
    /\ UNCHANGED <<roleVars, payments, charges, programs, draft, buttons>>

\* expense_approval_callback: a deleted expense can still be decided.
DecideExpense(a, e, verdict) ==
    /\ a \in expenseButtons[e]
    /\ expenses[e].approval = "pending"
    /\ isAdmin[a]
    /\ expenses' = [expenses EXCEPT ![e].approval = verdict]
    /\ UNCHANGED <<roleVars, payments, charges, programs, draft, buttons>>

\* receipt_callback
DecidePayment(u, p, verdict) ==
    /\ p \in paymentButtons
    /\ payments[p].status = "pending"
    /\ u = payments[p].to
    /\ payments' = [payments EXCEPT ![p].status = verdict]
    /\ UNCHANGED <<roleVars, expenses, charges, programs, draft, buttons>>

\* charge_confirmation_callback
DecideCharge(a, c, verdict) ==
    /\ a \in chargeButtons[c]
    /\ charges[c].status = "pending"
    /\ isAdmin[a]
    /\ charges' = [charges EXCEPT ![c].status = verdict]
    /\ UNCHANGED <<roleVars, expenses, payments, programs, draft, buttons>>

-----------------------------------------------------------------------------
(* Deletion, from a history page *)

\* Mutant: pressing the button again takes the deletion back.
DeleteExpenseToggles(u, e) ==
    /\ ExpenseExists(e)
    /\ isAdmin[u] \/ expenses[e].creator = u
    /\ expenses' = [expenses EXCEPT ![e].deleted = ~@]
    /\ UNCHANGED <<roleVars, payments, charges, programs, draft, buttons>>

\* delete_expense_callback: whatever the expense's status, also a second time.
\* Pages are drawn for members and stay in their chats; which ones u has is not
\* kept, so that u may press the button of any expense there is.
DeleteExpense(u, e) ==
    /\ ExpenseExists(e)
    /\ isAdmin[u] \/ expenses[e].creator = u
    /\ expenses' = [expenses EXCEPT ![e].deleted = TRUE]
    /\ UNCHANGED <<roleVars, payments, charges, programs, draft, buttons>>

-----------------------------------------------------------------------------
(* Programs *)

\* prog_confirm_callback
CreateProgram(a, g, ok) ==
    LET d == draft[a]
    IN  /\ d.kind = "program" /\ programs[g].status = "none"
        /\ programs' = [programs EXCEPT ![g] =
               [status |-> "active", creator |-> a, members |-> d.members]]
        /\ AfterAnswer(a, ok)
        /\ UNCHANGED <<roleVars, expenses, payments, charges, buttons>>

\* program_menu_callback, "progclose_confirm": drafts and undecided records stay
CloseProgram(a, g) ==
    /\ draft[a] = Menu /\ isAdmin[a]
    /\ g \in ProgramsOf(a) /\ programs[g].status = "active"
    /\ programs' = [programs EXCEPT ![g].status = "closed"]
    /\ UNCHANGED <<roleVars, expenses, payments, charges, draft, buttons>>

-----------------------------------------------------------------------------
ChangeRoles == RolesNext /\ UNCHANGED <<tables, draft, buttons>>

\* Conversations are not persistent; tables and buttons are.
Restart == /\ draft' = [u \in Users |-> NoDraft]
           /\ UNCHANGED <<roleVars, tables, buttons>>

Drafting(u) ==
    \/ OpenConversation(u, Wizard) \/ OpenConversation(u, Menu)
    \/ \E d \in ExpenseDraft : DraftExpense(u, d)
    \/ \E payer \in ActiveUsers : ChangePayer(u, payer)
    \/ \E d \in PaymentDraft : DraftPayment(u, d)
    \/ \E d \in ChargeDraft : DraftCharge(u, d)
    \/ PlanProgram(u)
    \/ \E d \in ProgramDraft : DraftProgram(u, d)
    \/ DropDraft(u)

Confirming(u) ==
    \E ok \in BOOLEAN :
        \/ \E e \in ExpenseIds, reached \in SUBSET ActiveAdmins : ConfirmExpense(u, e, reached, ok)
        \/ \E p \in PaymentIds, reached \in BOOLEAN : ConfirmPayment(u, p, reached, ok)
        \/ \E c \in ChargeIds, reached \in SUBSET ActiveAdmins : ConfirmCharge(u, c, reached, ok)

Deciding(u) ==
    \/ \E e \in ExpenseIds, verdict \in {"approved", "rejected"} : DecideExpense(u, e, verdict)
    \/ \E p \in PaymentIds, verdict \in {"confirmed", "rejected"} : DecidePayment(u, p, verdict)
    \/ \E c \in ChargeIds, verdict \in {"confirmed", "rejected"} : DecideCharge(u, c, verdict)

Managing(u) ==
    \/ \E e \in ExpenseIds : DeleteExpense(u, e)
    \/ \E g \in Programs : CloseProgram(u, g) \/ \E ok \in BOOLEAN : CreateProgram(u, g, ok)

Next == \/ \E u \in Users : Drafting(u) \/ Confirming(u) \/ Deciding(u) \/ Managing(u)
        \/ ChangeRoles
        \/ Restart

Spec == Init /\ [][Next]_vars

-----------------------------------------------------------------------------
(* The ledger, rebuilt from the tables on every call *)

\* Mutant: deleted expenses still count.
DeletedToo == { e \in ExpenseIds : expenses[e].approval \in {"approved", "null"} }

\* all_expenses_with_participants: NULL counts as approved
CountedExpenses == { e \in ExpenseIds : expenses[e].approval \in {"approved", "null"}
                                        /\ ~expenses[e].deleted }
ConfirmedPayments == { p \in PaymentIds : payments[p].status = "confirmed" }
ConfirmedCharges  == { c \in ChargeIds : charges[c].status = "confirmed" }

\* Mutant: the shares are owed to the payer, program or not.
CreditorIsPayer(e) == expenses[e].payer

CreditorOf(e) == IF expenses[e].program # Nobody THEN expenses[e].program ELSE expenses[e].payer

BuildLedger ==
    LET owed == FoldSet(LAMBDA e, l : AddShares(l, CreditorOf(e), expenses[e].shares),
                        EmptyLedger(Users \cup Programs), CountedExpenses)
        paid == FoldSet(LAMBDA p, l : AddPayment(l, payments[p].from, payments[p].to, payments[p].amount),
                        owed, ConfirmedPayments)
    IN  FoldSet(LAMBDA c, l : AddPayment(l, charges[c].user, charges[c].program, charges[c].amount),
                paid, ConfirmedCharges)

\* program_report, from the program's own queries: all_program_expenses asks
\* for 'approved' and knows no NULL.
ProgramExpenses(g) == { e \in ExpenseIds : /\ expenses[e].program = g /\ ~expenses[e].deleted
                                           /\ expenses[e].approval = "approved" }
ProgramCharges(g)  == { c \in ConfirmedCharges : charges[c].program = g }

TotalExpenses(g) == SumFunction([e \in ProgramExpenses(g) |-> expenses[e].amount])
TotalCharges(g)  == SumFunction([c \in ProgramCharges(g) |-> charges[c].amount])
Remaining(g)     == TotalCharges(g) - TotalExpenses(g)

ChargesOf(g, u)   == { c \in ProgramCharges(g) : charges[c].user = u }
ExpensesWith(g, u) == { e \in ProgramExpenses(g) : u \in DOMAIN expenses[e].shares }
ProgramNet(g, u) ==
    SumFunction([c \in ChargesOf(g, u) |-> charges[c].amount])
  - SumFunction([e \in ExpensesWith(g, u) |-> expenses[e].shares[u]])

\* The report lists the participants, and nobody else who has a share.
PerParticipant(g) == [u \in programs[g].members |-> ProgramNet(g, u)]

-----------------------------------------------------------------------------
(* Properties *)

Records == { <<"expense", e>> : e \in ExpenseIds } \cup { <<"payment", p>> : p \in PaymentIds }
           \cup { <<"charge", c>> : c \in ChargeIds }

DecidedEntry(st) == CASE st = "none" -> "absent"
                      [] st = "pending" -> "waiting"
                      [] st \in {"approved", "null", "confirmed"} -> "counted"
                      [] st = "rejected" -> "refused"

EntryOf(r) ==
    CASE r[1] = "expense" -> IF expenses[r[2]].deleted THEN "withdrawn"
                             ELSE DecidedEntry(expenses[r[2]].approval)
      [] r[1] = "payment" -> DecidedEntry(payments[r[2]].status)
      [] r[1] = "charge"  -> DecidedEntry(charges[r[2]].status)

Ledger == INSTANCE Book WITH entry <- [r \in Records |-> EntryOf(r)]

\* Every step keeps the promise of Book: two admins pressing opposite buttons,
\* a button pressed twice, a deletion before or after a decision, a retry after
\* a failed answer or a restart never make a record count twice, count again
\* after it was refused or deleted, or be decided a second time
\* (programs.py:340-412, payments.py:214-253, reports.py:105-121).
ImplementsBook == Ledger!Spec

\* A refused or deleted record never comes back.
DeadRecordsStayDead == Ledger!DeadStaysDead

\* Whoever owes, paid, received or entered something had been admitted to the
\* group by then, nobody has paid themselves, and whoever charges a program is
\* one of its participants, although members are removed and programs closed
\* while drafts are open (expenses.py:548-573, payments.py:103-133).
RowsNameMembers ==
    LET Admitted == { u \in Users : status[u] \in {"active", "removed"} }
    IN  /\ \A e \in ExpenseRows :
               DOMAIN expenses[e].shares \cup {expenses[e].payer, expenses[e].creator}
                   \subseteq Admitted
        /\ \A p \in PaymentRows :
               /\ {payments[p].from, payments[p].to} \subseteq Admitted
               /\ payments[p].from # payments[p].to
        /\ \A c \in ChargeRows :
               charges[c].user \in programs[charges[c].program].members

\* A program's own report and the group ledger, filtered by two different
\* queries, agree about every participant (balances.py:39-58 and 140-180).
ReportsAgree ==
    \A g \in Programs : \A u \in Users :
        ProgramNet(g, u) = NetBetween(BuildLedger, g, u)

\* What people who are no participants use of a program: a stray button drags
\* them in (OnlyParticipantsShare below), and the report does not list them.
UnlistedUse(g) ==
    SumFunction([e \in ProgramExpenses(g) |->
        LET shares == expenses[e].shares
        IN  SumFunction(Restrict(shares, DOMAIN shares \ programs[g].members))])

\* The nets a report lists add up to what is left on the mother card
\* (test_programs.py:94), but for what the people it does not list have used; at
\* every moment, also when what was undecided at closing is decided.  It takes
\* that nobody charges a program they are not in, and that the amount column
\* (balances.py:154) never parts from the shares (balances.py:160-162).
ProgramAddsUp ==
    \A g \in Programs : SumFunction(PerParticipant(g)) = Remaining(g) + UnlistedUse(g)

(* What the program says and the code does not do *)

\* payments.py:159-162: when the receiver could not be reached the sender is
\* told that the receiver can open the bot and confirm the payment by hand.
\* Read as: a pending payment has its buttons somewhere.
PendingPaymentDecidable ==
    \A p \in PaymentIds : payments[p].status = "pending" => p \in paymentButtons

\* expenses.py:82-83: the participants of an expense that is tied to a program
\* are "just this program's participants".
OnlyParticipantsShare ==
    \A e \in ExpenseIds :
        expenses[e].program # Nobody =>
            DOMAIN expenses[e].shares \subseteq programs[expenses[e].program].members
=============================================================================

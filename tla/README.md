# Verification of the Hesabkitab bot

A Telegram bot keeps the accounts of a group of friends: who paid for what,
who took part, who has paid whom back, and what would settle everything. This
directory holds TLA+ models of its program (`src/`), the TLC configurations
that check them on small instances, and proofs, checked by TLAPS, of what holds
for every group. `PROJECT.json` maps every definition to the lines it models.

- [The system](#the-system)
- [The modules](#the-modules)
- [What is checked](#what-is-checked)
- [What is proved](#what-is-proved)
- [Where code and documents disagree](#where-code-and-documents-disagree)
- [Assumptions](#assumptions)
- [What is not modelled, and the plan](#what-is-not-modelled-and-the-plan)

## The system

One process runs python-telegram-bot's (PTB) dispatcher over one SQLite file.
Updates are handled one after the other (`bot.py` never turns concurrent updates
on), so a handler is atomic against other handlers. What makes the program hard
is what lies between handlers.

- Anything may happen between two messages of one person: other people's
  updates, a restart, a role change, the end of a program.
- Inline buttons stay in the chat for ever. A press can come from an old
  message, from somebody who has lost the right since, or twice.
- A handler commits its database change and then answers. An answer that fails
  (`TimedOut`) raises out of the handler: the row is there and PTB leaves the
  conversation where it was, so that the button can be pressed again.
- Conversation states and `user_data` are in memory (`persistent=False`) and
  all conversations of one person share one `user_data`.
- Notices to other people are sent once. One that fails is logged, and the only
  approve button may have been in it.

| Component | State | Operations | Correct when |
|---|---|---|---|
| Split engine `split_engine.py` | none (pure); `NetLedger.pairwise` while a view is built | `calculate_shares`, `add_expense_debt`, `add_payment`, `net_between`, `all_pairs`, `net_positions`, `simplify_debts` | nothing is lost or invented: shares add up, positions add up to zero, the plan settles everybody, is short, and the loop ends |
| Balance views `balances.py` | none; rebuilt from the tables on each call | `build_ledger`, `personal_balance`, `group_report`, `program_report` | the views of one ledger agree, and a program's report agrees with the group's ledger |
| Registration `handlers/registration.py` | `users.status`, `users.is_admin`; `registration_conv` | `/start`, card, weight (bootstrap or notify), approve, reject | one decision per request; who was refused or removed stays out; there is always somebody who can approve |
| Members `handlers/members.py` | the same columns; `members_conv` | list, edit, make admin, unadmin, remove, `/pending` | the last admin cannot go; only admins manage |
| Expenses `handlers/expenses.py` | `expenses`, `expense_participants`; `expense_conv` | the wizard, confirm, receipt | what is recorded names people of the group (of the program) and adds up |
| Payments `handlers/payments.py` | `payments`, `program_charges`; `payment_conv` | target, amount, confirm, the receiver's answer, the admin's answer | a payment counts once, and only after the receiver's yes; a charge only after an admin's |
| Programs `handlers/programs.py` | `programs`, `program_members`; `program_conv` | create, request charges, close, approve an expense | every expense decided once; the numbers of a program add up |
| Reports `handlers/reports.py` | `expenses.deleted` | history pages, delete, export | what is deleted no longer counts, whatever its status |
| Database `database.py` | the SQLite file | queries, updates, migration | every call one transaction; old rows keep their meaning |
| Dispatch `bot.py`, `handlers/common.py` | conversation states, `user_data` | the order in which handlers see an update, `/cancel` | no conversation works on another's data |
| Receipts `veryfi_client.py` | none | one HTTP request | an answer the wizard can divide, or an error |
| Dates `jalali_utils.py`; `keyboards.py`; `groupsetup.py`; `help.py`; `config.py` | a setting or none | formatting, texts | left aside, see below |

How they interact: the handlers call `database.py` and send messages; a button
in such a message brings the next handler on. `balances.py` reads all records
and runs `split_engine.py` over them. Membership reaches the money side in two
ways only: through the lists of active members a keyboard is drawn from, and
through the `is_admin` flag a decision asks for.

## The modules

```
   Settlement <--implements-- SimplifyDebts --.
                                               \
                                  SettleUp ---- SplitEngine ---- Bill
                                               /                  :
   Book <-------implements------ Accounts ----'                   : the amounts of
                                     |                            : its steps
                                     | builds on                  :
   Roles <------implements------ Membership                 Conversations
```

**SplitEngine** has `split_engine.py` and the arithmetic of `balances.py` as
operators: `CalculateShares`, the ledger (`AddExpenseDebt`, `AddPayment`,
`NetBetween`, `AllPairs`, `NetPositions`), one pass of the greedy loop
(`GreedyBody`) and its whole run (`SimplifyDebts`), `PersonalBalance`,
`MergedPositions`, `SettlementPlan`. Python sorts ids as strings; the models
number the people in that order (the instances use ids below 10, where both
orders are the same), and nothing but the order of ids is ever used. No operator
is `RECURSIVE`, sums are folds (`SumFunction`), and the sort of a list of
positions (`Ranked`) gives each entry the place its rank says.

**SimplifyDebts** runs the greedy loop pass by pass: `positions` is the
argument, `greedy` the locals (the two ranked lists, the two cursors, the
transactions). **Settlement** says what any settle-up procedure may do: transfer
from somebody who still owes to somebody still owed, never more than either has
left. The refinement reads what is `left` off the returned transactions and not
off the loop's own lists.

**SettleUp** is the group over time: expenses, charges, the admin's report, and
the suggested transfers carried out one by one in any order. `pairwise` is what
`build_ledger` gives, `plan` what remains of the suggestion.

**Roles** has the two columns of `users` everything else depends on and the
seven ways they change. **Membership** has the handlers: `reg` and `menu` are
the states of the two conversations, `seen` the people whose member buttons are
in somebody's chat, `prompts` the requests whose approve buttons are. One action
per handler; `ok` says if the answer got out. **Membership implements Roles**, and
Accounts uses Roles, so that the money side need not carry the menus along.

**Accounts** has the tables of expenses, payments, charges and programs, each
user's conversation (`draft`) and the buttons that have been sent. The steps of
a wizard up to its preview are one action that may name whatever the keyboards
offered; from the preview on everything is a step of its own: change the payer,
confirm (answer or no answer, notice or no notice, to any subset of the
admins), decide, delete, close, restart. An expense has its shares and, as in the
table, an amount of its own, copied from the preview. The group's ledger and a
program's report (`PerParticipant`, a net for each participant and for nobody
else) are operators over the tables. **Book** says what a ledger promises of each record: entered once,
decided at most once and only while it waits, withdrawn for good.

**Conversations** is the chat of one person: the five conversations of `bot.py`
with every state they have, over the one `user_data` they share. `state` has the
state of each, `data` how each key of `user_data` came to be what it is, `made`
what has been recorded since a conversation was opened. The handler tables
(`EntryPoints`, `ExpenseHandlers`, ...) are those of the `ConversationHandler`s,
and `Routed` is the order of `bot.py`: an update goes to the first conversation
that takes it. Each handler is an action built from `Handle`: what it writes
first, what it reads without a default, what it writes and reads then, and the
state it returns. A read of what is not there raises (`error_handler`), an answer
can fail, and both leave the conversation where it was with everything written so
far. Of a key only its mark is kept: written since its conversation was opened
(`own`), cleared since then (`lost`), filled in by a `setdefault` (`guess`), or
there from before (`old`). Accounts is about what the records are then used for;
it takes a draft as one thing, and Conversations is why it may.

**Bill** is the part of the expense wizard that Conversations has no values for:
from the choice how to divide to the preview, with amounts, headcounts, the queue
of people asked, the items of a receipt and the rest that no item accounts for.
`draft`, `custom` and `ocr` are the keys of `user_data`, `told` is history: whom
the last question that arrived was about, what was meant for whom, the items
somebody was tagged for. What `extract_receipt` can return is `Extractions`. It
uses `CalculateShares` of SplitEngine. A message can fail (`Answer`), up to
`MaxFailures` times.

`MC*.tla` give the instances. `*_proofs.tla` hold theorems and proofs.
Definitions commented as "Mutant" are plausible bugs in the definition that
follows them; each property is shown to fail under at least one.

## What is checked

Each run is one configuration. "Fails" means that TLC is expected to find a
counterexample; see the section on disagreements.

| Run | Instance | Shows |
|---|---|---|
| `simplify_debts` | 5 people, positions -4..4 that add up to 0; 15 thousand states | The loop ends (`Terminates`), every pass is a legal transfer (`ImplementsSettlement`), the returned list settles everybody (`SettlesTheGroup`), with at most one transfer fewer than people involved and nobody both paying and paid (`ShortPlan`) |
| `settle_up` | 3 members of weights 2, 1, 1, one program, 2 expenses of 1 or 4, 1 charge; 43 thousand states | Carrying out the plan in any order brings every merged position to 0, and each intermediate position is what remains of the plan (`PlanClearsPositions`); a member's view and the report add up alike (`ViewsAgree`) |
| `settle_up_pairs` | the same, no program | fails: `PlanClearsDebts` |
| `settle_up_mirror` | the same, with the program | fails: `DebtsShownToBothSides` |
| `membership` | 3 people, one in `INITIAL_ADMIN_IDS`; 1.0 million states | An active admin for ever after the first (`ActiveAdminExists`), nobody who was removed comes back (`RemovedStaysOut`), no applicant holds the flag (`PendingIsNoAdmin`), and Membership implements Roles |
| `membership_menu` | the same | fails: `AdminOnlyMenu` |
| `accounts` | 2 members, 1 admin, 1 program with one participant, 2 expense ids, 1 payment, 1 charge, at most 2 records, 1 open conversation; 1.92 million states | The two reports of a program agree (`ReportsAgree`); the nets a program's report lists add up to what is left on its card and what unlisted people have used (`ProgramAddsUp`); and Accounts implements Book, also for a bill entered twice after a failed answer and next to a row from before programs existed |
| `accounts_newcomer` | 1 founder and 1 person outside the group, programs of one or both, bills for one or both, one id per kind of record, 1 record, 2 open conversations; 2.06 million states | Rows name people who had been let in, nobody pays themselves, whoever charges a program takes part in it (`RowsNameMembers`); `ProgramAddsUp` with and without an outsider |
| `conversations` | one person, 2 conversations open at once, 2 records of one preview; 573 thousand states | On every path each state finds what its handlers read (`NothingMissing`) unless another conversation has cleared it, and then nothing is recorded (`RecordsWhatWasCollected`); a preview is recorded twice only after a failed answer (`OneRecordPerPreview`), and then the receipt goes to the later record (`ReceiptOfNewest`); somebody who sends /cancel and nothing else gets out of everything (`CancelGetsOut`) |
| `bill` | 3 people of weights 1, 2, 1, headcounts up to 3, receipts of 1 or 2 items of -2, 1 or 5, printed total 0 (none), 3 or 8, typed amounts 1 and 7, 2 failed messages; 325 thousand states | The shares add up to what is recorded and each has its weight (`SharesAddUp`); nobody but the last by id pays more than their exact part (`FairShares`); a receipt comes out as its items or as its printed total (`ReceiptIsMet`); typed amounts go to who was asked about (`AmountsAsAsked`); the index passes the end only after a failed message (`StuckOnlyAfterFailure`); and the wizard ends (`WizardEnds`) |
| `accounts_undecidable` | as `accounts`, one id per kind of record | fails: `PendingPaymentDecidable` |
| `accounts_outsider` | as `accounts`, one id per kind of record | fails: `OnlyParticipantsShare` |

Why the bounds are enough.

- `simplify_debts`: equal amounts on both sides, on one side, and chains in which
  one side covers several of the other all occur with five people; 4 is the
  largest amount needed for one person to face four others.
- `settle_up`: 4 shared among weights 2, 1, 1 or three equals leaves a rest, and 1 is
  less than the number of people, so that shares of 0 occur; two expenses are
  what a debt chain takes, and two creditors what a merged pool takes.
- `membership`: the rules count admins up to 2; three people make two admins and
  somebody they disagree about. The two people outside `INITIAL_ADMIN_IDS` are
  symmetric (only safety is checked).
- `accounts`: the longest scenario a property needs is one record decided by two
  people after a deletion; records of different kinds meet only in the ledger,
  and two at a time cover each pair of kinds, two expenses included: a bill
  and its second copy, an expense and a charge of a program. The share function gives the admin
  1 and the other 2, so that swapping sides or amounts shows. The legacy row
  (approval `NULL`) is part of the initial states.
- `accounts_newcomer`: who is in the group is a question only if somebody is not,
  so that one of the two applies, is approved or rejected, and may be removed
  again. With two conversations a program is closed, or a person removed, while
  the other's preview is open, and confirmed after. `RowsNameMembers` speaks
  of one row at a time: one record is enough. `ProgramAddsUp` is over sums
  that each row adds to: `accounts` has two rows, with the member outside the
  program always sharing; here bills for one and for both meet programs of one
  and of both, so that a row has an outsider or has none.
- `conversations`: a conversation changes another in one way only, by clearing
  everything, so that what can go wrong goes wrong with two open
  (`MaxOpen = 2`); three or more differ in who clears, not in what is left. Two
  records of one preview (`MaxCommits = 2`) are the first and a repeated one. The
  safety properties are proved for any bounds.
- `bill`: three people leave a rest of 1 or 2 in a division, and one of them
  counts double; the receipts have items that divide and that do not, a discount
  alone, a discount larger and smaller than its item, a printed total below,
  at and above the sum; two failures are what it takes to fail twice at one
  step, or once each at the last item and the rest.

`CHECK_DEADLOCK FALSE`: each of these systems may stop. The loop ends, a group may
stop using the bot, and the ids of an instance run out.

Fairness. `LoopPass` of SimplifyDebts is plain sequential code, and weakly fair.
Nothing makes people press buttons, so the other two liveness properties are about
somebody who does. `FairSpec` of Conversations says that a /cancel that has an
effect is sent in the end, if it goes on being possible, and `CancelGetsOut` only
speaks of behaviours in which from some point on nothing but /cancel is sent; that
the /cancel has an effect includes that its answer arrives. `FairSpec` of
Bill says that a person who can go on does (`Proceed`); taps on headcounts and
items are not part of it, failed messages are bounded, and a person who is stuck
counts as having arrived, since nothing but /cancel helps them.

## What is proved

Every invariant, every action property and every refinement that a passing run
checks is a theorem for all values of the constants; TLAPS checks every leaf.
The constants are arbitrary up to the named assumptions. All: sets of people are
finite, amounts whole and positive, ids of people, programs and `Nobody` distinct.
Roles: `Users` contains `INITIAL_ADMIN_IDS`. Accounts: shares are natural numbers
of users and not empty, the founders of the initial database are users. Bill,
SettleUp and SimplifyDebts: people are numbered, in the order in which the code
sorts them; weights are 1 to `MaxWeight` (20 in SettleUp, as registration
has it), items of a receipt are whole and not 0. The bounds on failures, records
and open conversations are arbitrary natural numbers.

- **Roles_proofs.** `RolesKeepAnAdmin`, `RolesPendingIsNoAdmin`,
  `RolesRemovedStaysOut`. `RemovedStaysOut` is not inductive: the bootstrap
  rule does not look at the status, so a removed person could come back if there
  were ever no admin. `RolesInv` therefore adds that once somebody has been
  removed there is an admin; that rests on `ActiveAdminExists`, which rests on
  the count of the admins at the moment of the press (`AdminLeft`: of more than
  one, one is left whoever goes).
- **Membership_proofs.** `MembershipImplementsRoles`, and from it
  `AnActiveAdminRemains`, `NoPendingAdmin`, `RemovedMembersStayOut`. The
  handlers' guards are weaker than those of Roles; what closes the gap is in
  `MembershipInv`: that a button exists proves that there has been an admin
  (`ButtonsNeedAdmin`) and that the person it names has been admitted
  (`SeenAdmitted`), and registration runs only for people with a row
  (`RegHasRow`).
- **SplitEngine_proofs.** What the calculations give for every input; the
  proofs about SimplifyDebts, SettleUp, Bill and Accounts rest on it. No installed prover can use an induction principle that is
  stated for every predicate, so `SetInduction` and `IntervalInduction` state one
  for a *set* of subsets, or of numbers, which is first-order; with
  them a fold is shown to have a run (`FoldsExist`) whose result does not depend on
  the order of the elements (`FoldsAgree`), and from that sums can be taken
  apart, added and exchanged. `SharesAreFair`: what `calculate_shares` returns adds
  up to the total, and the rest of the division, less than one unit per head, is
  all with the last by id. `AddSharesAdds`, `AddPaymentAdds`: what one expense or one
  payment changes in the ledger and what it leaves alone, in both orders of a
  pair. `SimplifyDebtsEnds`: the greedy loop is over after at most as many passes as
  there are people.
- **SimplifyDebts_proofs.** `LoopInvariant`, and from it `LoopTypes`,
  `AlwaysSettles`, `AlwaysShort`, `LoopSettles`. That the list settles the group is
  not inductive. `GreedyInv` says that what the lists still hold is what the
  transactions leave of the positions (`GreedyFlow`), that both lists hold the same
  in total, with nothing before the cursors (`GreedyLists`): so when one list is used
  up, the other is. A move of a cursor makes at most one transaction and the last
  pass moves both (`GreedyShort`), hence one fewer than people involved; and no pair
  meets twice (`GreedyMet`). In the refinement `left` is what the transactions
  leave, so each pass is a transfer Settlement allows.
- **SettleUp_proofs.** `SettleUpInvariant`, `SettleUpTypes`, `PlansClear`,
  `ViewsAlwaysAgree`. While a report is followed every member's merged position
  is what the rest of the plan still moves to or from them (`IInv`): the report
  establishes it, because merging the pools keeps the sum at 0 and
  `SimplifyDebtsEnds` says that its list settles such positions; a transfer
  carried out changes both by the same amount. When nothing is left, every
  position is 0. The two views agree since each pair is entered in both
  directions of the ledger and every view reads their difference.
- **Conversations_proofs.** `TypesCorrect`, `RecordsAreCollected`,
  `OneRecordUnlessFailed`, `ReceiptsOfNewest`, `NothingIsMissing`, for any number of
  open conversations and of records. That a record is made of all that was collected
  cannot be read off the confirmation: it checks only that the keys are there.
  The invariant (`Inv`) names for each recording conversation a witness: a key that
  is written at the beginning, by no later step, and never by default. For an
  expense it is the payer while the description is asked for and the description from
  then on, for a payment the target, for a program its creator. If the witness is
  there, nothing has been cleared since (`ExpInv`, `PayInv`, `ProgInv`); if it is
  not, the preview or the confirmation raises. A second part (`ExpMade`, ...) ties the
  number of records and the receipt's id to the state. Each conversation's steps
  are shown to keep its own part, and one frame lemma has the rest: a step of
  another conversation leaves my state and data alone, or clears all of it.
  `NothingMissing` speaks of what the handlers of a state read, which is less
  than what its predecessors must have left: `Filled` names for every state what
  has been written on every path to it, and `Carried` that this is there, or was
  cleared by another conversation, or was filled in by a default since.
- **Bill_proofs.** `StuckNeedsFailure`: without failures the queue is not empty
  and the index is on an item whenever somebody is asked (`Inv`), because the step
  that empties the queue or passes the last item leaves its state with the same
  message. `AmountsGoToWhomTheyWereMeant`: without failures the last question was
  about the head of the queue (`Given`), so that what is stored is what was meant,
  and as every amount is positive none is dropped on the way to the preview.
  `BillTypes`, `SharesAlwaysAddUp`, `SharesAlwaysFair`, `ReceiptAlwaysMet`: the preview
  shows only the end of the division, so the invariant (`Divided`) follows it: what
  state a person can be in with which mode (`OneWay`), and that the totals so far are
  the items somebody was tagged for, each item once, plus the rest as often as it
  has been shared out (`Receipt`).
- **Accounts_proofs.** `AccountsTypeCorrect`; `RowsNameAdmittedPeople`;
  `AccountsImplementBook`; `DeadRecordsNeverReturn`; `ReportsAlwaysAgree`;
  `ProgramAlwaysAddsUp`. A confirmation writes its
  draft without looking, so `AccountsInv` says of drafts what `RowsNameMembers`
  says of rows; it survives because nobody who was admitted ever stops having
  been (`DecidedStays` of Roles) and no program loses a participant
  (`ParticipantsStay`). Implementing Book needs `NoRowNoData`: a row that does
  not exist is not deleted. One lemma per table says what one step can do to a
  row (`ExpenseStep`, `PaymentStep`, `ChargeStep`, `ProgramStep`), and one that
  writing a row moves that record's entry and no other (`ExpenseMove`, ...).
  The two reports read different rows: the ledger takes an expense from before the
  approval column, a program's report does not. They agree because such a row
  belongs to no program (`LegacyOutsidePrograms` in `MoneyInv`), and because only
  finitely many rows have been written (`FiniteTables`), so that the sums exist;
  then each column of the ledger is taken apart row by row (`ProgramRows`,
  `ProgramColumn`). `ProgramAlwaysAddsUp` is about three different selections: the
  card sums amounts and all charges, the report lists participants. It needs
  that every charge is a participant's (`RowsNameMembers`, by way of the drafts),
  and that the amount column of every row and every preview is the sum of
  its shares (`AmountsAddUp`, kept by `AmountsStep`); a row then divides into the
  participants' shares and the others' (`SharesDivide`, `ProgramTotals`).

Only model-checked: liveness (`Terminates`, `CancelGetsOut`, `WizardEnds`), which
needs fairness and ENABLED, out of the prover's reach. What stands in for
`Terminates` is `SimplifyDebtsEnds`. The runs that end in a counterexample are
about instances, and prove nothing beyond them.

## Where code and documents disagree

Each of these is a run that ends in a counterexample.

- `settle_up_pairs`: README.md:149-150 promises that the suggestion clears all
  the group's debts. With A owing B and B owing C the plan says A pays C; done,
  every view shows A->B, B->C and C->A, because a transfer is entered between
  its two ends only (`balances.py:135`). Positions are 0, pairs are not.
- `settle_up_mirror`: `personal_balance` says "All non-zero balances that
  concern `user_id`" (`balances.py:88`). A participant sees what they owe
  the admin for a program; the admin does not see it (`balances.py:92`).
- `membership_menu`: "Admin-only member management" (`members.py:2`). A menu opened
  by an admin still works after they were demoted (`members.py:48`).
- `accounts_undecidable`: when the notice to the receiver fails the sender is told
  that the receiver can open the bot and confirm by hand (`payments.py:161`); there
  is no other place to confirm (`payments.py:155`).
- `accounts_outsider`: the participants of a program's expense are "just this
  program's participants" (`expenses.py:82-83`). A participants keyboard that
  `/cancel` left in the chat names everybody and still works (`expenses.py:129`).
  Once such an outsider has a share, "participants' nets" no longer "sum to the
  program's remaining balance" (`test_programs.py:90-94`): the totals count the
  whole expense, the list only participants (`balances.py:154`, `168`).
  `ProgramAddsUp` says by how much they differ.

Two more were read off the source and have no run. At closing everybody is sent a
"final" summary (README.md:173), but charges and expenses that were undecided are
decided afterwards, open previews are confirmed and expenses deleted; the
report changes and nobody is told (`programs.py:126`). A debt left at closing is
shown under the program's name to be settled with a payment
(README.md:173-174), but a closed program is no payment target (`payments.py:30`),
and a payment to its admin is entered between the two people, so that the line
stays.

What no document denies, but a reader of the code should know. The properties
are stated so that they allow it.

- With several conversations open, /cancel ends the first in the order of
  `bot.py` and clears the data of all (`common.py:81`). The others answer every
  further step with an error until they are cancelled too.
- A text goes to the first open conversation that takes texts, not to the one that
  asked last (`bot.py:64-68`). While a description, a name or a note is asked for, the
  menu's labels are taken as the answer, unless an earlier conversation is
  closed and takes them as its entry.
- When the message after "share out the rest" fails and the button is pressed
  again, the rest is shared out again (`expenses.py:478`): `ReceiptIsMet` counts
  how often, and allows more than once only after a failure.
- A discount that leaves somebody with nothing to pay is not passed on to the
  others (`expenses.py:319`), so that the expense is more than the receipt.
- When the question for the next amount fails, the answer repeated by the person
  counts for the next one (`expenses.py:310`).
- After the last item or amount a failed message leaves the wizard in a state in
  which every answer raises (`expenses.py:310, 424`); /cancel gets out.

## Assumptions

Taken from how `src/` uses PTB and SQLite, and not from their sources:

- updates are handled one at a time, each handler to its end;
- every `database.py` call is one committed transaction;
- an exception out of a handler leaves the conversation in its state;
- inline buttons can be pressed any number of times, by the person in whose chat
  they are; conversations are in private chats.

Simplifications, and what they mean:

- *Stale keyboards* (`Accounts!Named`). A member who is active may hold a
  participants keyboard with the whole group. People removed since that
  keyboard was drawn are left out.
- *Payment targets and amounts* are drafted in one step when the conversation
  starts: all that can be chosen is on the keyboard drawn then, and a payee
  who is removed meanwhile is covered by the draft that is held.
- *Creating a program*: the admin flag is read at `prog_new` (`PlanProgram`) and
  not again at the confirmation (`CreateProgram`), as in the code.
- *Closing a program* that is closed already changes nothing and is left out.
- *Deleting*: history pages are drawn without keeping who has which; anybody with
  the right may press the button of any expense, which is more than the code
  allows and never less.
- *One conversation per person* at a time in Accounts. Conversations has several;
  a record is made of what one conversation collected (`RecordsWhatWasCollected`),
  which is what a draft in Accounts stands for.
- *The person of Conversations* is an active admin who is in programs, so that every entry
  is open. Whether /start begins a registration depends on their row; a
  registration can be open at the beginning, as it is for whoever was approved
  during it. The menus and lists that depend on other people are in Membership
  and Accounts.
- *Buttons of every kind* may be in the chat in Conversations and Bill, which is
  what /cancel and restarts leave there.
- *Texts* of Conversations are a menu label, other words, or a number that parses as
  whatever is asked for. An answer that does not parse is asked for again and
  changes nothing.
- *The branches of a handler* that depend on a value Conversations does not keep
  (the mode, the number of people or items left) may all be taken; Bill keeps
  the values and takes the right one.
- *Bill* ends at the preview. Changing the payer there touches no share.
- *Receipts* attached after a record is committed change no other column: the
  states that wait for one count as ended.
- *Amounts* of previews are the sum of their shares: that every way to divide a
  bill ends so is `SharesAddUp` of Bill. From there on the amount is a column of
  its own.
- The initial database of Accounts is a group that has its first admin, with at
  most one legacy expense.

## What is not modelled, and the plan

The order in which the models were written follows what matters most: the
arithmetic everybody relies on, who may do what, the life of the records, and
then the conversations that make them and the division of a bill. What is left,
in order:

1. **Liveness** of applicants (Membership) and of records (Accounts), under
   fairness of those who do answer. Both fail as the hazards say:
   a pending person cannot begin again (`registration.py:35`), and a notice
   that failed is not sent again (`expenses.py:594`).
2. **History and migration**: pages as offsets into a list that changes
   (`reports.py:68`); the columns `database.py` adds to an old file. A row from
   before the approval column is in Accounts already.
3. **Proofs**: that the ledger SettleUp changes record by record is the one
   `build_ledger` computes from the tables (Accounts builds it anew, SettleUp does
   not), whatever the order of the records.

Not planned: the HTTP request of `veryfi_client.py` (its result is an input of
Bill), `jalali_utils.py` (parsing and formatting: amounts enter as numbers), the
layout of `keyboards.py` (which buttons there are is in the models),
`groupsetup.py` (one setting no state depends on), `help.py` and `config.py`, the
Excel export, deployment files.

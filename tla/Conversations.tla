--------------------------- MODULE Conversations ---------------------------
(***************************************************************************)
(* One person's chat with the bot: five conversations, each with a state   *)
(* of its own, over the one user_data that PTB keeps for the person.       *)
(*                                                                         *)
(* An update goes to the first conversation, in the order of bot.py, that  *)
(* takes it: a closed one by its entry points, an open one by the handlers *)
(* of its state or by its fallbacks.  So several can be open at once, and  *)
(* what clears user_data clears it for all of them.                        *)
(*                                                                         *)
(* Of a key of user_data the model keeps whether it is there and how it    *)
(* got there.  A handler that reads a key that is not there raises: what   *)
(* it wrote before stays, the conversation stays where it is.  An answer   *)
(* that fails has the same effect once everything is written.  Buttons of  *)
(* every kind may be in the chat, left there by conversations that /cancel *)
(* or a restart ended.  The person is an active admin; Accounts and        *)
(* Membership have what changes in their rights.                           *)
(***************************************************************************)
EXTENDS Naturals, FiniteSets

CONSTANTS MaxCommits,  \* bound: records one conversation may write
          MaxOpen      \* bound: conversations open at once

ASSUME MaxCommitsAssumption == MaxCommits \in Nat
ASSUME MaxOpenAssumption    == MaxOpen \in Nat

VARIABLES state,   \* of each conversation
          data,    \* of each key of user_data
          made     \* what each conversation has recorded since it was opened

vars == <<state, data, made>>

-----------------------------------------------------------------------------
(* What a person can send *)

Labels   == {"BTN_ADMIN_MEMBERS", "BTN_NEW_EXPENSE", "BTN_NEW_PAYMENT", "BTN_PROGRAMS"}
Text     == Labels \cup {"words", "number"}   \* a number: whatever is asked for parses
Commands == {"/start", "/members", "/expense", "/payment", "/programs", "/cancel", "/other"}

Rank == [registration |-> 1, members |-> 2, expense |-> 3, payment |-> 4, program |-> 5]

Convs     == DOMAIN Rank
Recorders == {"expense", "payment", "program"}

EntryPoints ==
    [ registration |-> {"/start"},
      members      |-> {"/members", "BTN_ADMIN_MEMBERS"},
      expense      |-> {"/expense", "BTN_NEW_EXPENSE"},
      payment      |-> {"/payment", "BTN_NEW_PAYMENT"},
      program      |-> {"/programs", "BTN_PROGRAMS"} ]

\* The updates each state has a handler for.  Buttons that only redraw their
\* own keyboard stand for all of their pattern.
ExpenseHandlers ==
    [ EXP_DESC           |-> Text,
      EXP_PROGRAM_CHOICE |-> {"expprog_"},
      EXP_PARTICIPANTS   |-> {"toggle_", "participants_done"},
      EXP_SPLIT_MODE     |-> {"split_"},
      EXP_AMOUNT         |-> Text,
      EXP_WEIGHTS        |-> {"winc_", "weights_done"},
      EXP_CUSTOM_AMOUNTS |-> Text,
      EXP_OCR_PHOTO      |-> Text \cup {"photo"},
      EXP_OCR_ITEM       |-> {"itemtag_", "item_confirm"},
      EXP_OCR_REMAINDER  |-> {"remainder_split", "remainder_skip"},
      EXP_CONFIRM        |-> {"expense_change_payer", "expense_confirm", "expense_cancel"},
      EXP_CHANGE_PAYER   |-> {"payer_"},
      EXP_RECEIPT        |-> Text \cup {"photo", "receipt_skip"} ]
PaymentHandlers ==
    [ PAY_TARGET  |-> {"paytarget_"},
      PAY_AMOUNT  |-> Text,
      PAY_NOTE    |-> Text \cup {"note_skip"},
      PAY_CONFIRM |-> {"payment_confirm", "payment_cancel"},
      PAY_RECEIPT |-> Text \cup {"photo", "receipt_skip"} ]
ProgramHandlers ==
    [ PROG_MENU          |-> {"prog_new", "progcharge_req_"},
      PROG_NAME          |-> Text,
      PROG_PARTICIPANTS  |-> {"progtoggle_", "progparticipants_done"},
      PROG_WEIGHTS       |-> {"pwinc_", "pweights_done"},
      PROG_CARD          |-> Text,
      PROG_CONFIRM       |-> {"progcreate_confirm", "progcreate_cancel"},
      PROG_CHARGE_AMOUNT |-> Text ]
OtherHandlers ==
    [ REG_CARD |-> Text, REG_WEIGHT |-> Text,
      MEM_MENU |-> {"member_", "memedit_", "memedit_remove_"}, MEM_AWAIT |-> Text ]

StatesOf ==
    [ registration |-> {"REG_CARD", "REG_WEIGHT"},
      members      |-> {"MEM_MENU", "MEM_AWAIT"},    \* MEM_AWAIT_WEIGHT and _CARD
      expense      |-> DOMAIN ExpenseHandlers,
      payment      |-> DOMAIN PaymentHandlers,
      program      |-> DOMAIN ProgramHandlers ]

Handlers(s) ==
    CASE s \in DOMAIN ExpenseHandlers -> ExpenseHandlers[s]
      [] s \in DOMAIN PaymentHandlers -> PaymentHandlers[s]
      [] s \in DOMAIN ProgramHandlers -> ProgramHandlers[s]
      [] s \in DOMAIN OtherHandlers   -> OtherHandlers[s]

\* Every fallback is for a command; no conversation allows to be entered again.
Takes(c, u) ==
    IF state[c] = "closed" THEN u \in EntryPoints[c]
    ELSE u \in Handlers(state[c]) \cup Commands

Routed(c, u) == Takes(c, u) /\ \A b \in Convs : Rank[b] < Rank[c] => ~Takes(b, u)

-----------------------------------------------------------------------------
(* user_data *)

KeysOf ==
    [ registration |-> {"reg_user_id", "reg_card"},
      members      |-> {"mem_target_id"},
      expense      |-> {"exp_payer_id", "exp_description", "exp_program_id", "exp_selected",
                        "exp_split_mode", "exp_amount", "exp_shares", "exp_weights",
                        "exp_custom",   \* the queue, its index, the amounts
                        "exp_ocr",      \* items, index, tags, totals, printed total
                        "exp_ocr_photo_file_id", "exp_ocr_remainder", "exp_id_for_receipt"},
      payment      |-> {"pay_target",   \* a person's id or a program's
                        "pay_amount", "pay_note", "pay_id_for_receipt"},
      program      |-> {"prog_creator_id", "prog_name", "prog_selected", "prog_weights",
                        "prog_card", "prog_charge_program_id"} ]

Keys == UNION { KeysOf[c] : c \in Convs }

\* "own": written since its conversation was opened; "lost": so, but cleared by
\* now; "guess": a default the code put in its place; "old": left from before.
Marks   == {"unset", "own", "lost", "guess", "old"}
Present == {"own", "guess", "old"}

Has(d, keys)      == \A k \in keys : d[k] \in Present
Written(d, keys)  == [k \in Keys |-> IF k \in keys THEN "own" ELSE d[k]]
Defaulted(d, key) == [k \in Keys |-> IF k = key /\ d[k] \notin Present THEN "guess" ELSE d[k]]

\* user_data.clear()
Cleared(d) == [k \in Keys |-> IF d[k] \in {"own", "guess", "lost"} THEN "lost" ELSE "unset"]

\* A conversation begins or ends: whatever is there of it now is old.
Renewed(c, d) ==
    [k \in Keys |-> IF k \notin KeysOf[c] THEN d[k] ELSE IF d[k] \in Present THEN "old" ELSE "unset"]

\* named: the id for the receipt is that of the newest record
NothingMade == [count |-> 0, failed |-> FALSE, named |-> FALSE]

Init ==
    /\ state \in { [c \in Convs |-> IF c = "registration" THEN r ELSE "closed"] :
                     r \in {"closed"} \cup StatesOf["registration"] }
    /\ data = [k \in Keys |-> IF /\ state["registration"] # "closed"
                                 /\ \/ k = "reg_user_id"
                                    \/ k = "reg_card" /\ state["registration"] = "REG_WEIGHT"
                              THEN "own" ELSE "unset"]
    /\ made = [c \in Recorders |-> NothingMade]

-----------------------------------------------------------------------------
(* What handlers have in common *)

At(c, s, u) == state[c] = s /\ Routed(c, u)

Goto(c, s) == state' = [state EXCEPT ![c] = s]

\* Reads `first`, having written `w1`; then writes `w2` and reads `second`;
\* answers, and is in s unless the answer fails.
Handle(c, w1, first, w2, second, s) ==
    LET d1 == Written(data, w1)
        d2 == Written(d1, w2)
    IN  /\ UNCHANGED made
        /\ \/ ~Has(d1, first) /\ data' = d1 /\ UNCHANGED state
           \/ Has(d1, first) /\ ~Has(d2, second) /\ data' = d2 /\ UNCHANGED state
           \/ Has(d1, first) /\ Has(d2, second) /\ data' = d2 /\ (Goto(c, s) \/ UNCHANGED state)

End(c, d) == Goto(c, "closed") /\ data' = Renewed(c, d)

\* user_data.clear() and the end, if the message in between arrives.
ClearAndEnd(c) == End(c, Cleared(data)) \/ (data' = Cleared(data) /\ UNCHANGED state)

Finish(c) == ClearAndEnd(c) /\ UNCHANGED made

CanOpen(c) ==
    /\ state[c] = "closed" /\ \E u \in EntryPoints[c] : Routed(c, u)
    /\ Cardinality({ b \in Convs : state[b] # "closed" }) < MaxOpen

\* expense_entry, payment_entry, programs_entry
Open(c, w, s) ==
    /\ CanOpen(c)
    /\ data' = Written(Renewed(c, Cleared(data)), w)
    /\ Goto(c, s) \/ UNCHANGED state
    /\ made' = [x \in Recorders |-> IF x = c THEN NothingMade ELSE made[x]]

\* A confirmation commits first.  Then its answer fails, and everything stays;
\* or the flow goes on to ask for a receipt; or it is at its end.
Commit(c, reads, lost, named) ==
    /\ Has(data, reads) /\ made[c].count < MaxCommits
    /\ made' = [made EXCEPT ![c] = [count |-> @.count + 1, failed |-> @.failed \/ lost,
                                    named |-> named]]

\* Mutant: the id is set when it is not there yet.
CommitAndAskKeepsId(c, reads, key, s) ==
    \/ Commit(c, reads, TRUE, FALSE) /\ UNCHANGED <<state, data>>
    \/ \E ok \in BOOLEAN :
           /\ Commit(c, reads, ~ok, data[key] \notin Present)
           /\ data' = Written(data, {key})
           /\ IF ok THEN Goto(c, s) ELSE UNCHANGED state

\* Mutant: after the question the conversation stays at its preview.
CommitAndAskAgain(c, reads, key, s) ==
    /\ Commit(c, reads, FALSE, TRUE)
    /\ data' = Written(data, {key})
    /\ UNCHANGED state

CommitAndAsk(c, reads, key, s) ==
    \/ Commit(c, reads, TRUE, FALSE) /\ UNCHANGED <<state, data>>
    \/ \E ok \in BOOLEAN :
           /\ Commit(c, reads, ~ok, TRUE)
           /\ data' = Written(data, {key})
           /\ IF ok THEN Goto(c, s) ELSE UNCHANGED state

CommitAndEnd(c, reads) ==
    \/ Commit(c, reads, TRUE, FALSE) /\ UNCHANGED state /\ data' \in {data, Cleared(data)}
    \/ Commit(c, reads, FALSE, FALSE) /\ End(c, Cleared(data))

\* The last step of expense_conv and payment_conv: skipped, or attached to the
\* record `key` names.
Receipt(c, s, key) ==
    \/ At(c, s, "receipt_skip") /\ Finish(c)
    \/ \E u \in Text \cup {"photo"} : At(c, s, u) /\ Has(data, {key}) /\ Finish(c)

-----------------------------------------------------------------------------
(* expense_conv *)

ExpenseEntry == Open("expense", {"exp_payer_id"}, "EXP_DESC")

\* description_received: with programs, the question which; else _ask_participants
DescriptionReceived ==
    \E u \in Text :
        /\ At("expense", "EXP_DESC", u)
        /\ \/ Handle("expense", {"exp_description"}, {"exp_payer_id"}, {}, {}, "EXP_PROGRAM_CHOICE")
           \/ Handle("expense", {"exp_description"}, {"exp_payer_id"}, {"exp_selected"}, {},
                     "EXP_PARTICIPANTS")

ProgramChoice ==
    /\ At("expense", "EXP_PROGRAM_CHOICE", "expprog_")
    /\ Handle("expense", {"exp_program_id", "exp_selected"}, {}, {}, {}, "EXP_PARTICIPANTS")

\* participants_callback: everybody is selected when the selection is gone
Participants ==
    \E u \in ExpenseHandlers["EXP_PARTICIPANTS"] :
        /\ At("expense", "EXP_PARTICIPANTS", u)
        /\ data' = Defaulted(data, "exp_selected")
        /\ \/ u = "participants_done" /\ Goto("expense", "EXP_SPLIT_MODE")
           \/ UNCHANGED state
        /\ UNCHANGED made

SplitMode ==
    /\ At("expense", "EXP_SPLIT_MODE", "split_")
    /\ \/ Handle("expense", {"exp_split_mode"}, {"exp_selected"}, {"exp_custom"}, {},
                 "EXP_CUSTOM_AMOUNTS")
       \/ \E s \in {"EXP_OCR_PHOTO", "EXP_AMOUNT"} :
              Handle("expense", {"exp_split_mode"}, {}, {}, {}, s)

\* Mutant: the preview fills in what it does not find.
PreviewReadsWithDefaults == {"exp_amount", "exp_shares"}

\* _build_preview
PreviewReads == {"exp_payer_id", "exp_amount", "exp_description", "exp_shares", "exp_split_mode"}

\* amount_received, in "equal" mode to the preview, in "weighted" mode to the
\* weights.  Which mode was chosen is not kept.
AmountReceived ==
    /\ At("expense", "EXP_AMOUNT", "number")
    /\ \/ Handle("expense", {"exp_amount"}, {"exp_split_mode", "exp_selected"},
                 {"exp_shares", "exp_weights"}, PreviewReads, "EXP_CONFIRM")
       \/ Handle("expense", {"exp_amount"}, {"exp_split_mode", "exp_selected"},
                 {"exp_weights"}, {}, "EXP_WEIGHTS")

WeightsDone ==
    /\ At("expense", "EXP_WEIGHTS", "weights_done")
    /\ Handle("expense", {}, {"exp_weights", "exp_selected", "exp_amount"}, {"exp_shares"},
              PreviewReads, "EXP_CONFIRM")

\* Mutant: the path of custom amounts sets no weights.
FinalizeWithoutWeights(first) ==
    Handle("expense", {}, first, {"exp_amount", "exp_shares", "exp_selected"},
           PreviewReads, "EXP_CONFIRM")

\* _finalize_custom_shares, with something to record
Finalize(first) ==
    Handle("expense", {}, first, {"exp_amount", "exp_shares", "exp_weights", "exp_selected"},
           PreviewReads, "EXP_CONFIRM")

\* custom_amount_received: the next person, or the preview
CustomAmountReceived ==
    /\ At("expense", "EXP_CUSTOM_AMOUNTS", "number")
    /\ \/ Handle("expense", {}, {"exp_custom"}, {}, {}, "EXP_CUSTOM_AMOUNTS")
       \/ Finalize({"exp_custom"})

\* ocr_photo_received: the items, the custom amounts when nothing could be read,
\* or a status message that failed
OcrPhotoReceived ==
    /\ At("expense", "EXP_OCR_PHOTO", "photo")
    /\ \/ Handle("expense", {"exp_ocr_photo_file_id"}, {}, {"exp_ocr"}, {"exp_selected"},
                 "EXP_OCR_ITEM")
       \/ Handle("expense", {"exp_ocr_photo_file_id", "exp_split_mode"}, {"exp_selected"},
                 {"exp_custom"}, {}, "EXP_CUSTOM_AMOUNTS")
       \/ Handle("expense", {"exp_ocr_photo_file_id"}, {}, {}, {}, "EXP_OCR_PHOTO")

\* ocr_item_callback and _finish_ocr_items: the next item, the question about the
\* rest, the preview, or the end when nobody was tagged
OcrItem ==
    /\ At("expense", "EXP_OCR_ITEM", "item_confirm")
    /\ \/ Handle("expense", {}, {"exp_ocr"}, {}, {"exp_selected"}, "EXP_OCR_ITEM")
       \/ Handle("expense", {}, {"exp_ocr"}, {"exp_ocr_remainder"}, {}, "EXP_OCR_REMAINDER")
       \/ Finalize({"exp_ocr"})
       \/ Has(data, {"exp_ocr"}) /\ Finish("expense")

\* ocr_remainder_callback: no totals, and nothing to share out, are defaults
OcrRemainder ==
    \/ /\ At("expense", "EXP_OCR_REMAINDER", "remainder_split")
       /\ Finalize({"exp_selected"})
    \/ /\ At("expense", "EXP_OCR_REMAINDER", "remainder_skip")
       /\ (Has(data, {"exp_ocr"}) /\ Finalize({})) \/ Finish("expense")

ChangePayer ==
    \/ /\ At("expense", "EXP_CONFIRM", "expense_change_payer")
       /\ Handle("expense", {}, {}, {}, {}, "EXP_CHANGE_PAYER")
    \/ /\ At("expense", "EXP_CHANGE_PAYER", "payer_")
       /\ \E w \in {{}, {"exp_payer_id"}} :
              Handle("expense", w, PreviewReads, {}, {}, "EXP_CONFIRM")

\* What confirm_callback cannot do without
ExpenseReads == PreviewReads \cup {"exp_weights"}

\* confirm_callback: no question about a receipt if a photo was read
ConfirmExpense ==
    \/ /\ At("expense", "EXP_CONFIRM", "expense_confirm")
       /\ IF Has(data, {"exp_ocr_photo_file_id"})
          THEN CommitAndEnd("expense", ExpenseReads)
          ELSE CommitAndAsk("expense", ExpenseReads, "exp_id_for_receipt", "EXP_RECEIPT")
    \/ At("expense", "EXP_CONFIRM", "expense_cancel") /\ Finish("expense")

ExpenseReceipt == Receipt("expense", "EXP_RECEIPT", "exp_id_for_receipt")

-----------------------------------------------------------------------------
(* payment_conv *)

PaymentEntry == Open("payment", {}, "PAY_TARGET")

TargetChosen ==
    /\ At("payment", "PAY_TARGET", "paytarget_")
    /\ Handle("payment", {"pay_target"}, {}, {}, {}, "PAY_AMOUNT")

PayAmountReceived ==
    /\ At("payment", "PAY_AMOUNT", "number")
    /\ Handle("payment", {"pay_amount"}, {}, {}, {}, "PAY_NOTE")

\* Mutant: it returns the other flow's state.
NoteReceivedElsewhere ==
    \E u \in Text \cup {"note_skip"} :
        /\ At("payment", "PAY_NOTE", u)
        /\ Handle("payment", {"pay_note"}, {"pay_amount", "pay_target"}, {}, {}, "EXP_CONFIRM")

\* note_skip_callback, note_text_received and their preview
NoteReceived ==
    \E u \in Text \cup {"note_skip"} :
        /\ At("payment", "PAY_NOTE", u)
        /\ Handle("payment", {"pay_note"}, {"pay_amount", "pay_target"}, {}, {}, "PAY_CONFIRM")

\* payment_confirm_callback
ConfirmPayment ==
    \/ /\ At("payment", "PAY_CONFIRM", "payment_confirm")
       /\ CommitAndAsk("payment", {"pay_amount", "pay_target"}, "pay_id_for_receipt", "PAY_RECEIPT")
    \/ At("payment", "PAY_CONFIRM", "payment_cancel") /\ Finish("payment")

PaymentReceipt == Receipt("payment", "PAY_RECEIPT", "pay_id_for_receipt")

-----------------------------------------------------------------------------
(* program_conv *)

ProgramsEntry == Open("program", {}, "PROG_MENU")

\* program_menu_callback; what it shows or closes is in Accounts
ProgramMenu ==
    \/ /\ At("program", "PROG_MENU", "prog_new")
       /\ Handle("program", {"prog_creator_id"}, {}, {}, {}, "PROG_NAME")
    \/ /\ At("program", "PROG_MENU", "progcharge_req_")
       /\ Handle("program", {"prog_charge_program_id"}, {}, {}, {}, "PROG_CHARGE_AMOUNT")

ProgNameReceived ==
    \E u \in Text :
        /\ At("program", "PROG_NAME", u)
        /\ Handle("program", {"prog_name", "prog_selected"}, {}, {}, {}, "PROG_PARTICIPANTS")

\* prog_participants_callback: nobody is selected when the selection is gone, so
\* that "done" then needs another press before it goes on.
ProgParticipants ==
    \/ \E u \in ProgramHandlers["PROG_PARTICIPANTS"] :
           /\ At("program", "PROG_PARTICIPANTS", u)
           /\ data' = Defaulted(data, "prog_selected")
           /\ UNCHANGED <<state, made>>
    \/ /\ At("program", "PROG_PARTICIPANTS", "progparticipants_done")
       /\ Has(data, {"prog_selected"})
       /\ Handle("program", {"prog_weights"}, {}, {}, {}, "PROG_WEIGHTS")

ProgWeightsDone ==
    /\ At("program", "PROG_WEIGHTS", "pweights_done")
    /\ Handle("program", {}, {"prog_weights", "prog_selected"}, {}, {}, "PROG_CARD")

ProgCardReceived ==
    /\ At("program", "PROG_CARD", "number")
    /\ Handle("program", {"prog_card"}, {"prog_name", "prog_weights"}, {}, {}, "PROG_CONFIRM")

ProgramReads == {"prog_name", "prog_card", "prog_creator_id", "prog_weights"}

\* prog_confirm_callback
ConfirmProgram ==
    \/ /\ At("program", "PROG_CONFIRM", "progcreate_confirm")
       /\ CommitAndEnd("program", ProgramReads)
    \/ At("program", "PROG_CONFIRM", "progcreate_cancel") /\ Finish("program")

\* prog_charge_amount_received: messages only
ProgChargeAmountReceived ==
    /\ At("program", "PROG_CHARGE_AMOUNT", "number")
    /\ Has(data, {"prog_charge_program_id"})
    /\ Finish("program")

-----------------------------------------------------------------------------
(* members_conv and registration_conv, as far as they take updates and touch *)
(* user_data                                                                 *)

\* members_entry clears nothing, and is a fallback too.
MembersEntry ==
    \/ /\ CanOpen("members")
       /\ data' = Renewed("members", data)
       /\ Goto("members", "MEM_MENU")
       /\ UNCHANGED made
    \/ /\ state["members"] # "closed" /\ Routed("members", "/members")
       /\ Handle("members", {}, {}, {}, {}, "MEM_MENU")

MembersMenu ==
    \/ \E u \in {"member_", "memedit_"} :
           /\ At("members", "MEM_MENU", u)
           /\ Handle("members", {"mem_target_id"}, {}, {}, {},
                     IF u = "memedit_" THEN "MEM_AWAIT" ELSE "MEM_MENU")
    \/ At("members", "MEM_MENU", "memedit_remove_") /\ End("members", data) /\ UNCHANGED made

\* weight_received, card_received
MemberEdited ==
    /\ At("members", "MEM_AWAIT", "number")
    /\ Handle("members", {}, {"mem_target_id"}, {}, {}, "MEM_MENU")

RegCardReceived ==
    /\ At("registration", "REG_CARD", "number")
    /\ Handle("registration", {"reg_card"}, {}, {}, {}, "REG_WEIGHT")

RegWeightReceived ==
    /\ At("registration", "REG_WEIGHT", "number")
    /\ Has(data, {"reg_user_id", "reg_card"})
    /\ Finish("registration")

-----------------------------------------------------------------------------
(* cancel_conversation, the fallback of every conversation *)

\* Mutant: whoever is approved while they register has no way out.
CancelConversationNotRegistration(c, u) ==
    /\ c # "registration"
    /\ state[c] # "closed" /\ Routed(c, u)
    /\ ~(c = "members" /\ u = "/members")
    /\ Finish(c)

CancelConversation(c, u) ==
    /\ state[c] # "closed" /\ Routed(c, u)
    /\ ~(c = "members" /\ u = "/members")
    /\ Finish(c)

\* Nothing of a chat is persistent.
Restart ==
    /\ state' = [c \in Convs |-> "closed"]
    /\ data' = [k \in Keys |-> "unset"]
    /\ made' = [c \in Recorders |-> NothingMade]

Expense == \/ ExpenseEntry \/ DescriptionReceived \/ ProgramChoice \/ Participants \/ SplitMode
           \/ AmountReceived \/ WeightsDone \/ CustomAmountReceived \/ OcrPhotoReceived \/ OcrItem
           \/ OcrRemainder \/ ChangePayer \/ ConfirmExpense \/ ExpenseReceipt
Payment == \/ PaymentEntry \/ TargetChosen \/ PayAmountReceived \/ NoteReceived
           \/ ConfirmPayment \/ PaymentReceipt
Program == \/ ProgramsEntry \/ ProgramMenu \/ ProgNameReceived \/ ProgParticipants
           \/ ProgWeightsDone \/ ProgCardReceived \/ ConfirmProgram \/ ProgChargeAmountReceived
Others  == MembersEntry \/ MembersMenu \/ MemberEdited \/ RegCardReceived \/ RegWeightReceived

Next == \/ Expense \/ Payment \/ Program \/ Others
        \/ \E c \in Convs, u \in Commands : CancelConversation(c, u)
        \/ Restart

Spec == Init /\ [][Next]_vars

\* Somebody who wants out sends /cancel until it has an effect.
SendCancel == \E c \in Convs : CancelConversation(c, "/cancel")
FairSpec   == Spec /\ WF_vars(SendCancel /\ state' # state)

-----------------------------------------------------------------------------
(* Properties *)

TypeOK ==
    /\ state \in [Convs -> {"closed"} \cup UNION { StatesOf[c] : c \in Convs }]
    /\ \A c \in Convs : state[c] \in StatesOf[c] \cup {"closed"}
    /\ data \in [Keys -> Marks]
    /\ made \in [Recorders -> [count : 0 .. MaxCommits, failed : BOOLEAN, named : BOOLEAN]]

\* What the handlers of a state read without a default.
Needed(s) ==
    CASE s = "EXP_DESC" -> {"exp_payer_id"}
      [] s = "EXP_SPLIT_MODE" -> {"exp_selected"}
      [] s = "EXP_OCR_PHOTO" -> {"exp_selected"}
      [] s = "EXP_AMOUNT" -> {"exp_split_mode", "exp_selected"}
      [] s = "EXP_WEIGHTS" -> {"exp_weights", "exp_selected", "exp_amount", "exp_payer_id",
                               "exp_description", "exp_split_mode"}
      [] s = "EXP_CUSTOM_AMOUNTS" -> {"exp_custom", "exp_payer_id", "exp_description",
                                      "exp_split_mode"}
      [] s = "EXP_OCR_ITEM" -> {"exp_ocr", "exp_selected", "exp_payer_id", "exp_description",
                                "exp_split_mode"}
      [] s = "EXP_OCR_REMAINDER" -> {"exp_selected", "exp_payer_id", "exp_description",
                                     "exp_split_mode"}
      [] s \in {"EXP_CONFIRM", "EXP_CHANGE_PAYER"} ->
             {"exp_payer_id", "exp_amount", "exp_description", "exp_shares", "exp_split_mode",
              "exp_weights"}
      [] s = "EXP_RECEIPT" -> {"exp_id_for_receipt"}
      [] s \in {"PAY_NOTE", "PAY_CONFIRM"} -> {"pay_amount", "pay_target"}
      [] s = "PAY_RECEIPT" -> {"pay_id_for_receipt"}
      [] s = "PROG_WEIGHTS" -> {"prog_weights", "prog_selected"}
      [] s = "PROG_CARD" -> {"prog_name", "prog_weights"}
      [] s = "PROG_CONFIRM" -> {"prog_name", "prog_card", "prog_creator_id", "prog_weights"}
      [] s = "PROG_CHARGE_AMOUNT" -> {"prog_charge_program_id"}
      [] s = "MEM_AWAIT" -> {"mem_target_id"}
      [] s = "REG_WEIGHT" -> {"reg_user_id", "reg_card"}
      [] OTHER -> {}

Wiped(c) == \E k \in KeysOf[c] : data[k] \in {"lost", "guess"}

\* Along every path of every conversation, with retries, steps back and other
\* conversations in between, all a state's handlers read has been set, unless
\* another conversation has cleared it (expenses.py:53, payments.py:29, common.py:81, ...).
NothingMissing ==
    \A c \in Convs : state[c] # "closed" /\ ~Wiped(c) => Has(data, Needed(state[c]))

RecordKeys == [ expense |-> KeysOf["expense"],
                payment |-> KeysOf["payment"],
                program |-> KeysOf["program"] \ {"prog_charge_program_id"} ]

\* A record is made of what was collected for it since its conversation was
\* opened, and of all of it: never of something older, and never of the defaults
\* that stand in for what another conversation has cleared (expenses.py:81-88
\* and 558-571, payments.py:113-141, programs.py:280-286).
RecordsWhatWasCollected ==
    [][\A c \in Recorders :
           made'[c].count > made[c].count =>
               \A k \in RecordKeys[c] : data[k] \in {"own", "unset"}]_vars

\* One preview is recorded twice only by somebody whose confirmation got no
\* answer (expenses.py:561, payments.py:141, programs.py:281).
OneRecordPerPreview ==
    \A c \in Recorders : made[c].count > 1 => made[c].failed

\* Whoever is asked for a receipt has just made a record, and the id the receipt
\* will be attached to is that record's and not an earlier one's, however often
\* the confirmation was repeated (expenses.py:619, payments.py:163).
ReceiptOfNewest ==
    \A c \in {"expense", "payment"} :
        state[c] \in {"EXP_RECEIPT", "PAY_RECEIPT"} => made[c].count > 0 /\ made[c].named

Idle == \A c \in Convs : state[c] = "closed"

\* However tangled the conversations are and whatever their data has lost,
\* somebody who from now on sends nothing but /cancel gets out of all of them
\* (common.py:80).
CancelGetsOut == <>[][SendCancel]_vars => []<>Idle
=============================================================================

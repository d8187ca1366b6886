-------------------------------- MODULE Bill --------------------------------
(***************************************************************************)
(* How one expense is divided: from the question how to split it up to the *)
(* preview, by headcount, equally, with an amount for each person, or item *)
(* by item from the photo of a receipt.                                    *)
(*                                                                         *)
(* A handler writes what it has to, then sends or edits a message; when    *)
(* that fails the conversation stays where it was with everything already  *)
(* written, and the same button or text is handled a second time.  One     *)
(* expense of one person: Conversations has what other conversations and   *)
(* /cancel do to it.  Buttons of earlier expenses may still be in the      *)
(* chat, so that a press can name anybody.                                 *)
(***************************************************************************)
EXTENDS SplitEngine

CONSTANTS People,        \* user ids
          Weight,        \* user id -> the headcount of their profile
          MaxWeight,     \* what the weights keyboard goes up to (20 in the code)
          Amounts,       \* amounts a person types in
          ItemAmounts,   \* what Veryfi may read for an item; discounts are negative
          Totals,        \* printed totals it may read; 0 for none
          MaxItems,      \* bound: items on a receipt
          MaxFailures    \* bound: messages that fail

ASSUME PeopleAssumption  == IsFiniteSet(People) /\ People \subseteq Nat
ASSUME WeightsAssumption == MaxWeight \in Nat \ {0} /\ Weight \in [People -> 1 .. MaxWeight]
ASSUME SumsAssumption    == Amounts \subseteq Nat \ {0} /\ ItemAmounts \subseteq Int \ {0}
                            /\ Totals \subseteq Int
ASSUME BoundsAssumption  == MaxItems \in Nat /\ MaxFailures \in Nat

VARIABLES step,      \* the state of expense_conv, or "END"
          draft,     \* exp_split_mode, exp_selected, exp_amount, exp_weights, exp_shares
          custom,    \* todo: those of exp_custom_queue still to come; exp_custom_amounts
          ocr,       \* exp_ocr_items, _document_total, _index, _selected, _totals, _remainder
          failures,  \* messages that failed so far
          told       \* history: what the person saw and said

vars == <<step, draft, custom, ocr, failures, told>>

Nobody    == [p \in {} |-> 0]
ItemLists == UNION { [1 .. n -> ItemAmounts] : n \in 1 .. MaxItems }

\* extract_receipt: at least one item, none of 0; a receipt without an item raises
Extractions == [items : ItemLists, printed : Totals]

Init ==
    /\ step = "EXP_SPLIT_MODE"
    /\ \E present \in (SUBSET People) \ {{}} :
           draft = [mode |-> "none", selected |-> present, amount |-> 0,
                    weights |-> Nobody, shares |-> Nobody]
    /\ custom = [todo |-> {}, amounts |-> Nobody]
    /\ ocr = [items |-> <<>>, printed |-> 0, index |-> 1, tagged |-> {},
              totals |-> Nobody, remainder |-> 0]
    /\ failures = 0
    \* asked: whose amount the last question to arrive was about; meant: the
    \* amounts given for them; covered: the items somebody pays for; splits: how
    \* often the rest of the receipt was shared out
    /\ told = [asked |-> {}, meant |-> Nobody, covered |-> {}, splits |-> 0]

-----------------------------------------------------------------------------
(* What the handlers have in common *)

Arrives  == UNCHANGED failures
Fails    == failures < MaxFailures /\ failures' = failures + 1

\* The answer arrives and the conversation is in s, or it fails.
Answer(s) == (Arrives /\ step' = s) \/ (Fails /\ UNCHANGED step)

\* totals[uid] = totals.get(uid, 0) + add, for everybody in `add`
Credit(totals, add) ==
    [u \in DOMAIN totals \cup DOMAIN add |->
        (IF u \in DOMAIN totals THEN totals[u] ELSE 0) + (IF u \in DOMAIN add THEN add[u] ELSE 0)]

\* Mutant: what does not divide is dropped.
SplitEvenlyFloor(sum, present) == [u \in present |-> sum \div Cardinality(present)]

\* Both loops of the receipt: the last by id takes what does not divide.
SplitEvenly(sum, present) ==
    LET n == Cardinality(present)
    IN  [u \in present |-> (sum \div n) + (IF u = Max(present) THEN sum % n ELSE 0)]

\* Mutant: the amount is added up before those without a share are left out.
FinalizeSumsAll(totals) ==
    LET paying == { u \in DOMAIN totals : totals[u] > 0 }
    IN  IF paying = {} THEN Answer("END") /\ UNCHANGED draft
        ELSE /\ draft' = [draft EXCEPT !.amount = SumFunction(totals),
                                       !.shares = Restrict(totals, paying),
                                       !.weights = [u \in paying |-> 1],
                                       !.selected = paying]
             /\ Answer("EXP_CONFIRM")

\* _finalize_custom_shares
Finalize(totals) ==
    LET paying == { u \in DOMAIN totals : totals[u] > 0 }
        shares == Restrict(totals, paying)
    IN  IF paying = {} THEN Answer("END") /\ UNCHANGED draft
        ELSE /\ draft' = [draft EXCEPT !.amount = SumFunction(shares), !.shares = shares,
                                       !.weights = [u \in paying |-> 1],
                                       !.selected = paying]
             /\ Answer("EXP_CONFIRM")

\* _start_custom_amounts
StartCustomAmounts ==
    /\ draft' = [draft EXCEPT !.mode = "custom"]
    /\ custom' = [todo |-> draft.selected, amounts |-> Nobody]
    /\ Answer("EXP_CUSTOM_AMOUNTS")
    /\ told' = [told EXCEPT !.asked = IF Arrives THEN {Min(draft.selected)} ELSE @]

-----------------------------------------------------------------------------
(* split_mode_callback *)

SplitCustom == step = "EXP_SPLIT_MODE" /\ StartCustomAmounts /\ UNCHANGED ocr

SplitOcr ==
    /\ step = "EXP_SPLIT_MODE"
    /\ draft' = [draft EXCEPT !.mode = "custom"]
    /\ Answer("EXP_OCR_PHOTO")
    /\ UNCHANGED <<custom, ocr, told>>

SplitByHead(mode) ==
    /\ step = "EXP_SPLIT_MODE"
    /\ draft' = [draft EXCEPT !.mode = mode]
    /\ Answer("EXP_AMOUNT")
    /\ UNCHANGED <<custom, ocr, told>>

-----------------------------------------------------------------------------
(* Equally, or by headcount *)

\* amount_received: everybody counts once, or as in their profile to begin with
AmountReceived(amount) ==
    /\ step = "EXP_AMOUNT"
    /\ IF draft.mode = "equal"
       THEN LET ones == [u \in draft.selected |-> 1]
            IN  /\ draft' = [draft EXCEPT !.amount = amount, !.weights = ones,
                                          !.shares = CalculateShares(amount, ones, "equal")]
                /\ Answer("EXP_CONFIRM")
       ELSE /\ draft' = [draft EXCEPT !.amount = amount,
                                      !.weights = Restrict(Weight, draft.selected)]
            /\ Answer("EXP_WEIGHTS")
    /\ UNCHANGED <<custom, ocr, told>>

\* Mutant: the keyboard goes on for ever.
WeightChangedUnbounded(u, by) ==
    /\ step = "EXP_WEIGHTS"
    /\ draft' = [draft EXCEPT !.weights =
                    [v \in DOMAIN @ \cup {u} |->
                        IF v = u THEN (IF u \in DOMAIN @ THEN @[u] ELSE 1) + by ELSE @[v]]]
    /\ UNCHANGED <<step, custom, ocr, failures, told>>

\* weights_callback, "winc_" and "wdec_": what a stale button names counts from 1
WeightChanged(u, by) ==
    /\ step = "EXP_WEIGHTS"
    /\ LET old   == IF u \in DOMAIN draft.weights THEN draft.weights[u] ELSE 1
           clamp == Min({MaxWeight, Max({1, old + by})})
       IN  draft' = [draft EXCEPT !.weights =
                        [v \in DOMAIN @ \cup {u} |-> IF v = u THEN clamp ELSE @[v]]]
    /\ UNCHANGED <<step, custom, ocr, failures, told>>

\* Mutant: the profiles count, not what was set.
WeightsDoneByProfile ==
    /\ step = "EXP_WEIGHTS"
    /\ draft' = [draft EXCEPT !.shares =
                    CalculateShares(draft.amount, Restrict(Weight, draft.selected), "weighted")]
    /\ Answer("EXP_CONFIRM")
    /\ UNCHANGED <<custom, ocr, told>>

WeightsDone ==
    /\ step = "EXP_WEIGHTS"
    /\ draft' = [draft EXCEPT !.shares =
                    CalculateShares(draft.amount, Restrict(draft.weights, draft.selected),
                                    "weighted")]
    /\ Answer("EXP_CONFIRM")
    /\ UNCHANGED <<custom, ocr, told>>

-----------------------------------------------------------------------------
(* An amount for each person *)

\* custom_amount_received, for the person whose index it is
TakeAmount(u, amount) ==
    LET amounts == Credit(custom.amounts, [v \in {u} |-> amount])
        todo    == custom.todo \ {Min(custom.todo)}
    IN  /\ custom' = [todo |-> todo, amounts |-> amounts]
        /\ IF todo = {} THEN Finalize(amounts)
           ELSE Answer("EXP_CUSTOM_AMOUNTS") /\ UNCHANGED draft
        /\ told' = [asked |-> IF Arrives /\ todo # {} THEN {Min(todo)} ELSE told.asked,
                    meant |-> Credit(told.meant, [v \in told.asked |-> amount]),
                    covered |-> told.covered, splits |-> told.splits]

\* Mutant: the queue is read from its other end.
CustomAmountReceivedReversed(amount) ==
    /\ step = "EXP_CUSTOM_AMOUNTS" /\ custom.todo # {}
    /\ TakeAmount(Max(custom.todo), amount)
    /\ UNCHANGED ocr

\* queue[idx] raises when the answer to the last amount failed.
CustomAmountReceived(amount) ==
    /\ step = "EXP_CUSTOM_AMOUNTS" /\ custom.todo # {}
    /\ TakeAmount(Min(custom.todo), amount)
    /\ UNCHANGED ocr

-----------------------------------------------------------------------------
(* Item by item *)

\* ocr_photo_received, with what Veryfi found; or nothing could be read
OcrPhotoReceived ==
    /\ step = "EXP_OCR_PHOTO"
    /\ \/ /\ \E result \in Extractions :
                 ocr' = [ocr EXCEPT !.items = result.items, !.printed = result.printed,
                                    !.index = 1, !.tagged = {}, !.totals = Nobody]
          /\ Answer("EXP_OCR_ITEM")
          /\ UNCHANGED <<draft, custom, told>>
       \/ StartCustomAmounts /\ UNCHANGED ocr

\* ocr_item_callback, "itemtag_"
ItemTagged(u) ==
    /\ step = "EXP_OCR_ITEM"
    /\ ocr' = [ocr EXCEPT !.tagged = IF u \in @ THEN @ \ {u} ELSE @ \cup {u}]
    /\ UNCHANGED <<step, draft, custom, failures, told>>

\* _finish_ocr_items: no total, or 0, is no question about a rest
FinishOcrItems(totals) ==
    LET assigned == SumFunction(totals)
    IN  IF ocr.printed # 0 /\ ocr.printed > assigned
        THEN /\ ocr' = [ocr EXCEPT !.index = @ + 1, !.tagged = {}, !.totals = totals,
                                   !.remainder = ocr.printed - assigned]
             /\ Answer("EXP_OCR_REMAINDER") /\ UNCHANGED draft
        ELSE /\ ocr' = [ocr EXCEPT !.index = @ + 1, !.tagged = {}, !.totals = totals]
             /\ Finalize(totals)

NextItem(totals) ==
    /\ ocr' = [ocr EXCEPT !.index = @ + 1, !.tagged = {}, !.totals = totals]
    /\ Answer("EXP_OCR_ITEM") /\ UNCHANGED draft

Assigned(to) ==
    IF to = {} THEN ocr.totals ELSE Credit(ocr.totals, SplitEvenly(ocr.items[ocr.index], to))

Covering(to) ==
    told' = [told EXCEPT !.covered = IF to = {} THEN @ ELSE @ \cup {ocr.index}]

\* Mutants: one item more than there are; the index stands still.
ItemDoneOneMore(to) ==
    /\ step = "EXP_OCR_ITEM" /\ ocr.index <= Len(ocr.items)
    /\ IF ocr.index > Len(ocr.items) THEN FinishOcrItems(Assigned(to)) ELSE NextItem(Assigned(to))
    /\ Covering(to) /\ UNCHANGED custom
ItemDoneAgain(to) ==
    /\ step = "EXP_OCR_ITEM" /\ ocr.index <= Len(ocr.items)
    /\ ocr' = [ocr EXCEPT !.tagged = {}]
    /\ Answer("EXP_OCR_ITEM") /\ Covering(to) /\ UNCHANGED <<draft, custom>>

\* ocr_item_callback: items[idx] raises when the answer to the last item failed.
ItemDone(to) ==
    /\ step = "EXP_OCR_ITEM" /\ ocr.index <= Len(ocr.items)
    /\ IF ocr.index = Len(ocr.items) THEN FinishOcrItems(Assigned(to)) ELSE NextItem(Assigned(to))
    /\ Covering(to) /\ UNCHANGED custom

ItemConfirm == ItemDone(ocr.tagged)
ItemNone    == ItemDone({})

\* ocr_remainder_callback: the totals are changed in place
RemainderSplit ==
    /\ step = "EXP_OCR_REMAINDER"
    /\ LET totals == Credit(ocr.totals, SplitEvenly(ocr.remainder, draft.selected))
       IN  ocr' = [ocr EXCEPT !.totals = totals] /\ Finalize(totals)
    /\ told' = [told EXCEPT !.splits = @ + 1]
    /\ UNCHANGED custom

RemainderSkip ==
    /\ step = "EXP_OCR_REMAINDER"
    /\ Finalize(ocr.totals)
    /\ UNCHANGED <<custom, ocr, told>>

-----------------------------------------------------------------------------
\* What moves the expense on.
Proceed == \/ SplitCustom \/ SplitOcr \/ \E mode \in {"equal", "weighted"} : SplitByHead(mode)
           \/ \E a \in Amounts : AmountReceived(a) \/ CustomAmountReceived(a)
           \/ WeightsDone \/ OcrPhotoReceived \/ ItemConfirm \/ ItemNone
           \/ RemainderSplit \/ RemainderSkip

Next == \/ Proceed
        \/ \E u \in People, by \in {-1, 1} : WeightChanged(u, by)
        \/ \E u \in People : ItemTagged(u)

Spec == Init /\ [][Next]_vars

\* A person who has begun an expense goes on with it.
FairSpec == Spec /\ WF_vars(Proceed)

-----------------------------------------------------------------------------
(* Properties *)

Steps == {"EXP_SPLIT_MODE", "EXP_AMOUNT", "EXP_WEIGHTS", "EXP_CUSTOM_AMOUNTS", "EXP_OCR_PHOTO",
          "EXP_OCR_ITEM", "EXP_OCR_REMAINDER", "EXP_CONFIRM", "END"}

\* Headcounts stay what a profile could be (expenses.py:273-276), shares and
\* amounts whole numbers.
TypeOK ==
    /\ step \in Steps /\ failures \in 0 .. MaxFailures
    /\ draft.mode \in {"none", "equal", "weighted", "custom"}
    /\ draft.selected \in (SUBSET People) \ {{}}
    /\ draft.amount \in Nat
    /\ DOMAIN draft.weights \subseteq People
    /\ \A u \in DOMAIN draft.weights : draft.weights[u] \in 1 .. MaxWeight
    /\ DOMAIN draft.shares \subseteq People
    /\ \A u \in DOMAIN draft.shares : draft.shares[u] \in Nat
    /\ custom.todo \subseteq People /\ ocr.tagged \subseteq People
    /\ ocr.index \in 1 .. Len(ocr.items) + 1
    /\ DOMAIN ocr.totals \subseteq People

\* Whatever the way, and however often an answer failed, the previewed shares
\* add up to the previewed amount and every one of them has its weight
\* (expenses.py:567-568 records them side by side).
SharesAddUp ==
    step = "EXP_CONFIRM" =>
        /\ draft.amount > 0 /\ draft.amount = SumFunction(draft.shares)
        /\ DOMAIN draft.shares = draft.selected
        /\ draft.selected \subseteq DOMAIN draft.weights

\* By headcount nobody but the last by id pays more than their exact part, and
\* the last one less than one unit for each of the others.
FairShares ==
    step = "EXP_CONFIRM" /\ draft.mode \in {"equal", "weighted"} =>
        LET weights  == Restrict(draft.weights, draft.selected)
            total    == SumFunction(weights)
            excess(u) == draft.shares[u] * total - draft.amount * weights[u]
        IN  \A u \in draft.selected :
                /\ excess(u) > -total
                /\ excess(u) < (IF u = Max(draft.selected) THEN total * Cardinality(draft.selected)
                                ELSE 1)

NoDiscount == \A i \in DOMAIN ocr.items : ocr.items[i] > 0

\* The expense of a receipt is the sum of the items somebody was tagged for, each
\* once however often a message failed; or the printed total if its rest was
\* shared out.  No unit is lost in dividing.  Only the rest can be shared out
\* again, by repeating it after a failed message.  Discounts can only make the
\* expense more, as whoever has nothing left to pay is dropped (expenses.py:319).
ReceiptIsMet ==
    step = "EXP_CONFIRM" /\ ocr.items # <<>> /\ custom.amounts = Nobody =>
        LET due == IF told.splits = 0 THEN SumFunctionOnSet(ocr.items, told.covered)
                   ELSE ocr.printed + (told.splits - 1) * ocr.remainder
        IN  /\ draft.amount >= due /\ (NoDiscount => draft.amount = due)
            /\ told.splits > 1 => failures > 0

\* When every message arrived, each person's share is the amount that was given
\* for them when they were asked about.
AmountsAsAsked ==
    step = "EXP_CONFIRM" /\ custom.amounts # Nobody /\ failures = 0 => draft.shares = told.meant

Stuck == \/ step = "EXP_CUSTOM_AMOUNTS" /\ custom.todo = {}
         \/ step = "EXP_OCR_ITEM" /\ ocr.index > Len(ocr.items)

\* The index goes past the last person or item, where only /cancel helps, after
\* a failed message and in no other way (expenses.py:310, 424).
StuckOnlyAfterFailure == Stuck => failures > 0

\* Somebody who goes on answering gets to the preview, or to the end of an
\* expense nobody has a share of, or is stuck as above.
WizardEnds == <>(step \in {"EXP_CONFIRM", "END"} \/ Stuck)
=============================================================================

---------------------------- MODULE Bill_proofs ----------------------------
(* Bill, for any number of people, items and failures: as long as messages  *)
(* arrive nobody gets stuck in the middle of an expense and typed amounts   *)
(* go to whom they were meant for; whatever happens, the previewed shares   *)
(* add up, are fair by headcount, and are what the receipt says.            *)
EXTENDS Bill, SplitEngine_proofs

-----------------------------------------------------------------------------
(* Rows keep their fields. *)

Shape ==
    /\ DOMAIN draft = {"mode", "selected", "amount", "weights", "shares"}
    /\ DOMAIN ocr = {"items", "printed", "index", "tagged", "totals", "remainder"}
    /\ failures \in Nat

\* Somebody is always selected; before the first failed message there is always
\* a person to ask about, or an item to show.
Inv ==
    /\ Shape
    /\ draft.selected # {}
    /\ ocr.index \in Nat /\ Len(ocr.items) \in Nat
    /\ step = "EXP_CUSTOM_AMOUNTS" /\ failures = 0 => custom.todo # {}
    /\ step = "EXP_OCR_ITEM" /\ failures = 0 => ocr.index <= Len(ocr.items)

LEMMA InvStuck == Inv => StuckOnlyAfterFailure
BY DEF Inv, Shape, StuckOnlyAfterFailure, Stuck

LEMMA InvInit == Init => Inv
<1> SUFFICES ASSUME Init PROVE Inv
    OBVIOUS
<1>1. PICK present \in (SUBSET People) \ {{}} :
          draft = [mode |-> "none", selected |-> present, amount |-> 0,
                   weights |-> Nobody, shares |-> Nobody]
    BY DEF Init
<1>2. /\ step = "EXP_SPLIT_MODE" /\ failures = 0
      /\ ocr = [items |-> <<>>, printed |-> 0, index |-> 1, tagged |-> {},
                totals |-> Nobody, remainder |-> 0]
    BY DEF Init
<1>3. /\ DOMAIN draft = {"mode", "selected", "amount", "weights", "shares"}
      /\ draft.selected # {}
    BY <1>1
<1>4. /\ DOMAIN ocr = {"items", "printed", "index", "tagged", "totals", "remainder"}
      /\ ocr.index = 1 /\ ocr.items = <<>>
    BY <1>2
<1>5. Len(ocr.items) = 0
    BY <1>4
<1> QED BY <1>2, <1>3, <1>4, <1>5 DEF Inv, Shape

-----------------------------------------------------------------------------
(* The parts of the handlers *)

LEMMA AnswerEffect ==
    ASSUME failures \in Nat, NEW s, Answer(s)
    PROVE  /\ failures' \in Nat
           /\ failures' = 0 => failures = 0 /\ step' = s
BY DEF Answer, Arrives, Fails

\* A receipt that could be read has an item.
LEMMA ItemListsHaveItems == \A items \in ItemLists : Len(items) \in Nat /\ Len(items) >= 1
<1> SUFFICES ASSUME NEW items \in ItemLists PROVE Len(items) \in Nat /\ Len(items) >= 1
    OBVIOUS
<1>1. PICK n \in 1 .. MaxItems : items \in [1 .. n -> ItemAmounts]
    BY DEF ItemLists
<1>2. items \in Seq(ItemAmounts) /\ Len(items) = n
    BY <1>1, BoundsAssumption
<1> QED BY <1>1, <1>2, BoundsAssumption

\* Whoever pays stays selected, and the amounts and items are left behind.
LEMMA FinalizeEffect ==
    ASSUME Inv, NEW totals, Finalize(totals)
    PROVE  /\ DOMAIN draft' = DOMAIN draft /\ draft'.selected # {} /\ failures' \in Nat
           /\ failures' = 0 => failures = 0 /\ step' \in {"END", "EXP_CONFIRM"}
<1> DEFINE paying == { u \in DOMAIN totals : totals[u] > 0 }
<1>1. CASE paying = {}
    <2>1. Answer("END") /\ UNCHANGED draft
        BY <1>1 DEF Finalize
    <2> QED BY <2>1, AnswerEffect DEF Inv, Shape
<1>2. CASE paying # {}
    <2>1. PICK amount, shares, weights :
              draft' = [draft EXCEPT !.amount = amount, !.shares = shares, !.weights = weights,
                                     !.selected = paying]
        BY <1>2 DEF Finalize
    <2>2. Answer("EXP_CONFIRM")
        BY <1>2 DEF Finalize
    <2> HIDE DEF paying
    <2>3. DOMAIN draft' = DOMAIN draft /\ draft'.selected = paying
        BY <2>1 DEF Inv, Shape
    <2> QED BY <1>2, <2>2, <2>3, AnswerEffect DEF Inv, Shape
<1> QED BY <1>1, <1>2

LEMMA StartEffect ==
    ASSUME Inv, StartCustomAmounts, UNCHANGED ocr
    PROVE  Inv'
<1>1. /\ draft' = [draft EXCEPT !.mode = "custom"]
      /\ custom' = [todo |-> draft.selected, amounts |-> Nobody]
      /\ Answer("EXP_CUSTOM_AMOUNTS")
    BY DEF StartCustomAmounts
<1>2. DOMAIN draft' = DOMAIN draft /\ draft'.selected = draft.selected
    BY <1>1 DEF Inv, Shape
<1>3. custom'.todo = draft.selected
    BY <1>1
<1> QED BY <1>1, <1>2, <1>3, AnswerEffect DEF Inv, Shape

LEMMA TakeAmountKeeps ==
    ASSUME Inv, NEW amount, CustomAmountReceived(amount)
    PROVE  Inv'
<1> DEFINE todo == custom.todo \ {Min(custom.todo)}
<1>1. PICK amounts : /\ custom' = [todo |-> todo, amounts |-> amounts]
                     /\ IF todo = {} THEN Finalize(amounts)
                        ELSE Answer("EXP_CUSTOM_AMOUNTS") /\ UNCHANGED draft
    BY DEF CustomAmountReceived, TakeAmount
<1>2. UNCHANGED ocr
    BY DEF CustomAmountReceived
<1> HIDE DEF todo
<1>3. custom'.todo = todo
    BY <1>1
<1>4. CASE todo = {}
    <2>1. /\ DOMAIN draft' = DOMAIN draft /\ draft'.selected # {} /\ failures' \in Nat
          /\ failures' = 0 => failures = 0 /\ step' \in {"END", "EXP_CONFIRM"}
        BY <1>1, <1>4, FinalizeEffect
    <2> QED BY <1>2, <2>1 DEF Inv, Shape
<1>5. CASE todo # {}
    BY <1>1, <1>2, <1>3, <1>5, AnswerEffect DEF Inv, Shape
<1> QED BY <1>4, <1>5

LEMMA ItemDoneKeeps ==
    ASSUME Inv, NEW to, ItemDone(to)
    PROVE  Inv'
<1>1. ocr.index <= Len(ocr.items) /\ UNCHANGED custom
    BY DEF ItemDone
<1>2. CASE ocr.index = Len(ocr.items)
    <2>1. FinishOcrItems(Assigned(to))
        BY <1>2 DEF ItemDone
    <2>2. /\ DOMAIN ocr' = DOMAIN ocr /\ ocr'.index = ocr.index + 1 /\ ocr'.items = ocr.items
        BY <2>1 DEF FinishOcrItems, Inv, Shape
    <2>3. /\ DOMAIN draft' = DOMAIN draft /\ draft'.selected # {} /\ failures' \in Nat
          /\ failures' = 0 =>
                 failures = 0 /\ step' \in {"END", "EXP_CONFIRM", "EXP_OCR_REMAINDER"}
        <3>1. CASE Answer("EXP_OCR_REMAINDER") /\ UNCHANGED draft
            BY <3>1, AnswerEffect DEF Inv, Shape
        <3>2. CASE Finalize(Assigned(to))
            BY <3>2, FinalizeEffect
        <3> QED BY <2>1, <3>1, <3>2 DEF FinishOcrItems
    <2> QED BY <1>1, <2>2, <2>3 DEF Inv, Shape
<1>3. CASE ocr.index # Len(ocr.items)
    <2>1. NextItem(Assigned(to))
        BY <1>3 DEF ItemDone
    <2>2. /\ DOMAIN ocr' = DOMAIN ocr /\ ocr'.index = ocr.index + 1 /\ ocr'.items = ocr.items
          /\ UNCHANGED draft /\ Answer("EXP_OCR_ITEM")
        BY <2>1 DEF NextItem, Inv, Shape
    <2> QED BY <1>1, <1>3, <2>2, AnswerEffect DEF Inv, Shape
<1> QED BY <1>2, <1>3

LEMMA PhotoKeeps == ASSUME Inv, OcrPhotoReceived PROVE Inv'
<1>1. CASE StartCustomAmounts /\ UNCHANGED ocr
    BY <1>1, StartEffect
<1>2. ASSUME NEW result \in Extractions,
             ocr' = [ocr EXCEPT !.items = result.items, !.printed = result.printed,
                                !.index = 1, !.tagged = {}, !.totals = Nobody],
             Answer("EXP_OCR_ITEM"), UNCHANGED <<draft, custom, told>>
      PROVE  Inv'
    <2>1. result.items \in ItemLists
        BY DEF Extractions
    <2>2. DOMAIN ocr' = DOMAIN ocr /\ ocr'.index = 1 /\ ocr'.items = result.items
        BY <1>2 DEF Inv, Shape
    <2> QED BY <1>2, <2>1, <2>2, AnswerEffect, ItemListsHaveItems DEF Inv, Shape
<1> QED BY <1>1, <1>2 DEF OcrPhotoReceived

LEMMA RemainderKeeps == ASSUME Inv, RemainderSplit \/ RemainderSkip PROVE Inv'
<1>1. PICK totals : Finalize(totals)
    BY DEF RemainderSplit, RemainderSkip
<1>2. /\ DOMAIN draft' = DOMAIN draft /\ draft'.selected # {} /\ failures' \in Nat
      /\ failures' = 0 => failures = 0 /\ step' \in {"END", "EXP_CONFIRM"}
    BY <1>1, FinalizeEffect
<1>3. DOMAIN ocr' = DOMAIN ocr /\ ocr'.index = ocr.index /\ ocr'.items = ocr.items
    BY DEF RemainderSplit, RemainderSkip, Inv, Shape
<1> QED BY <1>2, <1>3 DEF Inv, Shape

-----------------------------------------------------------------------------
LEMMA InvNext == Inv /\ [Next]_vars => Inv'
<1> SUFFICES ASSUME Inv, [Next]_vars PROVE Inv'
    OBVIOUS
<1>1. CASE SplitCustom
    BY <1>1, StartEffect DEF SplitCustom
<1>2. CASE SplitOcr
    <2>1. DOMAIN draft' = DOMAIN draft /\ draft'.selected = draft.selected
        BY <1>2 DEF SplitOcr, Inv, Shape
    <2> QED BY <1>2, <2>1, AnswerEffect DEF SplitOcr, Inv, Shape
<1>3. ASSUME NEW mode, SplitByHead(mode) PROVE Inv'
    <2>1. DOMAIN draft' = DOMAIN draft /\ draft'.selected = draft.selected
        BY <1>3 DEF SplitByHead, Inv, Shape
    <2> QED BY <1>3, <2>1, AnswerEffect DEF SplitByHead, Inv, Shape
<1>4. ASSUME NEW a, AmountReceived(a) PROVE Inv'
    <2>1. DOMAIN draft' = DOMAIN draft /\ draft'.selected = draft.selected
        BY <1>4 DEF AmountReceived, Inv, Shape
    <2>2. /\ UNCHANGED <<custom, ocr>>
          /\ Answer("EXP_CONFIRM") \/ Answer("EXP_WEIGHTS")
        BY <1>4 DEF AmountReceived
    <2> QED BY <2>1, <2>2, AnswerEffect DEF Inv, Shape
<1>5. CASE WeightsDone
    <2>1. DOMAIN draft' = DOMAIN draft /\ draft'.selected = draft.selected
        BY <1>5 DEF WeightsDone, Inv, Shape
    <2> QED BY <1>5, <2>1, AnswerEffect DEF WeightsDone, Inv, Shape
<1>6. ASSUME NEW u, NEW by, WeightChanged(u, by) PROVE Inv'
    <2>1. DOMAIN draft' = DOMAIN draft /\ draft'.selected = draft.selected
        BY <1>6 DEF WeightChanged, Inv, Shape
    <2> QED BY <1>6, <2>1 DEF WeightChanged, Inv, Shape
<1>7. ASSUME NEW u, ItemTagged(u) PROVE Inv'
    <2>1. DOMAIN ocr' = DOMAIN ocr /\ ocr'.index = ocr.index /\ ocr'.items = ocr.items
        BY <1>7 DEF ItemTagged, Inv, Shape
    <2> QED BY <1>7, <2>1 DEF ItemTagged, Inv, Shape
<1>8. CASE ItemConfirm \/ ItemNone
    BY <1>8, ItemDoneKeeps DEF ItemConfirm, ItemNone
<1>9. CASE UNCHANGED vars
    BY <1>9 DEF vars, Inv, Shape
<1> QED BY <1>1, <1>2, <1>3, <1>4, <1>5, <1>6, <1>7, <1>8, <1>9, TakeAmountKeeps, PhotoKeeps,
           RemainderKeeps DEF Next, Proceed

\* For any people, receipt and number of failures: the index of a custom amount
\* or of an item goes past the last one, where only /cancel helps, after a failed
\* message and in no other way (custom_amount_received, ocr_item_callback).
THEOREM StuckNeedsFailure == Spec => []StuckOnlyAfterFailure
BY InvInit, InvNext, InvStuck, PTL DEF Spec

-----------------------------------------------------------------------------
(* Typed amounts *)

Positive(f) == f = [u \in DOMAIN f |-> f[u]] /\ \A u \in DOMAIN f : f[u] \in Nat \ {0}

Undecided == {"EXP_SPLIT_MODE", "EXP_AMOUNT", "EXP_WEIGHTS", "EXP_OCR_PHOTO", "EXP_OCR_ITEM",
              "EXP_OCR_REMAINDER"}

\* Before the first failed message the last question was about the head of the
\* queue, and what is there was given for whom it is there.
Given ==
    /\ DOMAIN told = {"asked", "meant", "covered", "splits"}
    /\ failures = 0 =>
           /\ step \in Undecided => custom.amounts = Nobody /\ told.meant = Nobody
           /\ step = "EXP_CUSTOM_AMOUNTS" =>
                  /\ told.asked = {Min(custom.todo)}
                  /\ custom.amounts = told.meant /\ Positive(custom.amounts)
           /\ AmountsAsAsked

LEMMA GivenInit == Init => Given
BY DEF Init, Given, AmountsAsAsked, Undecided

\* A step of another way to divide leaves the typed amounts alone.
LEMMA OtherwayKeeps ==
    ASSUME Given, step \in Undecided, UNCHANGED custom, DOMAIN told' = DOMAIN told,
           told'.meant = told.meant, failures' = 0 => failures = 0 /\ step' # "EXP_CUSTOM_AMOUNTS"
    PROVE  Given'
BY DEF Given, AmountsAsAsked

LEMMA StartGiven == ASSUME Inv, Given, step \in Undecided, StartCustomAmounts PROVE Given'
<1>1. /\ custom' = [todo |-> draft.selected, amounts |-> Nobody]
      /\ Answer("EXP_CUSTOM_AMOUNTS")
      /\ told' = [told EXCEPT !.asked = IF Arrives THEN {Min(draft.selected)} ELSE @]
    BY DEF StartCustomAmounts
<1>2. custom'.todo = draft.selected /\ custom'.amounts = Nobody
    BY <1>1
<1>3. DOMAIN told' = DOMAIN told /\ told'.meant = told.meant
    BY <1>1 DEF Given
<1>4. ASSUME failures' = 0
      PROVE  failures = 0 /\ step' = "EXP_CUSTOM_AMOUNTS" /\ told'.asked = {Min(draft.selected)}
    <2>1. failures = 0 /\ step' = "EXP_CUSTOM_AMOUNTS"
        BY <1>1, <1>4, AnswerEffect DEF Inv, Shape
    <2> QED BY <1>1, <1>4, <2>1 DEF Arrives, Given
<1>5. Positive(Nobody)
    BY DEF Positive, Nobody
<1> QED BY <1>2, <1>3, <1>4, <1>5 DEF Given, Undecided, AmountsAsAsked

\* What is added to amounts that are positive leaves them so.
LEMMA CreditPositive ==
    ASSUME NEW f, Positive(f), NEW who, NEW amount \in Nat \ {0}
    PROVE  Positive(Credit(f, [v \in who |-> amount]))
<1> DEFINE g == [v \in who |-> amount]
           h == Credit(f, g)
<1>1. h = [u \in DOMAIN f \cup who |->
              (IF u \in DOMAIN f THEN f[u] ELSE 0) + (IF u \in who THEN amount ELSE 0)]
    BY DEF Credit
<1>2. ASSUME NEW u \in DOMAIN f \cup who PROVE h[u] \in Nat \ {0}
    <2>1. u \in DOMAIN f => f[u] \in Nat \ {0}
        BY DEF Positive
    <2> HIDE DEF h
    <2>2. h[u] = (IF u \in DOMAIN f THEN f[u] ELSE 0) + (IF u \in who THEN amount ELSE 0)
        BY <1>1
    <2> QED BY <2>1, <2>2
<1> QED BY <1>1, <1>2 DEF Positive

\* Everybody who was given a positive amount is recorded with it.
LEMMA FinalizePositive ==
    ASSUME Inv, NEW totals, Positive(totals), Finalize(totals), failures' = 0
    PROVE  step' = "EXP_CONFIRM" => draft'.shares = totals
<1> DEFINE paying == { u \in DOMAIN totals : totals[u] > 0 }
<1>1. paying = DOMAIN totals
    BY DEF Positive
<1>2. CASE paying = {}
    <2>1. Answer("END")
        BY <1>2 DEF Finalize
    <2> QED BY <2>1, AnswerEffect DEF Inv, Shape
<1>3. CASE paying # {}
    <2>1. PICK amount, weights :
              draft' = [draft EXCEPT !.amount = amount, !.shares = Restrict(totals, paying),
                                     !.weights = weights, !.selected = paying]
        BY <1>3 DEF Finalize
    <2>2. Restrict(totals, paying) = totals
        BY <1>1 DEF Restrict, Positive
    <2> HIDE DEF paying
    <2> QED BY <2>1, <2>2 DEF Inv, Shape
<1> QED BY <1>2, <1>3

LEMMA TakeAmountGiven ==
    ASSUME Inv, Given, NEW amount \in Amounts, CustomAmountReceived(amount)
    PROVE  Given'
<1> DEFINE u       == Min(custom.todo)
           todo    == custom.todo \ {u}
           amounts == Credit(custom.amounts, [v \in {u} |-> amount])
           meant   == Credit(told.meant, [v \in told.asked |-> amount])
<1>1. /\ step = "EXP_CUSTOM_AMOUNTS"
      /\ custom' = [todo |-> todo, amounts |-> amounts]
      /\ IF todo = {} THEN Finalize(amounts) ELSE Answer("EXP_CUSTOM_AMOUNTS") /\ UNCHANGED draft
      /\ told' = [asked |-> IF Arrives /\ todo # {} THEN {Min(todo)} ELSE told.asked,
                  meant |-> meant, covered |-> told.covered, splits |-> told.splits]
    BY DEF CustomAmountReceived, TakeAmount
<1>2. failures = 0 => meant = amounts /\ Positive(amounts)
    <2>1. amount \in Nat \ {0}
        BY SumsAssumption
    <2>2. ASSUME failures = 0
          PROVE  told.asked = {u} /\ told.meant = custom.amounts /\ Positive(custom.amounts)
        BY <1>1, <2>2 DEF Given
    <2>3. failures = 0 => meant = amounts
        BY <2>2
    <2>4. failures = 0 => Positive(amounts)
        BY <2>1, <2>2, CreditPositive
    <2> QED BY <2>3, <2>4
<1> HIDE DEF u, todo, amounts, meant
<1>3. custom'.todo = todo /\ custom'.amounts = amounts /\ told'.meant = meant
    BY <1>1
<1>4. DOMAIN told' = {"asked", "meant", "covered", "splits"}
    BY <1>1
<1>5. CASE todo = {}
    <2>1. Finalize(amounts)
        BY <1>1, <1>5
    <2>2. failures' = 0 => failures = 0 /\ step' \in {"END", "EXP_CONFIRM"}
        BY <2>1, FinalizeEffect
    <2>3. failures' = 0 /\ step' = "EXP_CONFIRM" => draft'.shares = meant
        BY <1>2, <2>1, <2>2, FinalizePositive
    <2> QED BY <1>3, <1>4, <2>2, <2>3 DEF Given, AmountsAsAsked, Undecided
<1>6. CASE todo # {}
    <2>1. failures' = 0 => failures = 0 /\ step' = "EXP_CUSTOM_AMOUNTS"
        BY <1>1, <1>6, AnswerEffect DEF Inv, Shape
    <2>2. failures' = 0 => told'.asked = {Min(todo)}
        BY <1>1, <1>6, <2>1 DEF Arrives
    <2> QED BY <1>2, <1>3, <1>4, <2>1, <2>2 DEF Given, AmountsAsAsked, Undecided
<1> QED BY <1>5, <1>6

LEMMA ItemDoneGiven == ASSUME Inv, Given, NEW to, ItemDone(to) PROVE Given'
<1>1. step \in Undecided /\ UNCHANGED custom
    BY DEF ItemDone, Undecided
<1>2. DOMAIN told' = DOMAIN told /\ told'.meant = told.meant
    BY DEF ItemDone, Covering, Given
<1>3. failures' = 0 => failures = 0 /\ step' # "EXP_CUSTOM_AMOUNTS"
    <2>1. CASE Answer("EXP_OCR_REMAINDER") \/ Answer("EXP_OCR_ITEM")
        BY <2>1, AnswerEffect DEF Inv, Shape
    <2>2. CASE Finalize(Assigned(to))
        BY <2>2, FinalizeEffect
    <2> QED BY <2>1, <2>2 DEF ItemDone, FinishOcrItems, NextItem
<1> QED BY <1>1, <1>2, <1>3, OtherwayKeeps

LEMMA RemainderGiven == ASSUME Inv, Given, RemainderSplit \/ RemainderSkip PROVE Given'
<1>1. step \in Undecided /\ UNCHANGED custom
    BY DEF RemainderSplit, RemainderSkip, Undecided
<1>2. DOMAIN told' = DOMAIN told /\ told'.meant = told.meant
    BY DEF RemainderSplit, RemainderSkip, Given
<1>3. PICK totals : Finalize(totals)
    BY DEF RemainderSplit, RemainderSkip
<1>4. failures' = 0 => failures = 0 /\ step' # "EXP_CUSTOM_AMOUNTS"
    BY <1>3, FinalizeEffect
<1> QED BY <1>1, <1>2, <1>4, OtherwayKeeps

LEMMA GivenNext == Inv /\ Given /\ [Next]_vars => Given'
<1> SUFFICES ASSUME Inv, Given, [Next]_vars PROVE Given'
    OBVIOUS
<1>1. CASE SplitCustom
    BY <1>1, StartGiven DEF SplitCustom, Undecided
<1>2. ASSUME NEW s \in Undecided \cup {"EXP_CONFIRM"}, Answer(s), step \in Undecided,
             UNCHANGED <<custom, told>>
      PROVE  Given'
    BY <1>2, AnswerEffect, OtherwayKeeps DEF Undecided, Inv, Shape
<1>3. CASE SplitOcr
    BY <1>2, <1>3 DEF SplitOcr, Undecided
<1>4. ASSUME NEW mode, SplitByHead(mode) PROVE Given'
    BY <1>2, <1>4 DEF SplitByHead, Undecided
<1>5. ASSUME NEW a, AmountReceived(a) PROVE Given'
    <2>1. /\ UNCHANGED <<custom, told>> /\ step = "EXP_AMOUNT"
          /\ Answer("EXP_CONFIRM") \/ Answer("EXP_WEIGHTS")
        BY <1>5 DEF AmountReceived
    <2> QED BY <1>2, <2>1 DEF Undecided
<1>6. CASE WeightsDone
    BY <1>2, <1>6 DEF WeightsDone, Undecided
<1>7. ASSUME NEW u, NEW by, WeightChanged(u, by) PROVE Given'
    BY <1>7, OtherwayKeeps DEF WeightChanged, Undecided
<1>8. ASSUME NEW u, ItemTagged(u) PROVE Given'
    BY <1>8, OtherwayKeeps DEF ItemTagged, Undecided
<1>9. CASE OcrPhotoReceived
    <2>1. step \in Undecided
        BY <1>9 DEF OcrPhotoReceived, Undecided
    <2>2. CASE StartCustomAmounts
        BY <2>1, <2>2, StartGiven
    <2>3. CASE Answer("EXP_OCR_ITEM") /\ UNCHANGED <<custom, told>>
        BY <1>2, <2>1, <2>3 DEF Undecided
    <2> QED BY <1>9, <2>2, <2>3 DEF OcrPhotoReceived
<1>10. CASE ItemConfirm \/ ItemNone
    BY <1>10, ItemDoneGiven DEF ItemConfirm, ItemNone
<1>11. CASE UNCHANGED vars
    BY <1>11 DEF vars, Given, AmountsAsAsked
<1> QED BY <1>1, <1>3, <1>4, <1>5, <1>6, <1>7, <1>8, <1>9, <1>10, <1>11, TakeAmountGiven,
           RemainderGiven DEF Next, Proceed

\* For any people and amounts, as long as every message arrives the share of each
\* person is the amount typed for them (_ask_next_custom_amount and
\* custom_amount_received go through one queue).
THEOREM AmountsGoToWhomTheyWereMeant == Spec => []AmountsAsAsked
<1>1. Inv /\ Given => AmountsAsAsked
    BY DEF Given, AmountsAsAsked
<1> QED BY <1>1, InvInit, InvNext, GivenInit, GivenNext, PTL DEF Spec

-----------------------------------------------------------------------------
(* Sums over a group *)

\* A whole number for each of some of the people.
Tallies(V) == UNION { [D -> V] : D \in SUBSET People }

LEMMA TallyRule ==
    ASSUME NEW V, NEW f
    PROVE  f \in Tallies(V) <=> /\ f = [u \in DOMAIN f |-> f[u]] /\ DOMAIN f \subseteq People
                                /\ \A u \in DOMAIN f : f[u] \in V
<1>1. ASSUME f \in Tallies(V)
      PROVE  /\ f = [u \in DOMAIN f |-> f[u]] /\ DOMAIN f \subseteq People
             /\ \A u \in DOMAIN f : f[u] \in V
    <2>1. PICK D \in SUBSET People : f \in [D -> V]
        BY <1>1 DEF Tallies
    <2> QED BY <2>1
<1>2. ASSUME f = [u \in DOMAIN f |-> f[u]], DOMAIN f \subseteq People,
             \A u \in DOMAIN f : f[u] \in V
      PROVE  f \in Tallies(V)
    <2>1. f \in [DOMAIN f -> V]
        BY <1>2
    <2> QED BY <1>2, <2>1 DEF Tallies
<1> QED BY <1>1, <1>2

LEMMA PeopleFinite ==
    ASSUME NEW S \in SUBSET People
    PROVE  IsFiniteSet(S) /\ S \subseteq Int
<1>1. IsFiniteSet(People) /\ People \subseteq Int
    BY PeopleAssumption
<1>2. IsFiniteSet(S)
    BY <1>1, FS_Subset
<1> QED BY <1>1, <1>2

LEMMA TallySum ==
    ASSUME NEW f \in Tallies(Int)
    PROVE  /\ IsSummable(f, DOMAIN f) /\ SumFunction(f) = SumFunctionOnSet(f, DOMAIN f)
           /\ SumFunction(f) \in Int
<1>1. DOMAIN f \subseteq People /\ \A u \in DOMAIN f : f[u] \in Int
    BY TallyRule
<1>2. IsSummable(f, DOMAIN f)
    BY <1>1, PeopleFinite DEF IsSummable
<1> QED BY <1>2, SumInt DEF SumFunction

LEMMA NobodySum == Nobody \in Tallies(Int) /\ SumFunction(Nobody) = 0
<1>1. DOMAIN Nobody = {} /\ Nobody \in Tallies(Int)
    BY TallyRule DEF Nobody
<1> QED BY <1>1, TallySum, SumEmpty

\* What is credited is added, to the sum and to each.
LEMMA CreditSum ==
    ASSUME NEW f \in Tallies(Int), NEW g \in Tallies(Int)
    PROVE  /\ Credit(f, g) \in Tallies(Int)
           /\ DOMAIN Credit(f, g) = DOMAIN f \cup DOMAIN g
           /\ SumFunction(Credit(f, g)) = SumFunction(f) + SumFunction(g)
           /\ \A u \in DOMAIN f \cup DOMAIN g :
                  Credit(f, g)[u] = (IF u \in DOMAIN f THEN f[u] ELSE 0)
                                  + (IF u \in DOMAIN g THEN g[u] ELSE 0)
<1> DEFINE all == DOMAIN f \cup DOMAIN g
           h == Credit(f, g)
           ff == [u \in all |-> IF u \in DOMAIN f THEN f[u] ELSE 0]
           gg == [u \in all |-> IF u \in DOMAIN g THEN g[u] ELSE 0]
<1>1. /\ DOMAIN f \subseteq People /\ \A u \in DOMAIN f : f[u] \in Int
      /\ DOMAIN g \subseteq People /\ \A u \in DOMAIN g : g[u] \in Int
    BY TallyRule
<1>2. h = [u \in all |-> ff[u] + gg[u]] /\ DOMAIN h = all
    BY DEF Credit
<1>3. \A u \in all : ff[u] \in Int /\ gg[u] \in Int
    BY <1>1
<1>4. h \in Tallies(Int) /\ IsFiniteSet(all)
    <2>1. h \in [all -> Int] /\ all \in SUBSET People
        BY <1>1, <1>2, <1>3
    <2> HIDE DEF h, all
    <2> QED BY <2>1, PeopleFinite DEF Tallies
<1>5. \A u \in all : h[u] = ff[u] + gg[u]
    BY <1>2
<1>6. /\ \A u \in DOMAIN f : ff[u] = f[u]
      /\ \A u \in all \ DOMAIN f : ff[u] = 0
      /\ \A u \in DOMAIN g : gg[u] = g[u]
      /\ \A u \in all \ DOMAIN g : gg[u] = 0
      /\ DOMAIN f \in SUBSET all /\ DOMAIN g \in SUBSET all
    OBVIOUS
<1>7. DOMAIN h = all
    BY <1>2
<1>8. \A u \in all : ff[u] = (IF u \in DOMAIN f THEN f[u] ELSE 0)
                     /\ gg[u] = (IF u \in DOMAIN g THEN g[u] ELSE 0)
    OBVIOUS
<1> HIDE DEF all, h, ff, gg
<1>9. IsSummable(ff, all) /\ IsSummable(gg, all)
    BY <1>3, <1>4 DEF IsSummable
<1>10. SumFunctionOnSet(h, all) = SumFunctionOnSet(ff, all) + SumFunctionOnSet(gg, all)
    BY <1>5, <1>9, SumOfSums
<1>11. SumFunctionOnSet(ff, all) = SumFunction(f)
    <2>1. SumFunctionOnSet(ff, all) = SumFunctionOnSet(ff, DOMAIN f)
        BY <1>6, <1>9, SumSupport
    <2>2. SumFunctionOnSet(ff, DOMAIN f) = SumFunctionOnSet(f, DOMAIN f)
        BY <1>6, TallySum, SumEqual
    <2> QED BY <2>1, <2>2, TallySum
<1>12. SumFunctionOnSet(gg, all) = SumFunction(g)
    <2>1. SumFunctionOnSet(gg, all) = SumFunctionOnSet(gg, DOMAIN g)
        BY <1>6, <1>9, SumSupport
    <2>2. SumFunctionOnSet(gg, DOMAIN g) = SumFunctionOnSet(g, DOMAIN g)
        BY <1>6, TallySum, SumEqual
    <2> QED BY <2>1, <2>2, TallySum
<1>13. SumFunction(h) = SumFunctionOnSet(h, all)
    BY <1>7 DEF SumFunction
<1> QED BY <1>4, <1>5, <1>7, <1>8, <1>10, <1>11, <1>12, <1>13 DEF all, h

\* No unit of an item, or of the rest, is lost in dividing it.
LEMMA SplitEvenlySum ==
    ASSUME NEW sum \in Int, NEW present \in (SUBSET People) \ {{}}
    PROVE  /\ SplitEvenly(sum, present) \in Tallies(Int)
           /\ DOMAIN SplitEvenly(sum, present) = present
           /\ SumFunction(SplitEvenly(sum, present)) = sum
           /\ sum >= 0 => \A u \in present : SplitEvenly(sum, present)[u] >= 0
<1> DEFINE n == Cardinality(present)
           last == Max(present)
           h == SplitEvenly(sum, present)
           q == sum \div n
           r == sum % n
           even == [u \in present |-> q]
           odd == [u \in present |-> IF u = last THEN r ELSE 0]
<1>1. IsFiniteSet(present) /\ present \subseteq Int /\ present # {}
    BY PeopleFinite
<1>2. n \in Nat \ {0}
    BY <1>1, FS_CardinalityType, FS_EmptySet
<1>3. last \in present
    BY <1>1, MaxIn
<1>4. q \in Int /\ r \in 0 .. n - 1 /\ n * q + r = sum /\ (sum \in Nat => q \in Nat)
    BY <1>2, Division
<1>5. h = [u \in present |-> even[u] + odd[u]] /\ DOMAIN h = present
    BY DEF SplitEvenly
<1>6. /\ \A u \in present : even[u] = q
      /\ odd[last] = r /\ \A u \in present \ {last} : odd[u] = 0
      /\ \A u \in present : odd[u] \in {0, r}
    BY <1>3
<1> HIDE DEF n, last, h, q, r, even, odd
<1>7. \A u \in present : even[u] \in Int /\ odd[u] \in Nat /\ h[u] = even[u] + odd[u]
    BY <1>2, <1>4, <1>5, <1>6
<1>8. IsSummable(even, present) /\ SumFunctionOnSet(even, present) = q * n
    BY <1>1, <1>4, <1>6, SumConstant DEF n
<1>9. IsSummable(odd, present) /\ SumFunctionOnSet(odd, present) = r
    <2>1. IsSummable(odd, present)
        BY <1>1, <1>7 DEF IsSummable
    <2>2. IsSummable(odd, present \ {last}) /\ IsFiniteSet(present \ {last})
        BY <1>1, <2>1, SummableSubset, FS_RemoveElement
    <2>3. SumFunctionOnSet(odd, present) = r + SumFunctionOnSet(odd, present \ {last})
        BY <1>3, <1>6, <2>1, SumSplit
    <2>4. SumFunctionOnSet(odd, present \ {last}) = 0 * Cardinality(present \ {last})
        BY <1>6, <2>2, SumConstant
    <2>5. Cardinality(present \ {last}) \in Nat
        BY <2>2, FS_CardinalityType
    <2> QED BY <1>2, <1>4, <2>1, <2>3, <2>4, <2>5
<1>10. SumFunctionOnSet(h, present) = q * n + r
    BY <1>7, <1>8, <1>9, SumOfSums
<1>11. SumFunction(h) = sum
    <2>1. SumFunction(h) = SumFunctionOnSet(h, present)
        BY <1>5 DEF SumFunction
    <2>2. q * n = n * q
        BY <1>2, <1>4
    <2> QED BY <1>4, <1>10, <2>1, <2>2
<1>12. h \in Tallies(Int)
    <2>1. h = [u \in DOMAIN h |-> h[u]]
        BY <1>5
    <2> QED BY <1>5, <1>7, <2>1, TallyRule
<1>13. sum >= 0 => \A u \in present : h[u] >= 0
    BY <1>4, <1>6, <1>7
<1> QED BY <1>5, <1>11, <1>12, <1>13 DEF h

-----------------------------------------------------------------------------
(* Types *)

DraftRows == [mode : {"none", "equal", "weighted", "custom"}, selected : (SUBSET People) \ {{}},
              amount : Nat, weights : Tallies(1 .. MaxWeight), shares : Tallies(Nat)]
CustomRows == [todo : SUBSET People, amounts : Tallies(Nat)]
OcrRows   == [items : ItemLists \cup {<<>>}, printed : Int, index : Nat \ {0},
              tagged : SUBSET People, totals : Tallies(Int), remainder : Int]
ToldRows  == [asked : SUBSET People, meant : Tallies(Nat), covered : SUBSET Nat, splits : Nat]

Typed ==
    /\ step \in Steps /\ failures \in 0 .. MaxFailures
    /\ draft \in DraftRows /\ custom \in CustomRows
    /\ ocr \in OcrRows /\ ocr.index \in 1 .. Len(ocr.items) + 1
    /\ told \in ToldRows

LEMMA TypedTypeOK == Typed => TypeOK
<1> SUFFICES ASSUME Typed PROVE TypeOK
    OBVIOUS
<1>1. /\ draft.weights \in Tallies(1 .. MaxWeight) /\ draft.shares \in Tallies(Nat)
      /\ ocr.totals \in Tallies(Int)
    BY DEF Typed, DraftRows, OcrRows
<1>2. /\ DOMAIN draft.weights \subseteq People
      /\ \A u \in DOMAIN draft.weights : draft.weights[u] \in 1 .. MaxWeight
      /\ DOMAIN draft.shares \subseteq People
      /\ \A u \in DOMAIN draft.shares : draft.shares[u] \in Nat
      /\ DOMAIN ocr.totals \subseteq People
    BY <1>1, TallyRule
<1> QED BY <1>2 DEF Typed, TypeOK, DraftRows, CustomRows, OcrRows

LEMMA NobodyTally == ASSUME NEW V PROVE Nobody \in Tallies(V)
<1>1. DOMAIN Nobody = {} /\ Nobody = [u \in DOMAIN Nobody |-> Nobody[u]]
    BY DEF Nobody
<1> QED BY <1>1, TallyRule

LEMMA TallyWiden ==
    ASSUME NEW V, NEW W, V \subseteq W, NEW f \in Tallies(V)
    PROVE  f \in Tallies(W)
BY TallyRule

\* Every list of items is a sequence of amounts that are not 0.
LEMMA ItemListShape ==
    ASSUME NEW items \in ItemLists \cup {<<>>}
    PROVE  /\ Len(items) \in Nat /\ DOMAIN items = 1 .. Len(items)
           /\ \A i \in 1 .. Len(items) : items[i] \in Int \ {0}
<1>1. CASE items = <<>>
    BY <1>1
<1>2. CASE items \in ItemLists
    <2>1. PICK n \in 1 .. MaxItems : items \in [1 .. n -> ItemAmounts]
        BY <1>2 DEF ItemLists
    <2>2. n \in Nat /\ items \in Seq(ItemAmounts) /\ Len(items) = n
        BY <2>1, BoundsAssumption
    <2>3. ItemAmounts \subseteq Int \ {0}
        BY SumsAssumption
    <2> QED BY <2>1, <2>2, <2>3
<1> QED BY <1>1, <1>2

LEMMA AnswerTyped ==
    ASSUME Typed, NEW s, Answer(s)
    PROVE  /\ failures' \in 0 .. MaxFailures /\ failures <= failures'
           /\ step' = s \/ (step' = step /\ failures' > 0)
BY BoundsAssumption DEF Typed, Answer, Arrives, Fails

LEMMA TypedInit == Init => Typed
<1> SUFFICES ASSUME Init PROVE Typed
    OBVIOUS
<1>1. PICK present \in (SUBSET People) \ {{}} :
          draft = [mode |-> "none", selected |-> present, amount |-> 0,
                   weights |-> Nobody, shares |-> Nobody]
    BY DEF Init
<1>2. draft \in DraftRows
    BY <1>1, NobodyTally DEF DraftRows
<1>3. custom \in CustomRows
    BY NobodyTally DEF Init, CustomRows
<1>4. ocr \in OcrRows
    BY NobodyTally DEF Init, OcrRows
<1>5. ocr.index = 1 /\ Len(ocr.items) = 0
    BY DEF Init
<1>6. told \in ToldRows
    BY NobodyTally DEF Init, ToldRows
<1> QED BY <1>2, <1>3, <1>4, <1>5, <1>6, BoundsAssumption DEF Init, Typed, Steps

\* _finalize_custom_shares: those who pay, what they pay together, and that it is
\* no less than what everybody's totals add up to.
LEMMA FinalizeTyped ==
    ASSUME Typed, NEW totals \in Tallies(Int), Finalize(totals)
    PROVE  /\ failures' \in 0 .. MaxFailures /\ failures <= failures'
           /\ draft' \in DraftRows /\ draft'.mode = draft.mode
           /\ step' \in {"END", "EXP_CONFIRM"} \/ (step' = step /\ failures' > 0)
           /\ step' = "EXP_CONFIRM" /\ step # "EXP_CONFIRM" =>
                  /\ draft'.amount > 0 /\ draft'.amount = SumFunction(draft'.shares)
                  /\ DOMAIN draft'.shares = draft'.selected
                  /\ DOMAIN draft'.weights = draft'.selected
                  /\ draft'.amount >= SumFunction(totals)
                  /\ (\A u \in DOMAIN totals : totals[u] >= 0) =>
                         draft'.amount = SumFunction(totals)
<1> DEFINE paying == { u \in DOMAIN totals : totals[u] > 0 }
           spared == DOMAIN totals \ paying
           shares == Restrict(totals, paying)
           ones == [u \in paying |-> 1]
<1>1. DOMAIN totals \subseteq People /\ \A u \in DOMAIN totals : totals[u] \in Int
    BY TallyRule
<1>2. CASE paying = {}
    <2>1. Answer("END") /\ UNCHANGED draft
        BY <1>2 DEF Finalize
    <2> QED BY <2>1, AnswerTyped DEF Typed
<1>3. CASE paying # {}
    <2>1. Answer("EXP_CONFIRM")
          /\ draft' = [draft EXCEPT !.amount = SumFunction(shares), !.shares = shares,
                                    !.weights = ones, !.selected = paying]
        BY <1>3 DEF Finalize
    <2>2. /\ paying \in (SUBSET People) \ {{}} /\ paying \in SUBSET DOMAIN totals
          /\ \A u \in paying : totals[u] \in Nat \ {0}
          /\ \A u \in spared : totals[u] \in Int /\ totals[u] <= 0
          /\ spared \in SUBSET DOMAIN totals /\ paying \cap spared = {}
          /\ paying \cup spared = DOMAIN totals
        BY <1>1, <1>3
    <2>3. shares \in [paying -> Nat] /\ \A u \in paying : shares[u] = totals[u]
        BY <2>2 DEF Restrict
    <2>4. ones \in Tallies(1 .. MaxWeight) /\ DOMAIN ones = paying
        <3>1. ones \in [paying -> 1 .. MaxWeight]
            BY WeightsAssumption
        <3> HIDE DEF ones, paying
        <3> QED BY <2>2, <3>1 DEF Tallies
    <2> HIDE DEF paying, shares, ones, spared
    <2>5. shares \in Tallies(Nat) /\ DOMAIN shares = paying /\ IsFiniteSet(paying)
        BY <2>2, <2>3, PeopleFinite DEF Tallies
    <2>6. SumFunction(shares) = SumFunctionOnSet(shares, paying)
        BY <2>5 DEF SumFunction
    <2>7. SumFunction(shares) \in Nat
        BY <2>3, <2>5, <2>6, SumOfNat
    <2>8. SumFunction(shares) > 0
        <3>1. PICK u \in paying : TRUE
            BY <1>3
        <3>2. shares[u] <= SumFunction(shares) /\ shares[u] \in Nat \ {0}
            BY <2>2, <2>3, <2>5, <2>6, SumOfNat
        <3> QED BY <2>7, <3>2
    <2>9. IsSummable(totals, paying) /\ IsSummable(totals, spared)
        BY <2>2, TallySum, SummableSubset
    <2>10. SumFunctionOnSet(totals, paying) = SumFunction(shares)
        BY <2>3, <2>6, <2>9, SumEqual
    <2>11. SumFunction(totals) = SumFunctionOnSet(totals, paying) + SumFunctionOnSet(totals, spared)
        <3>1. SumFunctionOnSet(totals, paying \cup spared)
                  = SumFunctionOnSet(totals, paying) + SumFunctionOnSet(totals, spared)
            BY <2>2, <2>9, SumUnion
        <3>2. SumFunctionOnSet(totals, paying \cup spared) = SumFunction(totals)
            BY <2>2, Zenon DEF SumFunction
        <3> QED BY <3>1, <3>2
    <2>12. SumFunctionOnSet(totals, spared) <= 0 /\ SumFunctionOnSet(totals, spared) \in Int
        <3> DEFINE zero == [u \in spared |-> 0]
        <3>1. IsFiniteSet(spared) /\ \A u \in spared : zero[u] = 0
            BY <2>9 DEF IsSummable
        <3> HIDE DEF zero
        <3>2. IsSummable(zero, spared) /\ SumFunctionOnSet(zero, spared) = 0 * Cardinality(spared)
            BY <3>1, SumConstant
        <3>3. SumFunctionOnSet(totals, spared) <= SumFunctionOnSet(zero, spared)
            BY <2>2, <2>9, <3>1, <3>2, SumMonotone
        <3> QED BY <2>9, <3>1, <3>2, <3>3, SumInt, FS_CardinalityType
    <2>13. ASSUME \A u \in DOMAIN totals : totals[u] >= 0
           PROVE  SumFunctionOnSet(totals, spared) = 0
        <3>1. IsFiniteSet(spared) /\ \A u \in spared : totals[u] = 0
            BY <2>2, <2>9, <2>13 DEF IsSummable
        <3>2. SumFunctionOnSet(totals, spared) = 0 * Cardinality(spared)
            BY <3>1, SumConstant
        <3> QED BY <3>1, <3>2, FS_CardinalityType
    <2>14. /\ draft' \in DraftRows /\ draft'.mode = draft.mode
           /\ draft'.amount = SumFunction(shares) /\ draft'.shares = shares
           /\ draft'.weights = ones /\ draft'.selected = paying
        BY <2>1, <2>2, <2>4, <2>5, <2>7 DEF Typed, DraftRows
    <2> QED BY <2>1, <2>4, <2>5, <2>7, <2>8, <2>10, <2>11, <2>12, <2>13, <2>14, AnswerTyped
<1> QED BY <1>2, <1>3

-----------------------------------------------------------------------------
(* The amounts that are divided *)

\* What each state of the conversation has settled already.
OneWay ==
    /\ step = "EXP_AMOUNT" => draft.mode \in {"equal", "weighted"}
    /\ step = "EXP_WEIGHTS" => /\ draft.mode = "weighted" /\ draft.amount > 0
                               /\ draft.selected \subseteq DOMAIN draft.weights
    /\ step \in {"EXP_CUSTOM_AMOUNTS", "EXP_OCR_PHOTO", "EXP_OCR_ITEM", "EXP_OCR_REMAINDER"} =>
           draft.mode = "custom"

CoveredSum == SumFunctionOnSet(ocr.items, told.covered)

\* Until its last item the totals of a receipt are the items somebody was tagged
\* for; from then on also the rest, as often as it was shared out.
Receipt ==
    /\ step \in {"EXP_SPLIT_MODE", "EXP_AMOUNT", "EXP_WEIGHTS"} => ocr.items = <<>>
    /\ step \in {"EXP_SPLIT_MODE", "EXP_OCR_PHOTO"} => told.covered = {} /\ told.splits = 0
    /\ step \in {"EXP_OCR_ITEM", "EXP_OCR_REMAINDER"} =>
           /\ told.covered \subseteq 1 .. ocr.index - 1
           /\ NoDiscount => \A u \in DOMAIN ocr.totals : ocr.totals[u] >= 0
    /\ step = "EXP_OCR_ITEM" => told.splits = 0 /\ SumFunction(ocr.totals) = CoveredSum
    /\ step = "EXP_OCR_REMAINDER" =>
           /\ ocr.remainder > 0 /\ ocr.printed = CoveredSum + ocr.remainder
           /\ SumFunction(ocr.totals) = CoveredSum + told.splits * ocr.remainder
           /\ told.splits > 0 => failures > 0

Divided == Typed /\ OneWay /\ Receipt /\ SharesAddUp /\ FairShares /\ ReceiptIsMet

LEMMA DividedInit == Init => Divided
<1> SUFFICES ASSUME Init PROVE Divided
    OBVIOUS
<1>1. /\ step = "EXP_SPLIT_MODE" /\ ocr.items = <<>>
      /\ told.covered = {} /\ told.splits = 0
    BY DEF Init
<1> QED BY <1>1, TypedInit DEF Divided, OneWay, Receipt, SharesAddUp, FairShares, ReceiptIsMet

\* calculate_shares on a bill of some of the people.
LEMMA SharesOfBill ==
    ASSUME NEW amount \in Nat \ {0}, NEW sel \in (SUBSET People) \ {{}},
           NEW w \in [sel -> 1 .. MaxWeight], NEW mode, mode # "equal" \/ \A u \in sel : w[u] = 1
    PROVE  LET shares == CalculateShares(amount, w, mode)
               excess(u) == shares[u] * SumFunction(w) - amount * w[u]
           IN  /\ shares \in Tallies(Nat) /\ DOMAIN shares = sel
               /\ SumFunction(shares) = amount
               /\ \A u \in sel :
                      /\ excess(u) > -SumFunction(w)
                      /\ excess(u) < (IF u = Max(sel) THEN SumFunction(w) * Cardinality(sel) ELSE 1)
<1> DEFINE shares == CalculateShares(amount, w, mode)
           wt == [u \in sel |-> EffectiveWeight(mode, w[u])]
<1>1. DOMAIN w = sel /\ w = [u \in sel |-> w[u]] /\ \A u \in sel : w[u] \in Nat \ {0}
    BY WeightsAssumption
<1>2. IsWeights(w)
    BY <1>1, PeopleFinite DEF IsWeights
<1>3. wt = w
    BY <1>1, EffectiveWeightPositive
<1>4. /\ DOMAIN shares = sel /\ \A u \in sel : shares[u] \in Nat
      /\ shares = [u \in sel |-> shares[u]]
      /\ SumFunction(shares) = amount
      /\ SumFunction(wt) \in Nat \ {0}
      /\ \A u \in sel :
             /\ shares[u] * SumFunction(wt) - amount * wt[u] > -SumFunction(wt)
             /\ u # Max(sel) => shares[u] * SumFunction(wt) - amount * wt[u] <= 0
             /\ u = Max(sel) => shares[u] * SumFunction(wt) - amount * wt[u]
                                    < SumFunction(wt) * Cardinality(sel)
    <2> HIDE DEF shares
    <2>1. amount \in Nat
        OBVIOUS
    <2> QED BY <1>1, <1>2, <2>1, SharesAreFair DEF shares
<1> HIDE DEF shares, wt
<1>5. shares \in Tallies(Nat)
    BY <1>4, TallyRule
<1>6. \A u \in sel : shares[u] * SumFunction(w) - amount * w[u] \in Int
    BY <1>1, <1>3, <1>4
<1>7. \A u \in sel : u # Max(sel) => shares[u] * SumFunction(w) - amount * w[u] < 1
    BY <1>3, <1>4, <1>6
<1> QED BY <1>3, <1>4, <1>5, <1>7 DEF shares

-----------------------------------------------------------------------------
(* Its handlers *)

Middle == {"EXP_CUSTOM_AMOUNTS", "EXP_OCR_ITEM", "EXP_OCR_REMAINDER"}

LEMMA FinalizeDivided ==
    ASSUME Divided, step \in Middle, NEW totals \in Tallies(Int), Finalize(totals)
    PROVE  OneWay' /\ SharesAddUp' /\ FairShares'
<1>1. draft.mode = "custom"
    BY DEF Divided, OneWay, Middle
<1>2. /\ draft'.mode = draft.mode
      /\ step' \in {"END", "EXP_CONFIRM"} \/ step' = step
      /\ step' = "EXP_CONFIRM" =>
             /\ draft'.amount > 0 /\ draft'.amount = SumFunction(draft'.shares)
             /\ DOMAIN draft'.shares = draft'.selected
             /\ DOMAIN draft'.weights = draft'.selected
    BY FinalizeTyped DEF Divided, Middle
<1> QED BY <1>1, <1>2 DEF OneWay, SharesAddUp, FairShares, Middle

LEMMA StartDivided ==
    ASSUME Divided, step \in {"EXP_SPLIT_MODE", "EXP_OCR_PHOTO"}, StartCustomAmounts, UNCHANGED ocr
    PROVE  Divided'
<1>1. /\ draft' = [draft EXCEPT !.mode = "custom"]
      /\ custom' = [todo |-> draft.selected, amounts |-> Nobody]
      /\ Answer("EXP_CUSTOM_AMOUNTS")
      /\ told' = [told EXCEPT !.asked = IF Arrives THEN {Min(draft.selected)} ELSE @]
    BY DEF StartCustomAmounts
<1>2. draft' \in DraftRows /\ draft'.mode = "custom"
    BY <1>1 DEF Divided, Typed, DraftRows
<1>3. custom' \in CustomRows
    BY <1>1, NobodyTally DEF Divided, Typed, DraftRows, CustomRows
<1>4. Min(draft.selected) \in People
    <2>1. draft.selected \in SUBSET People /\ draft.selected # {}
        BY DEF Divided, Typed, DraftRows
    <2> QED BY <2>1, PeopleFinite, MinIn
<1>5. told' \in ToldRows /\ told'.covered = told.covered /\ told'.splits = told.splits
    BY <1>1, <1>4 DEF Divided, Typed, ToldRows
<1>6. /\ failures' \in 0 .. MaxFailures
      /\ step' = "EXP_CUSTOM_AMOUNTS" \/ step' = step
    BY <1>1, AnswerTyped DEF Divided
<1>7. Typed'
    BY <1>2, <1>3, <1>5, <1>6 DEF Divided, Typed, Steps
<1> QED BY <1>2, <1>5, <1>6, <1>7 DEF Divided, OneWay, Receipt, SharesAddUp, FairShares, ReceiptIsMet

LEMMA ModeDivided ==
    ASSUME Divided, step = "EXP_SPLIT_MODE", UNCHANGED <<custom, ocr, told>>,
           NEW mode, NEW s, draft' = [draft EXCEPT !.mode = mode], Answer(s),
           \/ mode \in {"equal", "weighted"} /\ s = "EXP_AMOUNT"
           \/ mode = "custom" /\ s = "EXP_OCR_PHOTO"
    PROVE  Divided'
<1>1. draft' \in DraftRows /\ draft'.mode = mode
    BY DEF Divided, Typed, DraftRows
<1>2. failures' \in 0 .. MaxFailures /\ (step' = s \/ step' = step)
    BY AnswerTyped DEF Divided
<1>3. Typed'
    BY <1>1, <1>2 DEF Divided, Typed, Steps
<1> QED BY <1>1, <1>2, <1>3 DEF Divided, OneWay, Receipt, SharesAddUp, FairShares, ReceiptIsMet

LEMMA AmountReceivedDivided ==
    ASSUME Divided, NEW amount \in Amounts, AmountReceived(amount)
    PROVE  Divided'
<1> DEFINE ones == [u \in draft.selected |-> 1]
           own  == Restrict(Weight, draft.selected)
<1>1. /\ step = "EXP_AMOUNT" /\ UNCHANGED <<custom, ocr, told>>
      /\ draft.mode \in {"equal", "weighted"} /\ ocr.items = <<>>
    BY DEF AmountReceived, Divided, OneWay, Receipt
<1>2. amount \in Nat \ {0} /\ draft.selected \in (SUBSET People) \ {{}}
    BY SumsAssumption DEF Divided, Typed, DraftRows
<1>3. CASE draft.mode = "equal"
    <2>1. /\ draft' = [draft EXCEPT !.amount = amount, !.weights = ones,
                                    !.shares = CalculateShares(amount, ones, "equal")]
          /\ Answer("EXP_CONFIRM")
        BY <1>3 DEF AmountReceived
    <2>2. ones \in [draft.selected -> 1 .. MaxWeight] /\ \A u \in draft.selected : ones[u] = 1
        BY WeightsAssumption
    <2>3. DOMAIN ones = draft.selected /\ Restrict(ones, draft.selected) = ones
        BY DEF Restrict
    <2> HIDE DEF ones
    <2>4. LET shares == CalculateShares(amount, ones, "equal")
              excess(u) == shares[u] * SumFunction(ones) - amount * ones[u]
          IN  /\ shares \in Tallies(Nat) /\ DOMAIN shares = draft.selected
              /\ SumFunction(shares) = amount
              /\ \A u \in draft.selected :
                     /\ excess(u) > -SumFunction(ones)
                     /\ excess(u) < (IF u = Max(draft.selected)
                                     THEN SumFunction(ones) * Cardinality(draft.selected) ELSE 1)
        BY <1>2, <2>2, SharesOfBill
    <2>5. ones \in Tallies(1 .. MaxWeight)
        BY <1>2, <2>2 DEF Tallies
    <2>6. /\ draft' \in DraftRows /\ draft'.mode = "equal" /\ draft'.selected = draft.selected
          /\ draft'.amount = amount /\ draft'.weights = ones
          /\ draft'.shares = CalculateShares(amount, ones, "equal")
        BY <1>2, <1>3, <2>1, <2>4, <2>5 DEF Divided, Typed, DraftRows
    <2>7. failures' \in 0 .. MaxFailures /\ step' \in {"EXP_CONFIRM", "EXP_AMOUNT"}
        BY <1>1, <2>1, AnswerTyped DEF Divided
    <2>8. Typed'
        BY <1>1, <2>6, <2>7 DEF Divided, Typed, Steps
    <2>9. FairShares'
        BY <2>3, <2>4, <2>6 DEF FairShares
    <2>10. SharesAddUp'
        BY <1>2, <2>3, <2>4, <2>6 DEF SharesAddUp
    <2>11. OneWay' /\ Receipt' /\ ReceiptIsMet'
        BY <1>1, <2>6, <2>7 DEF OneWay, Receipt, ReceiptIsMet
    <2> QED BY <2>8, <2>9, <2>10, <2>11 DEF Divided
<1>4. CASE draft.mode = "weighted"
    <2>1. /\ draft' = [draft EXCEPT !.amount = amount, !.weights = own]
          /\ Answer("EXP_WEIGHTS")
        BY <1>4 DEF AmountReceived
    <2>2. own \in [draft.selected -> 1 .. MaxWeight] /\ DOMAIN own = draft.selected
        BY <1>2, WeightsAssumption DEF Restrict
    <2> HIDE DEF own
    <2>3. own \in Tallies(1 .. MaxWeight)
        BY <1>2, <2>2 DEF Tallies
    <2>4. /\ draft' \in DraftRows /\ draft'.mode = "weighted" /\ draft'.selected = draft.selected
          /\ draft'.amount = amount /\ draft'.weights = own
        BY <1>2, <1>4, <2>1, <2>3 DEF Divided, Typed, DraftRows
    <2>5. failures' \in 0 .. MaxFailures /\ step' \in {"EXP_WEIGHTS", "EXP_AMOUNT"}
        BY <1>1, <2>1, AnswerTyped DEF Divided
    <2>6. Typed'
        BY <1>1, <2>4, <2>5 DEF Divided, Typed, Steps
    <2>7. OneWay' /\ Receipt' /\ SharesAddUp' /\ FairShares' /\ ReceiptIsMet'
        BY <1>1, <1>2, <2>2, <2>4, <2>5
           DEF OneWay, Receipt, SharesAddUp, FairShares, ReceiptIsMet
    <2> QED BY <2>6, <2>7 DEF Divided
<1> QED BY <1>1, <1>3, <1>4

LEMMA WeightChangedDivided ==
    ASSUME Divided, NEW u \in People, NEW by \in {-1, 1}, WeightChanged(u, by)
    PROVE  Divided'
<1> DEFINE old   == IF u \in DOMAIN draft.weights THEN draft.weights[u] ELSE 1
           clamp == Min({MaxWeight, Max({1, old + by})})
           new   == [v \in DOMAIN draft.weights \cup {u} |-> IF v = u THEN clamp ELSE draft.weights[v]]
<1>1. /\ step = "EXP_WEIGHTS" /\ UNCHANGED <<step, custom, ocr, failures, told>>
      /\ draft' = [draft EXCEPT !.weights = new]
    BY DEF WeightChanged
<1>2. /\ draft \in DraftRows /\ DOMAIN draft.weights \subseteq People
      /\ \A v \in DOMAIN draft.weights : draft.weights[v] \in 1 .. MaxWeight
    <2>1. draft \in DraftRows /\ draft.weights \in Tallies(1 .. MaxWeight)
        BY DEF Divided, Typed, DraftRows
    <2> QED BY <2>1, TallyRule
<1>3. clamp \in 1 .. MaxWeight
    <2>1. MaxWeight \in Nat \ {0} /\ old + by \in Int
        BY <1>2, WeightsAssumption
    <2> HIDE DEF old
    <2>2. Max({1, old + by}) \in Nat \ {0}
        BY <2>1, MaxOfTwo
    <2> QED BY <2>1, <2>2, MinOfTwo
<1> HIDE DEF clamp
<1>4. new \in Tallies(1 .. MaxWeight) /\ DOMAIN new = DOMAIN draft.weights \cup {u}
    <2>1. new \in [DOMAIN draft.weights \cup {u} -> 1 .. MaxWeight]
        BY <1>2, <1>3
    <2> HIDE DEF new
    <2> QED BY <1>2, <2>1 DEF Tallies
<1> HIDE DEF new
<1>5. /\ draft' \in DraftRows /\ draft'.weights = new /\ draft'.mode = draft.mode
      /\ draft'.amount = draft.amount /\ draft'.selected = draft.selected
    BY <1>1, <1>2, <1>4 DEF DraftRows
<1>6. Typed'
    BY <1>1, <1>5 DEF Divided, Typed
<1> QED BY <1>1, <1>4, <1>5, <1>6
        DEF Divided, OneWay, Receipt, SharesAddUp, FairShares, ReceiptIsMet

LEMMA WeightsDoneDivided == ASSUME Divided, WeightsDone PROVE Divided'
<1> DEFINE w == Restrict(draft.weights, draft.selected)
           shares == CalculateShares(draft.amount, w, "weighted")
<1>1. /\ step = "EXP_WEIGHTS" /\ UNCHANGED <<custom, ocr, told>>
      /\ draft' = [draft EXCEPT !.shares = shares] /\ Answer("EXP_CONFIRM")
    BY DEF WeightsDone
<1>2. /\ draft.mode = "weighted" /\ draft.amount \in Nat \ {0}
      /\ draft.selected \in (SUBSET People) \ {{}} /\ draft.selected \subseteq DOMAIN draft.weights
      /\ ocr.items = <<>>
    BY <1>1 DEF Divided, OneWay, Receipt, Typed, DraftRows
<1>3. w \in [draft.selected -> 1 .. MaxWeight]
    <2>1. draft.weights \in Tallies(1 .. MaxWeight)
        BY DEF Divided, Typed, DraftRows
    <2> QED BY <1>2, <2>1, TallyRule DEF Restrict
<1> HIDE DEF w
<1>4. LET excess(u) == shares[u] * SumFunction(w) - draft.amount * w[u]
      IN  /\ shares \in Tallies(Nat) /\ DOMAIN shares = draft.selected
          /\ SumFunction(shares) = draft.amount
          /\ \A u \in draft.selected :
                 /\ excess(u) > -SumFunction(w)
                 /\ excess(u) < (IF u = Max(draft.selected)
                                 THEN SumFunction(w) * Cardinality(draft.selected) ELSE 1)
    BY <1>2, <1>3, SharesOfBill
<1> HIDE DEF shares
<1>5. /\ draft' \in DraftRows /\ draft'.mode = draft.mode /\ draft'.selected = draft.selected
      /\ draft'.amount = draft.amount /\ draft'.weights = draft.weights /\ draft'.shares = shares
    BY <1>1, <1>4 DEF Divided, Typed, DraftRows
<1>6. failures' \in 0 .. MaxFailures /\ step' \in {"EXP_CONFIRM", "EXP_WEIGHTS"}
    BY <1>1, AnswerTyped DEF Divided
<1>7. Typed'
    BY <1>1, <1>5, <1>6 DEF Divided, Typed, Steps
<1>8. FairShares'
    BY <1>4, <1>5 DEF FairShares, w
<1>9. SharesAddUp'
    BY <1>2, <1>4, <1>5 DEF SharesAddUp
<1>10. OneWay' /\ Receipt' /\ ReceiptIsMet'
    BY <1>1, <1>2, <1>5, <1>6 DEF OneWay, Receipt, ReceiptIsMet
<1> QED BY <1>7, <1>8, <1>9, <1>10 DEF Divided

\* One more amount for everybody in `who`.
LEMMA CreditTally ==
    ASSUME NEW f \in Tallies(Nat), NEW who \in SUBSET People, NEW amount \in Nat
    PROVE  /\ Credit(f, [v \in who |-> amount]) \in Tallies(Nat)
           /\ DOMAIN Credit(f, [v \in who |-> amount]) = DOMAIN f \cup who
<1> DEFINE g == [v \in who |-> amount]
           h == Credit(f, g)
<1>1. DOMAIN f \subseteq People /\ \A u \in DOMAIN f : f[u] \in Nat
    BY TallyRule
<1>2. h = [u \in DOMAIN f \cup who |->
              (IF u \in DOMAIN f THEN f[u] ELSE 0) + (IF u \in who THEN amount ELSE 0)]
    BY DEF Credit
<1>3. DOMAIN h = DOMAIN f \cup who /\ h = [u \in DOMAIN h |-> h[u]]
    BY <1>2
<1>4. \A u \in DOMAIN f \cup who :
          h[u] = (IF u \in DOMAIN f THEN f[u] ELSE 0) + (IF u \in who THEN amount ELSE 0)
    BY <1>2
<1> HIDE DEF h
<1>5. \A u \in DOMAIN h : h[u] \in Nat
    BY <1>1, <1>3, <1>4
<1>6. h \in Tallies(Nat)
    BY <1>1, <1>3, <1>5, TallyRule
<1> QED BY <1>3, <1>6 DEF h

LEMMA TakeAmountDivided ==
    ASSUME Divided, NEW amount \in Amounts, CustomAmountReceived(amount)
    PROVE  Divided'
<1> DEFINE u       == Min(custom.todo)
           todo    == custom.todo \ {u}
           amounts == Credit(custom.amounts, [v \in {u} |-> amount])
           meant   == Credit(told.meant, [v \in told.asked |-> amount])
           asked   == IF Arrives /\ todo # {} THEN {Min(todo)} ELSE told.asked
<1>1. /\ step = "EXP_CUSTOM_AMOUNTS" /\ custom.todo # {} /\ UNCHANGED ocr
      /\ custom' = [todo |-> todo, amounts |-> amounts]
      /\ IF todo = {} THEN Finalize(amounts) ELSE Answer("EXP_CUSTOM_AMOUNTS") /\ UNCHANGED draft
      /\ told' = [asked |-> asked, meant |-> meant, covered |-> told.covered, splits |-> told.splits]
    BY DEF CustomAmountReceived, TakeAmount
<1>2. /\ custom.todo \in SUBSET People /\ custom.amounts \in Tallies(Nat)
      /\ told.asked \in SUBSET People /\ told.meant \in Tallies(Nat)
      /\ told.covered \in SUBSET Nat /\ told.splits \in Nat /\ amount \in Nat
    BY SumsAssumption DEF Divided, Typed, CustomRows, ToldRows
<1>3. u \in People
    BY <1>1, <1>2, PeopleFinite, MinIn
<1>4. amounts \in Tallies(Nat) /\ u \in DOMAIN amounts
    <2>1. {u} \in SUBSET People
        BY <1>3
    <2> HIDE DEF u
    <2>2. /\ Credit(custom.amounts, [v \in {u} |-> amount]) \in Tallies(Nat)
          /\ DOMAIN Credit(custom.amounts, [v \in {u} |-> amount])
                 = DOMAIN custom.amounts \cup {u}
        BY <1>2, <2>1, CreditTally
    <2> QED BY <2>2
<1>5. meant \in Tallies(Nat)
    BY <1>2, CreditTally
<1>6. asked \in SUBSET People
    <2>1. todo # {} => Min(todo) \in People
        BY <1>2, PeopleFinite, MinIn
    <2> QED BY <1>2, <2>1
<1>7. todo \in SUBSET People
    BY <1>2
<1> HIDE DEF amounts, meant, asked, todo
<1>8. custom' \in CustomRows /\ told' \in ToldRows /\ custom'.amounts = amounts
    BY <1>1, <1>2, <1>4, <1>5, <1>6, <1>7 DEF CustomRows, ToldRows
<1>9. custom'.amounts # Nobody
    <2>1. DOMAIN Nobody = {}
        BY DEF Nobody
    <2> QED BY <1>4, <1>8, <2>1
<1>10. /\ draft' \in DraftRows /\ failures' \in 0 .. MaxFailures
       /\ step' \in {"EXP_CUSTOM_AMOUNTS", "END", "EXP_CONFIRM"}
       /\ OneWay' /\ SharesAddUp' /\ FairShares'
    <2>1. CASE todo = {}
        <3>1. amounts \in Tallies(Int) /\ Finalize(amounts)
            BY <1>1, <1>4, <2>1, TallyWiden
        <3> QED BY <1>1, <3>1, FinalizeTyped, FinalizeDivided DEF Divided, Middle
    <2>2. CASE todo # {}
        <3>1. /\ UNCHANGED draft /\ failures' \in 0 .. MaxFailures
              /\ step' = "EXP_CUSTOM_AMOUNTS"
            BY <1>1, <2>2, AnswerTyped DEF Divided
        <3> QED BY <1>1, <3>1 DEF Divided, Typed, OneWay, SharesAddUp, FairShares
    <2> QED BY <2>1, <2>2
<1>11. Typed'
    BY <1>1, <1>8, <1>10 DEF Divided, Typed, Steps
<1> QED BY <1>9, <1>10, <1>11 DEF Divided, Receipt, ReceiptIsMet

LEMMA PhotoDivided == ASSUME Divided, OcrPhotoReceived PROVE Divided'
<1>1. step = "EXP_OCR_PHOTO"
    BY DEF OcrPhotoReceived
<1>2. CASE StartCustomAmounts /\ UNCHANGED ocr
    BY <1>1, <1>2, StartDivided
<1>3. ASSUME NEW result \in Extractions,
             ocr' = [ocr EXCEPT !.items = result.items, !.printed = result.printed,
                                !.index = 1, !.tagged = {}, !.totals = Nobody],
             Answer("EXP_OCR_ITEM"), UNCHANGED <<draft, custom, told>>
      PROVE  Divided'
    <2>1. result.items \in ItemLists /\ result.printed \in Int
        BY SumsAssumption DEF Extractions
    <2>2. /\ ocr' \in OcrRows /\ ocr'.index = 1 /\ ocr'.totals = Nobody
          /\ ocr'.items = result.items
        <3>1. Nobody \in Tallies(Int)
            BY NobodyTally
        <3>2. ocr \in OcrRows
            BY DEF Divided, Typed
        <3>3. ocr' = [items |-> result.items, printed |-> result.printed, index |-> 1,
                      tagged |-> {}, totals |-> Nobody, remainder |-> ocr.remainder]
            BY <1>3, <3>2 DEF OcrRows
        <3>4. ocr.remainder \in Int
            BY <3>2 DEF OcrRows
        <3>5. result.items \in ItemLists \cup {<<>>}
            BY <2>1
        <3> QED BY <2>1, <3>1, <3>3, <3>4, <3>5 DEF OcrRows
    <2>3. Len(ocr'.items) \in Nat
        BY <2>1, <2>2, ItemListShape
    <2>4. failures' \in 0 .. MaxFailures /\ step' \in {"EXP_OCR_ITEM", "EXP_OCR_PHOTO"}
        BY <1>1, <1>3, AnswerTyped DEF Divided
    <2>5. Typed'
        BY <1>3, <2>2, <2>3, <2>4 DEF Divided, Typed, Steps
    <2>6. told.covered = {} /\ told.splits = 0
        BY <1>1 DEF Divided, Receipt
    <2>7. CoveredSum' = 0
        <3>1. CoveredSum' = SumFunctionOnSet(ocr'.items, {})
            BY <1>3, <2>6 DEF CoveredSum
        <3> QED BY <3>1, SumEmpty
    <2>8. DOMAIN Nobody = {}
        BY DEF Nobody
    <2>9. Receipt'
        BY <1>3, <2>2, <2>4, <2>6, <2>7, <2>8, NobodySum DEF Receipt
    <2>10. OneWay' /\ SharesAddUp' /\ FairShares' /\ ReceiptIsMet'
        BY <1>1, <1>3, <2>4 DEF Divided, OneWay, SharesAddUp, FairShares, ReceiptIsMet
    <2> QED BY <2>5, <2>9, <2>10 DEF Divided
<1> QED BY <1>2, <1>3 DEF OcrPhotoReceived

LEMMA ItemTaggedDivided == ASSUME Divided, NEW u \in People, ItemTagged(u) PROVE Divided'
<1>1. /\ step = "EXP_OCR_ITEM" /\ UNCHANGED <<step, draft, custom, failures, told>>
      /\ ocr' = [ocr EXCEPT !.tagged = IF u \in @ THEN @ \ {u} ELSE @ \cup {u}]
    BY DEF ItemTagged
<1>2. /\ ocr' \in OcrRows /\ ocr'.items = ocr.items /\ ocr'.index = ocr.index
      /\ ocr'.totals = ocr.totals /\ ocr'.printed = ocr.printed /\ ocr'.remainder = ocr.remainder
    BY <1>1 DEF Divided, Typed, OcrRows
<1>3. Typed'
    BY <1>1, <1>2 DEF Divided, Typed
<1>4. Receipt'
    BY <1>1, <1>2 DEF Divided, Receipt, CoveredSum, NoDiscount
<1> QED BY <1>1, <1>3, <1>4 DEF Divided, OneWay, SharesAddUp, FairShares, ReceiptIsMet

\* What the totals are once the current item has been divided among `to`.
LEMMA AssignedSum ==
    ASSUME Divided, step = "EXP_OCR_ITEM", ocr.index <= Len(ocr.items), NEW to \in SUBSET People,
           Covering(to)
    PROVE  /\ Assigned(to) \in Tallies(Int)
           /\ told' \in ToldRows /\ told'.splits = 0
           /\ told'.covered \subseteq 1 .. ocr.index
           /\ SumFunction(Assigned(to)) = SumFunctionOnSet(ocr.items, told'.covered)
           /\ NoDiscount => \A u \in DOMAIN Assigned(to) : Assigned(to)[u] >= 0
<1>1. /\ ocr.totals \in Tallies(Int) /\ ocr.index \in 1 .. Len(ocr.items) /\ Len(ocr.items) \in Nat
      /\ DOMAIN ocr.items = 1 .. Len(ocr.items)
      /\ \A i \in 1 .. Len(ocr.items) : ocr.items[i] \in Int
    <2>1. ocr \in OcrRows
        BY DEF Divided, Typed
    <2>2. ocr.items \in ItemLists \cup {<<>>} /\ ocr.totals \in Tallies(Int)
          /\ ocr.index \in Nat \ {0}
        BY <2>1 DEF OcrRows
    <2> QED BY <2>2, ItemListShape
<1>2. /\ told \in ToldRows /\ told.covered \subseteq 1 .. ocr.index - 1 /\ told.splits = 0
      /\ SumFunction(ocr.totals) = SumFunctionOnSet(ocr.items, told.covered)
      /\ NoDiscount => \A u \in DOMAIN ocr.totals : ocr.totals[u] >= 0
    BY DEF Divided, Typed, Receipt, CoveredSum
<1>3. CASE to = {}
    <2>1. told' = [told EXCEPT !.covered = @]
        BY <1>3 DEF Covering
    <2>2. told' \in ToldRows /\ told'.covered = told.covered /\ told'.splits = told.splits
        BY <1>2, <2>1 DEF ToldRows
    <2>3. Assigned(to) = ocr.totals
        BY <1>3 DEF Assigned
    <2> QED BY <1>1, <1>2, <2>2, <2>3
<1>4. CASE to # {}
    <2> DEFINE item == ocr.items[ocr.index]
               even == SplitEvenly(item, to)
    <2>1. told' = [told EXCEPT !.covered = @ \cup {ocr.index}]
        BY <1>4 DEF Covering
    <2>2. /\ told' \in ToldRows /\ told'.covered = told.covered \cup {ocr.index}
          /\ told'.splits = told.splits
        BY <1>1, <1>2, <2>1 DEF ToldRows
    <2>3. Assigned(to) = Credit(ocr.totals, even)
        BY <1>4 DEF Assigned
    <2>4. item \in Int
        BY <1>1
    <2>5. /\ even \in Tallies(Int) /\ DOMAIN even = to /\ SumFunction(even) = item
          /\ item >= 0 => \A u \in to : even[u] >= 0
        <3> HIDE DEF item
        <3> QED BY <1>4, <2>4, SplitEvenlySum
    <2> HIDE DEF even
    <2>6. /\ Assigned(to) \in Tallies(Int)
          /\ DOMAIN Assigned(to) = DOMAIN ocr.totals \cup to
          /\ SumFunction(Assigned(to)) = SumFunction(ocr.totals) + item
          /\ \A u \in DOMAIN ocr.totals \cup to :
                 Assigned(to)[u] = (IF u \in DOMAIN ocr.totals THEN ocr.totals[u] ELSE 0)
                                 + (IF u \in to THEN even[u] ELSE 0)
        <3>1. /\ Credit(ocr.totals, even) \in Tallies(Int)
              /\ DOMAIN Credit(ocr.totals, even) = DOMAIN ocr.totals \cup DOMAIN even
              /\ SumFunction(Credit(ocr.totals, even)) = SumFunction(ocr.totals) + SumFunction(even)
              /\ \A u \in DOMAIN ocr.totals \cup DOMAIN even :
                     Credit(ocr.totals, even)[u]
                         = (IF u \in DOMAIN ocr.totals THEN ocr.totals[u] ELSE 0)
                         + (IF u \in DOMAIN even THEN even[u] ELSE 0)
            BY <1>1, <2>5, CreditSum
        <3>2. DOMAIN even = to /\ SumFunction(even) = item
            BY <2>5
        <3> HIDE DEF item
        <3> QED BY <2>3, <3>1, <3>2
    <2>7. SumFunctionOnSet(ocr.items, told.covered \cup {ocr.index})
              = item + SumFunctionOnSet(ocr.items, told.covered)
        <3>1. told.covered \in SUBSET (1 .. Len(ocr.items)) /\ ocr.index \notin told.covered
            BY <1>1, <1>2
        <3>2. IsFiniteSet(1 .. Len(ocr.items))
            BY <1>1, FS_Interval
        <3>3. IsSummable(ocr.items, told.covered)
            BY <1>1, <3>1, <3>2, FS_Subset DEF IsSummable
        <3> QED BY <2>4, <3>1, <3>3, SumAdd
    <2>8. SumFunction(Assigned(to)) = SumFunctionOnSet(ocr.items, told'.covered)
        <3>1. SumFunctionOnSet(ocr.items, told.covered) \in Int
            BY <1>1, <1>2, TallySum
        <3> QED BY <1>2, <2>2, <2>4, <2>6, <2>7, <3>1
    <2>9. NoDiscount => \A u \in DOMAIN Assigned(to) : Assigned(to)[u] >= 0
        <3> SUFFICES ASSUME NoDiscount, NEW u \in DOMAIN ocr.totals \cup to
                     PROVE  Assigned(to)[u] >= 0
            BY <2>6
        <3>1. item >= 0
            BY <1>1, <2>4 DEF NoDiscount
        <3>2. u \in DOMAIN ocr.totals => ocr.totals[u] \in Int /\ ocr.totals[u] >= 0
            BY <1>1, <1>2, TallyRule
        <3>3. u \in to => even[u] \in Int /\ even[u] >= 0
            BY <2>5, <3>1, TallyRule
        <3> HIDE DEF item
        <3> QED BY <2>6, <3>2, <3>3
    <2>10. told'.covered \subseteq 1 .. ocr.index
        BY <1>1, <1>2, <2>2
    <2> QED BY <1>2, <2>2, <2>6, <2>8, <2>9, <2>10
<1> QED BY <1>3, <1>4

\* The totals are settled, and what they add up to is due: _finalize_custom_shares
\* makes that the expense.
LEMMA SettledDivided ==
    ASSUME Divided, step \in {"EXP_OCR_ITEM", "EXP_OCR_REMAINDER"},
           NEW totals \in Tallies(Int), Finalize(totals), UNCHANGED custom,
           ocr' \in OcrRows, ocr'.items = ocr.items, ocr'.totals = totals,
           ocr'.index \in 1 .. Len(ocr'.items) + 1,
           told' \in ToldRows,
           SumFunction(totals) = IF told'.splits = 0
                                 THEN SumFunctionOnSet(ocr'.items, told'.covered)
                                 ELSE ocr'.printed + (told'.splits - 1) * ocr'.remainder,
           NoDiscount => \A u \in DOMAIN totals : totals[u] >= 0,
           told'.splits > 1 => failures > 0,
           step' = step => Receipt'
    PROVE  Divided'
<1>1. OneWay' /\ SharesAddUp' /\ FairShares'
    BY FinalizeDivided DEF Middle
<1>2. /\ failures' \in 0 .. MaxFailures /\ failures <= failures'
      /\ draft' \in DraftRows
      /\ step' \in {"END", "EXP_CONFIRM"} \/ step' = step
      /\ step' = "EXP_CONFIRM" =>
             /\ draft'.amount >= SumFunction(totals)
             /\ (\A u \in DOMAIN totals : totals[u] >= 0) => draft'.amount = SumFunction(totals)
    BY FinalizeTyped DEF Divided
<1>3. Typed'
    BY <1>2 DEF Divided, Typed, Steps
<1>4. NoDiscount' <=> NoDiscount
    BY DEF NoDiscount
<1>5. failures \in Nat /\ failures' \in Nat
    BY <1>2, BoundsAssumption DEF Divided, Typed
<1>6. ReceiptIsMet'
    BY <1>2, <1>4, <1>5 DEF ReceiptIsMet
<1>7. Receipt'
    BY <1>2 DEF Receipt
<1> QED BY <1>1, <1>3, <1>6, <1>7 DEF Divided

LEMMA ItemDoneDivided ==
    ASSUME Divided, NEW to \in SUBSET People, ItemDone(to)
    PROVE  Divided'
<1> DEFINE totals == Assigned(to)
           last   == ocr.index = Len(ocr.items)
           rest   == ocr.printed # 0 /\ ocr.printed > SumFunction(totals)
<1>1. /\ step = "EXP_OCR_ITEM" /\ ocr.index <= Len(ocr.items)
      /\ IF last THEN FinishOcrItems(totals) ELSE NextItem(totals)
      /\ Covering(to) /\ UNCHANGED custom
    BY DEF ItemDone
<1>2. /\ totals \in Tallies(Int)
      /\ told' \in ToldRows /\ told'.splits = 0
      /\ told'.covered \subseteq 1 .. ocr.index
      /\ SumFunction(totals) = SumFunctionOnSet(ocr.items, told'.covered)
      /\ NoDiscount => \A u \in DOMAIN totals : totals[u] >= 0
    BY <1>1, AssignedSum
<1> HIDE DEF totals
<1>3. /\ ocr \in OcrRows /\ ocr.index \in 1 .. Len(ocr.items)
      /\ ocr.items \in ItemLists \cup {<<>>} /\ ocr.printed \in Int /\ Len(ocr.items) \in Nat
    <2>1. /\ ocr \in OcrRows /\ ocr.index \in 1 .. Len(ocr.items) + 1
          /\ ocr.items \in ItemLists \cup {<<>>} /\ ocr.printed \in Int
        BY DEF Divided, Typed, OcrRows
    <2> QED BY <1>1, <2>1, ItemListShape
<1>4. SumFunction(totals) \in Int
    BY <1>2, TallySum
<1>5. ASSUME NEW remainder \in Int,
             ocr' = [ocr EXCEPT !.index = @ + 1, !.tagged = {}, !.totals = totals,
                                !.remainder = remainder]
      PROVE  /\ ocr' \in OcrRows /\ ocr'.items = ocr.items /\ ocr'.totals = totals
             /\ ocr'.printed = ocr.printed /\ ocr'.remainder = remainder
             /\ ocr'.index = ocr.index + 1 /\ ocr'.index \in 1 .. Len(ocr'.items) + 1
             /\ CoveredSum' = SumFunction(totals)
             /\ told'.covered \subseteq 1 .. ocr'.index - 1
             /\ NoDiscount' => \A u \in DOMAIN ocr'.totals : ocr'.totals[u] >= 0
    <2>1. ocr' = [items |-> ocr.items, printed |-> ocr.printed, index |-> ocr.index + 1,
                  tagged |-> {}, totals |-> totals, remainder |-> remainder]
        BY <1>3, <1>5 DEF OcrRows
    <2>2. ocr.index + 1 \in Nat \ {0} /\ (ocr.index + 1) - 1 = ocr.index
          /\ ocr.index + 1 \in 1 .. Len(ocr.items) + 1
        BY <1>3
    <2>3. ocr' \in OcrRows
        BY <1>2, <1>3, <2>1, <2>2 DEF OcrRows
    <2>4. /\ ocr'.items = ocr.items /\ ocr'.totals = totals /\ ocr'.index = ocr.index + 1
          /\ ocr'.printed = ocr.printed /\ ocr'.remainder = remainder
        BY <2>1
    <2>5. CoveredSum' = SumFunction(totals)
        BY <1>2, <2>4 DEF CoveredSum
    <2>6. NoDiscount' <=> NoDiscount
        BY <2>4 DEF NoDiscount
    <2> QED BY <1>2, <2>2, <2>3, <2>4, <2>5, <2>6
<1>6. ASSUME ocr' = [ocr EXCEPT !.index = @ + 1, !.tagged = {}, !.totals = totals]
      PROVE  /\ ocr.remainder \in Int
             /\ ocr' = [ocr EXCEPT !.index = @ + 1, !.tagged = {}, !.totals = totals,
                                   !.remainder = ocr.remainder]
    BY <1>3, <1>6 DEF OcrRows
<1>7. CASE last /\ ~rest
    <2>1. /\ ocr' = [ocr EXCEPT !.index = @ + 1, !.tagged = {}, !.totals = totals]
          /\ Finalize(totals)
        BY <1>1, <1>7 DEF FinishOcrItems
    <2>2. ocr.remainder \in Int
          /\ ocr' = [ocr EXCEPT !.index = @ + 1, !.tagged = {}, !.totals = totals,
                                !.remainder = ocr.remainder]
        BY <1>6, <2>1
    <2>3. /\ ocr' \in OcrRows /\ ocr'.items = ocr.items /\ ocr'.totals = totals
          /\ ocr'.index \in 1 .. Len(ocr'.items) + 1
          /\ CoveredSum' = SumFunction(totals)
          /\ told'.covered \subseteq 1 .. ocr'.index - 1
          /\ NoDiscount' => \A u \in DOMAIN ocr'.totals : ocr'.totals[u] >= 0
        BY <1>5, <2>2
    <2>4. step' = step => Receipt'
        BY <1>1, <1>2, <2>3 DEF Receipt
    <2>5. SumFunction(totals) = SumFunctionOnSet(ocr'.items, told'.covered)
        BY <2>3 DEF CoveredSum
    <2> QED BY <1>1, <1>2, <2>1, <2>3, <2>4, <2>5, SettledDivided
<1>8. CASE last /\ rest
    <2> DEFINE left == ocr.printed - SumFunction(totals)
    <2>1. /\ ocr' = [ocr EXCEPT !.index = @ + 1, !.tagged = {}, !.totals = totals,
                                !.remainder = left]
          /\ Answer("EXP_OCR_REMAINDER") /\ UNCHANGED draft
        BY <1>1, <1>8 DEF FinishOcrItems
    <2>2. left \in Int /\ left > 0 /\ ocr.printed = SumFunction(totals) + left
        BY <1>3, <1>4, <1>8
    <2> HIDE DEF left
    <2>3. /\ ocr' \in OcrRows /\ ocr'.items = ocr.items /\ ocr'.totals = totals
          /\ ocr'.printed = ocr.printed /\ ocr'.remainder = left
          /\ ocr'.index \in 1 .. Len(ocr'.items) + 1
          /\ CoveredSum' = SumFunction(totals)
          /\ told'.covered \subseteq 1 .. ocr'.index - 1
          /\ NoDiscount' => \A u \in DOMAIN ocr'.totals : ocr'.totals[u] >= 0
        BY <1>5, <2>1, <2>2
    <2>4. /\ failures' \in 0 .. MaxFailures
          /\ step' \in {"EXP_OCR_REMAINDER", "EXP_OCR_ITEM"}
        BY <1>1, <2>1, AnswerTyped DEF Divided
    <2>5. Typed'
        BY <1>1, <1>2, <2>1, <2>3, <2>4 DEF Divided, Typed, Steps
    <2>6. Receipt'
        BY <1>2, <1>4, <2>2, <2>3, <2>4 DEF Receipt
    <2> QED BY <1>1, <2>1, <2>4, <2>5, <2>6
            DEF Divided, OneWay, SharesAddUp, FairShares, ReceiptIsMet
<1>9. CASE ~last
    <2>1. /\ ocr' = [ocr EXCEPT !.index = @ + 1, !.tagged = {}, !.totals = totals]
          /\ Answer("EXP_OCR_ITEM") /\ UNCHANGED draft
        BY <1>1, <1>9 DEF NextItem
    <2>2. ocr.remainder \in Int
          /\ ocr' = [ocr EXCEPT !.index = @ + 1, !.tagged = {}, !.totals = totals,
                                !.remainder = ocr.remainder]
        BY <1>6, <2>1
    <2>3. /\ ocr' \in OcrRows /\ ocr'.items = ocr.items /\ ocr'.totals = totals
          /\ ocr'.index \in 1 .. Len(ocr'.items) + 1
          /\ CoveredSum' = SumFunction(totals)
          /\ told'.covered \subseteq 1 .. ocr'.index - 1
          /\ NoDiscount' => \A u \in DOMAIN ocr'.totals : ocr'.totals[u] >= 0
        BY <1>5, <2>2
    <2>4. failures' \in 0 .. MaxFailures /\ step' = "EXP_OCR_ITEM"
        BY <1>1, <2>1, AnswerTyped DEF Divided
    <2>5. Typed'
        BY <1>1, <1>2, <2>1, <2>3, <2>4 DEF Divided, Typed, Steps
    <2>6. Receipt'
        BY <1>2, <2>3, <2>4 DEF Receipt
    <2> QED BY <1>1, <2>1, <2>4, <2>5, <2>6
            DEF Divided, OneWay, SharesAddUp, FairShares, ReceiptIsMet
<1> QED BY <1>7, <1>8, <1>9

LEMMA CoveredSumInt ==
    ASSUME Divided, step = "EXP_OCR_REMAINDER"
    PROVE  CoveredSum \in Int
<1>1. ocr.items \in ItemLists \cup {<<>>} /\ ocr.index \in 1 .. Len(ocr.items) + 1
    BY DEF Divided, Typed, OcrRows
<1>2. Len(ocr.items) \in Nat /\ \A i \in 1 .. Len(ocr.items) : ocr.items[i] \in Int
    BY <1>1, ItemListShape
<1>3. told.covered \subseteq 1 .. ocr.index - 1
    BY DEF Divided, Receipt
<1>4. told.covered \in SUBSET (1 .. Len(ocr.items)) /\ IsFiniteSet(1 .. Len(ocr.items))
    <2> DEFINE n == Len(ocr.items)
    <2>1. n \in Nat /\ ocr.index \in 1 .. n + 1
        BY <1>1, <1>2
    <2> HIDE DEF n
    <2>2. told.covered \in SUBSET (1 .. n)
        BY <1>3, <2>1
    <2>3. IsFiniteSet(1 .. n)
        BY <2>1, FS_Interval
    <2> QED BY <2>2, <2>3 DEF n
<1>5. IsSummable(ocr.items, told.covered)
    BY <1>2, <1>4, FS_Subset DEF IsSummable
<1> QED BY <1>5, SumInt DEF CoveredSum

LEMMA RemainderSplitDivided == ASSUME Divided, RemainderSplit PROVE Divided'
<1> DEFINE even   == SplitEvenly(ocr.remainder, draft.selected)
           totals == Credit(ocr.totals, even)
<1>1. /\ step = "EXP_OCR_REMAINDER"
      /\ ocr' = [ocr EXCEPT !.totals = totals] /\ Finalize(totals)
      /\ told' = [told EXCEPT !.splits = @ + 1] /\ UNCHANGED custom
    BY DEF RemainderSplit
<1>2. /\ ocr \in OcrRows /\ told \in ToldRows /\ ocr.index \in 1 .. Len(ocr.items) + 1
      /\ draft.selected \in (SUBSET People) \ {{}}
    BY DEF Divided, Typed, DraftRows
<1>3. /\ ocr.remainder \in Int /\ ocr.totals \in Tallies(Int) /\ ocr.printed \in Int
      /\ told.splits \in Nat
    BY <1>2 DEF OcrRows, ToldRows
<1>4. /\ told.covered \subseteq 1 .. ocr.index - 1
      /\ NoDiscount => \A u \in DOMAIN ocr.totals : ocr.totals[u] >= 0
      /\ ocr.remainder > 0 /\ ocr.printed = CoveredSum + ocr.remainder
      /\ SumFunction(ocr.totals) = CoveredSum + told.splits * ocr.remainder
      /\ told.splits > 0 => failures > 0
    BY <1>1 DEF Divided, Receipt
<1>5. CoveredSum \in Int
    BY <1>1, CoveredSumInt
<1>6. /\ even \in Tallies(Int) /\ DOMAIN even = draft.selected
      /\ SumFunction(even) = ocr.remainder
      /\ \A u \in draft.selected : even[u] >= 0
    BY <1>2, <1>3, <1>4, SplitEvenlySum
<1> HIDE DEF even
<1>7. /\ totals \in Tallies(Int)
      /\ DOMAIN totals = DOMAIN ocr.totals \cup DOMAIN even
      /\ SumFunction(totals) = SumFunction(ocr.totals) + SumFunction(even)
      /\ \A u \in DOMAIN ocr.totals \cup DOMAIN even :
             totals[u] = (IF u \in DOMAIN ocr.totals THEN ocr.totals[u] ELSE 0)
                       + (IF u \in DOMAIN even THEN even[u] ELSE 0)
    BY <1>3, <1>6, CreditSum
<1> HIDE DEF totals
<1>8. ocr' \in OcrRows /\ ocr'.items = ocr.items /\ ocr'.totals = totals
      /\ ocr'.index = ocr.index /\ ocr'.printed = ocr.printed /\ ocr'.remainder = ocr.remainder
    BY <1>1, <1>2, <1>7 DEF OcrRows
<1>9. told' \in ToldRows /\ told'.covered = told.covered /\ told'.splits = told.splits + 1
    BY <1>1, <1>2 DEF ToldRows
<1>10. NoDiscount => \A u \in DOMAIN totals : totals[u] >= 0
    <2> SUFFICES ASSUME NoDiscount, NEW u \in DOMAIN ocr.totals \cup DOMAIN even
                 PROVE  totals[u] >= 0
        BY <1>7
    <2>1. u \in DOMAIN ocr.totals => ocr.totals[u] \in Int /\ ocr.totals[u] >= 0
        BY <1>3, <1>4, TallyRule
    <2>2. u \in DOMAIN even => even[u] \in Int /\ even[u] >= 0
        BY <1>6, TallyRule
    <2> QED BY <1>7, <2>1, <2>2
<1>11. SumFunction(totals) = CoveredSum + (told.splits + 1) * ocr.remainder
       /\ SumFunction(totals) = ocr.printed + told.splits * ocr.remainder
    <2>1. told.splits * ocr.remainder \in Int
          /\ (told.splits + 1) * ocr.remainder = told.splits * ocr.remainder + ocr.remainder
        BY <1>3
    <2> QED BY <1>3, <1>4, <1>5, <1>6, <1>7, <2>1
<1>12. SumFunction(totals) = ocr'.printed + (told'.splits - 1) * ocr'.remainder
       /\ told'.splits # 0
    <2>1. told'.splits - 1 = told.splits /\ told'.splits # 0
        BY <1>3, <1>9
    <2> QED BY <1>8, <1>11, <2>1
<1>13. step' = step => Receipt'
    <2> SUFFICES ASSUME step' = step PROVE Receipt'
        OBVIOUS
    <2>1. failures' > 0
        BY <1>1, <1>7, FinalizeTyped DEF Divided
    <2>2. CoveredSum' = CoveredSum /\ (NoDiscount' <=> NoDiscount)
        BY <1>8, <1>9 DEF CoveredSum, NoDiscount
    <2> QED BY <1>1, <1>4, <1>8, <1>9, <1>10, <1>11, <2>1, <2>2 DEF Receipt
<1>14. told'.splits > 1 => failures > 0
    BY <1>3, <1>4, <1>9
<1>15. ocr'.index \in 1 .. Len(ocr'.items) + 1
    BY <1>2, <1>8
<1> QED BY <1>1, <1>7, <1>8, <1>9, <1>10, <1>12, <1>13, <1>14, <1>15, SettledDivided

LEMMA RemainderSkipDivided == ASSUME Divided, RemainderSkip PROVE Divided'
<1>1. step = "EXP_OCR_REMAINDER" /\ Finalize(ocr.totals) /\ UNCHANGED <<custom, ocr, told>>
    BY DEF RemainderSkip
<1>2. /\ ocr \in OcrRows /\ told \in ToldRows /\ ocr.index \in 1 .. Len(ocr.items) + 1
    BY DEF Divided, Typed
<1>3. /\ ocr.totals \in Tallies(Int) /\ ocr.remainder \in Int /\ ocr.printed \in Int
      /\ told.splits \in Nat
    BY <1>2 DEF OcrRows, ToldRows
<1>4. /\ NoDiscount => \A u \in DOMAIN ocr.totals : ocr.totals[u] >= 0
      /\ ocr.remainder > 0 /\ ocr.printed = CoveredSum + ocr.remainder
      /\ SumFunction(ocr.totals) = CoveredSum + told.splits * ocr.remainder
      /\ told.splits > 0 => failures > 0
    BY <1>1 DEF Divided, Receipt
<1>5. SumFunction(ocr.totals) \in Int
    BY <1>3, TallySum
<1>6. SumFunction(ocr.totals) = IF told.splits = 0
                                THEN SumFunctionOnSet(ocr.items, told.covered)
                                ELSE ocr.printed + (told.splits - 1) * ocr.remainder
    <2>1. told.splits * ocr.remainder \in Int
          /\ (told.splits - 1) * ocr.remainder = told.splits * ocr.remainder - ocr.remainder
          /\ (told.splits = 0 => told.splits * ocr.remainder = 0)
        BY <1>3
    <2>2. CoveredSum \in Int
        BY <1>1, CoveredSumInt
    <2> QED BY <1>3, <1>4, <2>1, <2>2 DEF CoveredSum
<1>7. step' = step => Receipt'
    <2> SUFFICES ASSUME step' = step PROVE Receipt'
        OBVIOUS
    <2>1. failures' > 0
        BY <1>1, <1>3, FinalizeTyped DEF Divided
    <2>2. CoveredSum' = CoveredSum /\ (NoDiscount' <=> NoDiscount)
        BY <1>1 DEF CoveredSum, NoDiscount
    <2> QED BY <1>1, <2>1, <2>2 DEF Divided, Receipt
<1>8. told'.splits > 1 => failures > 0
    BY <1>1, <1>3, <1>4
<1> QED BY <1>1, <1>2, <1>3, <1>4, <1>6, <1>7, <1>8, SettledDivided

-----------------------------------------------------------------------------
LEMMA DividedNext == Divided /\ [Next]_vars => Divided'
<1> SUFFICES ASSUME Divided, [Next]_vars PROVE Divided'
    OBVIOUS
<1>1. CASE SplitCustom
    BY <1>1, StartDivided DEF SplitCustom
<1>2. CASE SplitOcr
    BY <1>2, ModeDivided DEF SplitOcr
<1>3. ASSUME NEW mode \in {"equal", "weighted"}, SplitByHead(mode) PROVE Divided'
    BY <1>3, ModeDivided DEF SplitByHead
<1>4. ASSUME NEW a \in Amounts, AmountReceived(a) PROVE Divided'
    BY <1>4, AmountReceivedDivided
<1>5. ASSUME NEW a \in Amounts, CustomAmountReceived(a) PROVE Divided'
    BY <1>5, TakeAmountDivided
<1>6. CASE WeightsDone
    BY <1>6, WeightsDoneDivided
<1>7. CASE OcrPhotoReceived
    BY <1>7, PhotoDivided
<1>8. CASE ItemConfirm
    <2>1. ocr.tagged \in SUBSET People
        BY DEF Divided, Typed, OcrRows
    <2> QED BY <1>8, <2>1, ItemDoneDivided DEF ItemConfirm
<1>9. CASE ItemNone
    <2>1. {} \in SUBSET People
        OBVIOUS
    <2> QED BY <1>9, <2>1, ItemDoneDivided DEF ItemNone
<1>10. CASE RemainderSplit
    BY <1>10, RemainderSplitDivided
<1>11. CASE RemainderSkip
    BY <1>11, RemainderSkipDivided
<1>12. ASSUME NEW u \in People, NEW by \in {-1, 1}, WeightChanged(u, by) PROVE Divided'
    BY <1>12, WeightChangedDivided
<1>13. ASSUME NEW u \in People, ItemTagged(u) PROVE Divided'
    BY <1>13, ItemTaggedDivided
<1>14. CASE UNCHANGED vars
    BY <1>14 DEF vars, Divided, Typed, OneWay, Receipt, CoveredSum, SharesAddUp, FairShares,
                 ReceiptIsMet, NoDiscount
<1> QED BY <1>1, <1>2, <1>3, <1>4, <1>5, <1>6, <1>7, <1>8, <1>9, <1>10, <1>11, <1>12, <1>13, <1>14
        DEF Next, Proceed

LEMMA AlwaysDivided == Spec => []Divided
BY DividedInit, DividedNext, PTL DEF Spec

\* Headcounts stay what a profile could be, shares and amounts whole numbers,
\* whatever is pressed and however often a message fails.
THEOREM BillTypes == Spec => []TypeOK
BY AlwaysDivided, TypedTypeOK, PTL DEF Divided

\* Equally, by headcount, with an amount for each or item by item: the shares of
\* the preview add up to its amount, for any group, headcounts, amounts and
\* receipts and after any failed messages.
THEOREM SharesAlwaysAddUp == Spec => []SharesAddUp
BY AlwaysDivided, PTL DEF Divided

\* calculate_shares, as amount_received and weights_callback call it: nobody but
\* the last by id pays more than their exact part, and the last one less than one
\* unit more for each of the others.
THEOREM SharesAlwaysFair == Spec => []FairShares
BY AlwaysDivided, PTL DEF Divided

\* The expense of a receipt is the items somebody pays for, or the printed total
\* once its rest was shared out; more only through discounts, or by sharing the
\* rest out again after a message that failed.
THEOREM ReceiptAlwaysMet == Spec => []ReceiptIsMet
BY AlwaysDivided, PTL DEF Divided
=============================================================================

------------------------ MODULE Conversations_proofs ------------------------
(* Conversations: the types, what a record is made of and how often, and that  *)
(* a state finds all that its handlers read.                                   *)
EXTENDS Conversations, TLAPS

-----------------------------------------------------------------------------
(* The constant tables *)

\* The five conversations.
LEMMA ConvsAre == Convs = {"registration", "members", "expense", "payment", "program"}
BY DEF Convs, Rank

\* The states of each conversation.
LEMMA StatesAre ==
    /\ StatesOf["registration"] = {"REG_CARD", "REG_WEIGHT"}
    /\ StatesOf["members"] = {"MEM_MENU", "MEM_AWAIT"}
    /\ StatesOf["expense"] = {"EXP_DESC", "EXP_PROGRAM_CHOICE", "EXP_PARTICIPANTS",
           "EXP_SPLIT_MODE", "EXP_AMOUNT", "EXP_WEIGHTS", "EXP_CUSTOM_AMOUNTS", "EXP_OCR_PHOTO",
           "EXP_OCR_ITEM", "EXP_OCR_REMAINDER", "EXP_CONFIRM", "EXP_CHANGE_PAYER", "EXP_RECEIPT"}
    /\ StatesOf["payment"] = {"PAY_TARGET", "PAY_AMOUNT", "PAY_NOTE", "PAY_CONFIRM", "PAY_RECEIPT"}
    /\ StatesOf["program"] = {"PROG_MENU", "PROG_NAME", "PROG_PARTICIPANTS", "PROG_WEIGHTS",
           "PROG_CARD", "PROG_CONFIRM", "PROG_CHARGE_AMOUNT"}
BY DEF StatesOf, ExpenseHandlers, PaymentHandlers, ProgramHandlers

\* The keys of each conversation, and of all.
LEMMA KeysAre ==
    /\ KeysOf["registration"] = {"reg_user_id", "reg_card"}
    /\ KeysOf["members"] = {"mem_target_id"}
    /\ KeysOf["expense"] = {"exp_payer_id", "exp_description", "exp_program_id", "exp_selected",
           "exp_split_mode", "exp_amount", "exp_shares", "exp_weights", "exp_custom", "exp_ocr",
           "exp_ocr_photo_file_id", "exp_ocr_remainder", "exp_id_for_receipt"}
    /\ KeysOf["payment"] = {"pay_target", "pay_amount", "pay_note", "pay_id_for_receipt"}
    /\ KeysOf["program"] = {"prog_creator_id", "prog_name", "prog_selected", "prog_weights",
           "prog_card", "prog_charge_program_id"}
BY DEF KeysOf

LEMMA KeysIncluded == \A c \in Convs : KeysOf[c] \subseteq Keys
BY DEF Keys

\* No two conversations write the same key.
LEMMA KeysDisjoint == \A b, c \in Convs : b # c => KeysOf[b] \cap KeysOf[c] = {}
<1> SUFFICES ASSUME NEW b \in Convs, NEW c \in Convs, b # c, NEW k \in KeysOf[b], k \in KeysOf[c]
             PROVE  FALSE
    OBVIOUS
<1>1. CASE b = "registration" BY <1>1, ConvsAre, KeysAre
<1>2. CASE b = "members" BY <1>2, ConvsAre, KeysAre
<1>3. CASE b = "expense" BY <1>3, ConvsAre, KeysAre
<1>4. CASE b = "payment" BY <1>4, ConvsAre, KeysAre
<1>5. CASE b = "program" BY <1>5, ConvsAre, KeysAre
<1> QED BY <1>1, <1>2, <1>3, <1>4, <1>5, ConvsAre

-----------------------------------------------------------------------------
(* Types *)

AllStates == {"closed"} \cup UNION { StatesOf[c] : c \in Convs }

Typed ==
    /\ state \in [Convs -> AllStates]
    /\ \A c \in Convs : state[c] \in StatesOf[c] \cup {"closed"}
    /\ data \in [Keys -> Marks]
    /\ made \in [Recorders -> [count : 0 .. MaxCommits, failed : BOOLEAN, named : BOOLEAN]]

LEMMA TypedIsTypeOK == Typed <=> TypeOK
BY DEF Typed, TypeOK, AllStates

\* What a step of conversation c does: it changes no other conversation's state,
\* and no other's keys unless it clears them all.
Touches(c, b) ==
    /\ state'[b] = state[b]
    /\ b \in Recorders => made'[b] = made[b]
    /\ \/ \A k \in KeysOf[b] : data'[k] = data[k]
       \/ \A k \in KeysOf[b] : data'[k] = Cleared(data)[k]

Frame(c) == \A b \in Convs \ {c} : Touches(c, b)

\* The tables of user_data stay tables of user_data.
LEMMA DataTyped ==
    ASSUME NEW d \in [Keys -> Marks]
    PROVE  /\ \A w : Written(d, w) \in [Keys -> Marks]
           /\ \A k : Defaulted(d, k) \in [Keys -> Marks]
           /\ Cleared(d) \in [Keys -> Marks]
           /\ \A c \in Convs : Renewed(c, d) \in [Keys -> Marks]
BY DEF Written, Defaulted, Cleared, Renewed, Marks, Present

LEMMA GotoTyped ==
    ASSUME Typed, NEW c \in Convs, NEW s \in StatesOf[c] \cup {"closed"}, Goto(c, s)
    PROVE  /\ state' \in [Convs -> AllStates]
           /\ \A b \in Convs : state'[b] \in StatesOf[b] \cup {"closed"}
           /\ state'[c] = s
           /\ \A b \in Convs \ {c} : state'[b] = state[b]
BY DEF Typed, Goto, AllStates

\* What a handler does, in one line.
LEMMA HandleEffect ==
    ASSUME Typed, NEW c \in Convs, NEW s \in StatesOf[c],
           NEW w1 \in SUBSET KeysOf[c], NEW w2 \in SUBSET KeysOf[c], NEW first, NEW second,
           Handle(c, w1, first, w2, second, s)
    PROVE  /\ Typed' /\ Frame(c) /\ UNCHANGED made
           /\ data' \in {Written(data, w1), Written(data, w1 \cup w2)}
           /\ \/ UNCHANGED state
              \/ /\ state'[c] = s
                 /\ data' = Written(data, w1 \cup w2)
                 /\ Has(Written(data, w1), first)
<1>1. Written(Written(data, w1), w2) = Written(data, w1 \cup w2)
    BY DEF Written, Typed
<1>2. /\ data' \in {Written(data, w1), Written(data, w1 \cup w2)}
      /\ UNCHANGED made
      /\ \/ UNCHANGED state
         \/ /\ Goto(c, s)
            /\ data' = Written(data, w1 \cup w2)
            /\ Has(Written(data, w1), first)
    BY <1>1 DEF Handle
<1>3. Typed'
    BY <1>2, GotoTyped, DataTyped DEF Typed
<1>4. ASSUME NEW b \in Convs \ {c}, NEW k \in KeysOf[b] PROVE data'[k] = data[k]
    <2>1. k \notin w1 \cup w2 /\ k \in Keys
        BY KeysDisjoint, KeysIncluded
    <2> QED BY <1>2, <2>1 DEF Written
<1>5. \A b \in Convs \ {c} : state'[b] = state[b]
    BY <1>2, GotoTyped
<1>6. Frame(c)
    BY <1>2, <1>4, <1>5 DEF Frame, Touches
<1> QED BY <1>2, <1>3, <1>6, GotoTyped

\* The end of a conversation, and what is cleared with it.
LEMMA EndEffect ==
    ASSUME Typed, NEW c \in Convs, NEW d \in {data, Cleared(data)}, End(c, d)
    PROVE  /\ state'[c] = "closed" /\ data' = Renewed(c, d)
           /\ state' \in [Convs -> AllStates]
           /\ \A b \in Convs : state'[b] \in StatesOf[b] \cup {"closed"}
           /\ data' \in [Keys -> Marks]
           /\ \A b \in Convs \ {c} :
                 /\ state'[b] = state[b]
                 /\ \A k \in KeysOf[b] : data'[k] = d[k]
<1>1. Goto(c, "closed") /\ data' = Renewed(c, d)
    BY DEF End
<1>2. d \in [Keys -> Marks]
    BY DataTyped DEF Typed
<1>3. ASSUME NEW b \in Convs \ {c}, NEW k \in KeysOf[b] PROVE data'[k] = d[k]
    <2>1. k \notin KeysOf[c] /\ k \in Keys
        BY KeysDisjoint, KeysIncluded
    <2> QED BY <1>1, <2>1 DEF Renewed
<1> QED BY <1>1, <1>2, <1>3, GotoTyped, DataTyped

LEMMA ClearAndEndEffect ==
    ASSUME Typed, NEW c \in Convs, ClearAndEnd(c)
    PROVE  /\ state' \in [Convs -> AllStates]
           /\ \A b \in Convs : state'[b] \in StatesOf[b] \cup {"closed"}
           /\ data' \in [Keys -> Marks]
           /\ \A b \in Convs \ {c} :
                 /\ state'[b] = state[b]
                 /\ \A k \in KeysOf[b] : data'[k] = Cleared(data)[k]
           /\ \/ state'[c] = "closed" /\ data' = Renewed(c, Cleared(data))
              \/ UNCHANGED state /\ data' = Cleared(data)
<1>1. CASE End(c, Cleared(data))
    BY <1>1, EndEffect
<1>2. CASE data' = Cleared(data) /\ UNCHANGED state
    BY <1>2, DataTyped DEF Typed
<1> QED BY <1>1, <1>2 DEF ClearAndEnd

LEMMA FinishEffect ==
    ASSUME Typed, NEW c \in Convs, Finish(c)
    PROVE  /\ Typed' /\ Frame(c) /\ UNCHANGED made
           /\ \/ state'[c] = "closed" /\ data' = Renewed(c, Cleared(data))
              \/ UNCHANGED state /\ data' = Cleared(data)
<1>1. ClearAndEnd(c) /\ UNCHANGED made
    BY DEF Finish
<1> QED BY <1>1, ClearAndEndEffect DEF Typed, Frame, Touches

LEMMA OpenEffect ==
    ASSUME Typed, NEW c \in Convs, NEW w \in SUBSET KeysOf[c], NEW s \in StatesOf[c],
           Open(c, w, s)
    PROVE  /\ Typed' /\ Frame(c)
           /\ state[c] = "closed" /\ state'[c] \in {"closed", s}
           /\ \A k \in KeysOf[c] : data'[k] = IF k \in w THEN "own" ELSE "unset"
           /\ c \in Recorders => made'[c] = NothingMade
<1> DEFINE d == Renewed(c, Cleared(data))
<1>1. /\ data' = Written(d, w)
      /\ state[c] = "closed"
      /\ Goto(c, s) \/ UNCHANGED state
      /\ made' = [x \in Recorders |-> IF x = c THEN NothingMade ELSE made[x]]
    BY DEF Open, CanOpen
<1>2. data' \in [Keys -> Marks]
    BY <1>1, DataTyped DEF Typed
<1>3. \A k \in KeysOf[c] : data'[k] = IF k \in w THEN "own" ELSE "unset"
    BY <1>1, KeysIncluded DEF Written, Renewed, Cleared, Present
<1>4. ASSUME NEW b \in Convs \ {c}, NEW k \in KeysOf[b] PROVE data'[k] = Cleared(data)[k]
    <2>1. k \notin KeysOf[c] /\ k \notin w /\ k \in Keys
        BY KeysDisjoint, KeysIncluded
    <2> QED BY <1>1, <2>1 DEF Written, Renewed
<1>5. NothingMade \in [count : 0 .. MaxCommits, failed : BOOLEAN, named : BOOLEAN]
    BY MaxCommitsAssumption DEF NothingMade
<1>6. made' \in [Recorders -> [count : 0 .. MaxCommits, failed : BOOLEAN, named : BOOLEAN]]
    BY <1>1, <1>5 DEF Typed
<1>7. /\ state' \in [Convs -> AllStates]
      /\ \A b \in Convs : state'[b] \in StatesOf[b] \cup {"closed"}
      /\ \A b \in Convs \ {c} : state'[b] = state[b]
      /\ state'[c] \in {"closed", s}
    BY <1>1, GotoTyped DEF Typed
<1>8. Typed'
    BY <1>2, <1>6, <1>7 DEF Typed
<1>9. Frame(c)
    BY <1>1, <1>4, <1>7 DEF Frame, Touches
<1> QED BY <1>1, <1>3, <1>7, <1>8, <1>9

\* What a commit leaves in `made`.
LEMMA CommitEffect ==
    ASSUME Typed, NEW c \in Recorders, NEW reads, NEW lost \in BOOLEAN, NEW named \in BOOLEAN,
           Commit(c, reads, lost, named)
    PROVE  /\ Has(data, reads)
           /\ made' \in [Recorders -> [count : 0 .. MaxCommits, failed : BOOLEAN, named : BOOLEAN]]
           /\ \A b \in Recorders \ {c} : made'[b] = made[b]
           /\ made'[c].count = made[c].count + 1 /\ made'[c].count > 0
           /\ made'[c].named = named
           /\ made'[c].failed = (made[c].failed \/ lost)
<1> DEFINE row == [count |-> made[c].count + 1, failed |-> made[c].failed \/ lost,
                   named |-> named]
<1>1. Has(data, reads) /\ made[c].count < MaxCommits /\ made' = [made EXCEPT ![c] = row]
    BY DEF Commit
<1>2. made[c] \in [count : 0 .. MaxCommits, failed : BOOLEAN, named : BOOLEAN]
    BY DEF Typed
<1>3. /\ row.count = made[c].count + 1 /\ row.named = named
      /\ row.failed = (made[c].failed \/ lost)
    OBVIOUS
<1>4. row \in [count : 0 .. MaxCommits, failed : BOOLEAN, named : BOOLEAN]
    BY <1>1, <1>2, MaxCommitsAssumption
<1> HIDE DEF row
<1> QED BY <1>1, <1>2, <1>3, <1>4, MaxCommitsAssumption DEF Typed

LEMMA RecordersAreConvs == Recorders \subseteq Convs
BY ConvsAre DEF Recorders

LEMMA CommitAndAskEffect ==
    ASSUME Typed, NEW c \in Recorders, NEW reads, NEW key \in KeysOf[c], NEW s \in StatesOf[c],
           CommitAndAsk(c, reads, key, s)
    PROVE  /\ Typed' /\ Frame(c) /\ Has(data, reads)
           /\ data' \in {data, Written(data, {key})}
           /\ made'[c].count = made[c].count + 1 /\ made'[c].count > 0
           /\ \/ UNCHANGED state /\ made'[c].failed
              \/ state'[c] = s /\ made'[c].named /\ made'[c].failed = made[c].failed
<1>1. c \in Convs
    BY RecordersAreConvs
<1>2. ASSUME NEW b \in Convs \ {c}, NEW k \in KeysOf[b] PROVE k # key /\ k \in Keys
    BY <1>1, KeysDisjoint, KeysIncluded
<1>3. CASE Commit(c, reads, TRUE, FALSE) /\ UNCHANGED <<state, data>>
    BY <1>1, <1>3, CommitEffect DEF Typed, Frame, Touches
<1>4. ASSUME NEW ok \in BOOLEAN, Commit(c, reads, ~ok, TRUE), data' = Written(data, {key}),
             IF ok THEN Goto(c, s) ELSE UNCHANGED state
      PROVE  /\ Typed' /\ Frame(c) /\ Has(data, reads)
             /\ data' \in {data, Written(data, {key})}
             /\ made'[c].count = made[c].count + 1 /\ made'[c].count > 0
             /\ \/ UNCHANGED state /\ made'[c].failed
                \/ state'[c] = s /\ made'[c].named /\ made'[c].failed = made[c].failed
    <2>1. /\ Has(data, reads)
          /\ made' \in [Recorders -> [count : 0 .. MaxCommits, failed : BOOLEAN, named : BOOLEAN]]
          /\ \A b \in Recorders \ {c} : made'[b] = made[b]
          /\ made'[c].count = made[c].count + 1
          /\ made'[c].count > 0 /\ made'[c].named = TRUE
          /\ made'[c].failed = (made[c].failed \/ ~ok)
        BY <1>4, CommitEffect
    <2>2. data' \in [Keys -> Marks]
        BY <1>4, DataTyped DEF Typed
    <2>3. \A b \in Convs \ {c} : \A k \in KeysOf[b] : data'[k] = data[k]
        BY <1>2, <1>4 DEF Written
    <2>4. /\ state' \in [Convs -> AllStates]
          /\ \A b \in Convs : state'[b] \in StatesOf[b] \cup {"closed"}
          /\ \A b \in Convs \ {c} : state'[b] = state[b]
        BY <1>1, <1>4, GotoTyped DEF Typed
    <2>5. Typed' /\ Frame(c)
        BY <2>1, <2>2, <2>3, <2>4 DEF Typed, Frame, Touches
    <2>6. CASE ok
        <3>1. state'[c] = s
            BY <1>1, <1>4, <2>6, GotoTyped
        <3>2. made[c].failed \in BOOLEAN
            BY DEF Typed
        <3>3. made'[c].failed = made[c].failed
            BY <2>1, <2>6, <3>2
        <3> QED BY <1>4, <2>1, <2>5, <3>1, <3>3
    <2>7. CASE ~ok
        BY <1>4, <2>1, <2>5, <2>7
    <2> QED BY <2>6, <2>7
<1> QED BY <1>3, <1>4 DEF CommitAndAsk

LEMMA CommitAndEndEffect ==
    ASSUME Typed, NEW c \in Recorders, NEW reads, CommitAndEnd(c, reads)
    PROVE  /\ Typed' /\ Frame(c) /\ Has(data, reads)
           /\ made'[c].count = made[c].count + 1
           /\ made[c].failed => made'[c].failed
           /\ \/ UNCHANGED state /\ made'[c].failed /\ data' \in {data, Cleared(data)}
              \/ state'[c] = "closed" /\ data' = Renewed(c, Cleared(data))
<1>1. c \in Convs
    BY RecordersAreConvs
<1>2. CASE Commit(c, reads, TRUE, FALSE) /\ UNCHANGED state /\ data' \in {data, Cleared(data)}
    BY <1>1, <1>2, CommitEffect, DataTyped DEF Typed, Frame, Touches
<1>3. CASE Commit(c, reads, FALSE, FALSE) /\ End(c, Cleared(data))
    BY <1>1, <1>3, CommitEffect, EndEffect DEF Typed, Frame, Touches
<1> QED BY <1>2, <1>3 DEF CommitAndEnd

LEMMA ReceiptEffect ==
    ASSUME Typed, NEW c \in Convs, NEW s, NEW key, Receipt(c, s, key)
    PROVE  /\ Typed' /\ Frame(c) /\ UNCHANGED made /\ state[c] = s
           /\ \/ state'[c] = "closed" /\ data' = Renewed(c, Cleared(data))
              \/ UNCHANGED state /\ data' = Cleared(data)
<1>1. Finish(c) /\ state[c] = s
    BY DEF Receipt, At
<1> QED BY <1>1, FinishEffect

\* The record a step writes is made of what was collected.
Collected(c) ==
    made'[c].count > made[c].count => \A k \in RecordKeys[c] : data[k] \in {"own", "unset"}

LEMMA NoneWritten ==
    ASSUME Typed, NEW c \in Recorders, made'[c] = made[c]
    PROVE  Collected(c)
BY DEF Collected, Typed

-----------------------------------------------------------------------------
(* The expense.  Two keys tell whether anything was cleared: the payer is    *)
(* only set at the start, or again from a preview; the description only at   *)
(* the first state, and no state after it is reached without the payer.      *)

IntactExpense == \A k \in KeysOf["expense"] : data[k] \notin {"lost", "guess"}

ExpInv ==
    /\ \A k \in KeysOf["expense"] : data[k] # "old"
    /\ data["exp_payer_id"] # "guess" /\ data["exp_description"] # "guess"
    /\ state["expense"] = "EXP_DESC" /\ data["exp_payer_id"] = "own" => IntactExpense
    /\ state["expense"] \notin {"closed", "EXP_DESC"} /\ data["exp_description"] = "own" =>
           data["exp_payer_id"] = "own" /\ IntactExpense
    /\ state["expense"] = "EXP_PARTICIPANTS" /\ data["exp_description"] = "own" =>
           data["exp_selected"] = "own"

ExpMade ==
    /\ made["expense"].count > 1 => made["expense"].failed
    /\ made["expense"].count > 0 /\ ~made["expense"].failed =>
           state["expense"] \in {"EXP_RECEIPT", "closed"}
    /\ state["expense"] = "EXP_RECEIPT" => made["expense"].count > 0 /\ made["expense"].named

LEMMA ExpKeysIn == KeysOf["expense"] \subseteq Keys
BY ConvsAre, KeysIncluded

\* Whoever else acts, at most clears.
LEMMA ExpInvCleared ==
    ASSUME Typed, ExpInv, \A k \in KeysOf["expense"] : data'[k] = Cleared(data)[k]
    PROVE  ExpInv'
<1>1. \A k \in KeysOf["expense"] :
          /\ data'[k] \in {"lost", "unset"}
          /\ data'[k] # "own" /\ data'[k] # "old" /\ data'[k] # "guess"
    BY ExpKeysIn DEF Cleared
<1>2. "exp_payer_id" \in KeysOf["expense"] /\ "exp_description" \in KeysOf["expense"]
    BY KeysAre
<1> QED BY <1>1, <1>2 DEF ExpInv

LEMMA ExpInvSame ==
    ASSUME ExpInv, state'["expense"] = state["expense"],
           \A k \in KeysOf["expense"] : data'[k] = data[k]
    PROVE  ExpInv'
<1>1. /\ "exp_payer_id" \in KeysOf["expense"] /\ "exp_description" \in KeysOf["expense"]
      /\ "exp_selected" \in KeysOf["expense"]
    BY KeysAre
<1> QED BY <1>1 DEF ExpInv, IntactExpense

LEMMA ExpForeign ==
    ASSUME Typed, ExpInv, ExpMade, NEW c, Touches(c, "expense")
    PROVE  ExpInv' /\ ExpMade' /\ Collected("expense")
<1>1. "expense" \in Recorders
    BY DEF Recorders
<1>2. ExpInv'
    BY ExpInvCleared, ExpInvSame DEF Touches
<1> QED BY <1>1, <1>2, NoneWritten DEF Touches, ExpMade

LEMMA ExpEnds ==
    ASSUME Typed, ExpInv, ExpMade, UNCHANGED made,
           \/ state'["expense"] = "closed" /\ data' = Renewed("expense", Cleared(data))
           \/ UNCHANGED state /\ data' = Cleared(data)
    PROVE  ExpInv' /\ ExpMade' /\ Collected("expense")
<1>1. "expense" \in Recorders /\ Collected("expense")
    BY NoneWritten DEF Recorders
<1>2. CASE UNCHANGED state /\ data' = Cleared(data)
    BY <1>1, <1>2, ExpInvCleared DEF ExpMade
<1>3. CASE state'["expense"] = "closed" /\ data' = Renewed("expense", Cleared(data))
    <2>1. \A k \in KeysOf["expense"] : data'[k] = "unset"
        BY <1>3, ExpKeysIn DEF Renewed, Cleared, Present
    <2>2. "exp_payer_id" \in KeysOf["expense"] /\ "exp_description" \in KeysOf["expense"]
        BY KeysAre
    <2>3. ExpInv'
        BY <1>3, <2>1, <2>2 DEF ExpInv
    <2> QED BY <1>1, <1>3, <2>3 DEF ExpMade
<1> QED BY <1>2, <1>3

\* Most handlers: they write neither the payer nor the description, and go on.
LEMMA ExpHandle ==
    ASSUME Typed, ExpInv, ExpMade,
           NEW w1 \in SUBSET (KeysOf["expense"] \ {"exp_payer_id", "exp_description"}),
           NEW w2 \in SUBSET (KeysOf["expense"] \ {"exp_payer_id", "exp_description"}),
           NEW first, NEW second,
           NEW s \in StatesOf["expense"] \ {"EXP_DESC", "EXP_RECEIPT"},
           s = "EXP_PARTICIPANTS" => "exp_selected" \in w1 \cup w2,
           state["expense"] \notin {"closed", "EXP_DESC", "EXP_RECEIPT"},
           Handle("expense", w1, first, w2, second, s)
    PROVE  /\ Typed' /\ Frame("expense")
           /\ ExpInv' /\ ExpMade' /\ Collected("expense")
<1>1. "expense" \in Convs /\ "expense" \in Recorders
    BY ConvsAre DEF Recorders
<1>2. /\ Typed' /\ Frame("expense") /\ UNCHANGED made
      /\ data' \in {Written(data, w1), Written(data, w1 \cup w2)}
      /\ \/ UNCHANGED state
         \/ state'["expense"] = s /\ data' = Written(data, w1 \cup w2)
    BY <1>1, HandleEffect
<1>3. PICK w \in {w1, w1 \cup w2} : data' = Written(data, w)
    BY <1>2
<1>4. /\ "exp_payer_id" \in KeysOf["expense"] /\ "exp_description" \in KeysOf["expense"]
      /\ "exp_selected" \in KeysOf["expense"]
    BY KeysAre
<1>5. /\ \A k \in KeysOf["expense"] : data'[k] = data[k] \/ data'[k] = "own"
      /\ data'["exp_payer_id"] = data["exp_payer_id"]
      /\ data'["exp_description"] = data["exp_description"]
    BY <1>3, <1>4, ExpKeysIn DEF Written
<1>6. IntactExpense => IntactExpense'
    BY <1>5 DEF IntactExpense
<1>7. state'["expense"] \notin {"closed", "EXP_DESC", "EXP_RECEIPT"}
    BY <1>2, StatesAre
<1>8. state'["expense"] = "EXP_PARTICIPANTS" /\ data'["exp_description"] = "own" =>
          data'["exp_selected"] = "own"
    <2>1. CASE UNCHANGED state
        BY <2>1, <1>4, <1>5 DEF ExpInv
    <2>2. CASE state'["expense"] = s /\ data' = Written(data, w1 \cup w2)
        BY <2>2, <1>4, ExpKeysIn DEF Written
    <2> QED BY <1>2, <2>1, <2>2
<1>9. ExpInv'
    BY <1>4, <1>5, <1>6, <1>7, <1>8 DEF ExpInv
<1>10. ExpMade'
    BY <1>2, <1>7 DEF ExpMade
<1> QED BY <1>1, <1>2, <1>9, <1>10, NoneWritten

ExpStep == Typed' /\ Frame("expense") /\ ExpInv' /\ ExpMade' /\ Collected("expense")

LEMMA ExpEntry == ASSUME Typed, ExpInv, ExpMade, ExpenseEntry PROVE ExpStep
<1>1. "expense" \in Convs /\ "expense" \in Recorders
    BY ConvsAre DEF Recorders
<1>2. /\ {"exp_payer_id"} \in SUBSET KeysOf["expense"] /\ "EXP_DESC" \in StatesOf["expense"]
      /\ "exp_payer_id" \in KeysOf["expense"] /\ "exp_description" \in KeysOf["expense"]
    BY KeysAre, StatesAre
<1>3. /\ Typed' /\ Frame("expense")
      /\ state["expense"] = "closed" /\ state'["expense"] \in {"closed", "EXP_DESC"}
      /\ \A k \in KeysOf["expense"] : data'[k] = IF k = "exp_payer_id" THEN "own" ELSE "unset"
      /\ made'["expense"] = NothingMade
    BY <1>1, <1>2, OpenEffect DEF ExpenseEntry
<1>4. ExpInv'
    BY <1>2, <1>3 DEF ExpInv, IntactExpense
<1>5. ExpMade'
    BY <1>3 DEF ExpMade, NothingMade
<1>6. Collected("expense")
    BY <1>1, <1>3 DEF Collected, NothingMade, Typed
<1> QED BY <1>3, <1>4, <1>5, <1>6 DEF ExpStep

\* The description is written whether or not the payer is still there; the
\* conversation goes on only if it is.
LEMMA ExpDescription == ASSUME Typed, ExpInv, ExpMade, DescriptionReceived PROVE ExpStep
<1>1. "expense" \in Convs /\ "expense" \in Recorders
    BY ConvsAre DEF Recorders
<1>2. /\ "exp_payer_id" \in KeysOf["expense"] /\ "exp_description" \in KeysOf["expense"]
      /\ "exp_selected" \in KeysOf["expense"]
    BY KeysAre
<1>3. PICK w2 \in {{}, {"exp_selected"}}, s \in {"EXP_PROGRAM_CHOICE", "EXP_PARTICIPANTS"} :
          /\ state["expense"] = "EXP_DESC"
          /\ s = "EXP_PARTICIPANTS" => w2 = {"exp_selected"}
          /\ Handle("expense", {"exp_description"}, {"exp_payer_id"}, w2, {}, s)
    BY DEF DescriptionReceived, At
<1>4. s \in StatesOf["expense"] \ {"EXP_DESC", "EXP_RECEIPT"}
    BY <1>3, StatesAre
<1>5. /\ Typed' /\ Frame("expense") /\ UNCHANGED made
      /\ data' \in {Written(data, {"exp_description"}), Written(data, {"exp_description"} \cup w2)}
      /\ \/ UNCHANGED state
         \/ /\ state'["expense"] = s /\ data' = Written(data, {"exp_description"} \cup w2)
            /\ Has(Written(data, {"exp_description"}), {"exp_payer_id"})
    BY <1>1, <1>2, <1>3, <1>4, HandleEffect
<1>6. /\ \A k \in KeysOf["expense"] : data'[k] = data[k] \/ data'[k] = "own"
      /\ data'["exp_payer_id"] = data["exp_payer_id"] /\ data'["exp_description"] = "own"
    BY <1>2, <1>5, ExpKeysIn DEF Written
<1>7. IntactExpense => IntactExpense'
    BY <1>6 DEF IntactExpense
<1>8. CASE UNCHANGED state
    <2>1. ExpInv'
        BY <1>2, <1>3, <1>6, <1>7, <1>8 DEF ExpInv
    <2>2. ExpMade'
        BY <1>3, <1>5, <1>8 DEF ExpMade
    <2> QED BY <1>1, <1>5, <2>1, <2>2, NoneWritten DEF ExpStep
<1>9. CASE /\ state'["expense"] = s /\ data' = Written(data, {"exp_description"} \cup w2)
           /\ Has(Written(data, {"exp_description"}), {"exp_payer_id"})
    <2>1. data["exp_payer_id"] = "own"
        BY <1>2, <1>9, ExpKeysIn DEF Has, Written, Present, ExpInv
    <2>2. IntactExpense'
        BY <1>3, <1>7, <2>1 DEF ExpInv
    <2>3. state'["expense"] = "EXP_PARTICIPANTS" => data'["exp_selected"] = "own"
        BY <1>2, <1>3, <1>9, ExpKeysIn DEF Written
    <2>4. ExpInv'
        BY <1>2, <1>3, <1>4, <1>6, <1>9, <2>1, <2>2, <2>3 DEF ExpInv
    <2>5. ExpMade'
        BY <1>3, <1>4, <1>5, <1>9 DEF ExpMade
    <2> QED BY <1>1, <1>5, <2>4, <2>5, NoneWritten DEF ExpStep
<1> QED BY <1>5, <1>8, <1>9

LEMMA ExpParticipants == ASSUME Typed, ExpInv, ExpMade, Participants PROVE ExpStep
<1>1. "expense" \in Convs /\ "expense" \in Recorders
    BY ConvsAre DEF Recorders
<1>2. /\ "exp_payer_id" \in KeysOf["expense"] /\ "exp_description" \in KeysOf["expense"]
      /\ "exp_selected" \in KeysOf["expense"] /\ "EXP_SPLIT_MODE" \in StatesOf["expense"]
    BY KeysAre, StatesAre
<1>3. /\ state["expense"] = "EXP_PARTICIPANTS"
      /\ data' = Defaulted(data, "exp_selected") /\ UNCHANGED made
      /\ Goto("expense", "EXP_SPLIT_MODE") \/ UNCHANGED state
    BY DEF Participants, At
<1>4. Typed'
    BY <1>1, <1>2, <1>3, GotoTyped, DataTyped DEF Typed
<1>5. ASSUME NEW b \in Convs \ {"expense"}, NEW k \in KeysOf[b] PROVE data'[k] = data[k]
    <2>1. k # "exp_selected" /\ k \in Keys
        BY <1>1, <1>2, KeysDisjoint, KeysIncluded
    <2> QED BY <1>3, <2>1 DEF Defaulted
<1>6. Frame("expense")
    <2>1. \A b \in Convs \ {"expense"} : state'[b] = state[b]
        BY <1>1, <1>2, <1>3, GotoTyped
    <2> QED BY <1>3, <1>5, <2>1 DEF Frame, Touches
<1>7. /\ \A k \in KeysOf["expense"] \ {"exp_selected"} : data'[k] = data[k]
      /\ data["exp_selected"] = "own" => data'["exp_selected"] = "own"
      /\ data'["exp_selected"] # "old"
    BY <1>2, <1>3, ExpKeysIn DEF Defaulted, Present, ExpInv
<1>8. state'["expense"] \in {"EXP_PARTICIPANTS", "EXP_SPLIT_MODE"}
    BY <1>1, <1>2, <1>3, GotoTyped
<1>9. ExpInv'
    BY <1>2, <1>3, <1>7, <1>8 DEF ExpInv, IntactExpense
<1>10. ExpMade'
    BY <1>3, <1>8 DEF ExpMade
<1> QED BY <1>1, <1>3, <1>4, <1>6, <1>9, <1>10, NoneWritten DEF ExpStep

\* A payer chosen anew hides no loss: without the description, which nothing
\* writes again, there is no preview.
LEMMA ExpChangePayer == ASSUME Typed, ExpInv, ExpMade, ChangePayer PROVE ExpStep
<1>1. "expense" \in Convs /\ "expense" \in Recorders
    BY ConvsAre DEF Recorders
<1>2. /\ "exp_payer_id" \in KeysOf["expense"] /\ "exp_description" \in KeysOf["expense"]
      /\ "exp_selected" \in KeysOf["expense"]
      /\ {"EXP_CONFIRM", "EXP_CHANGE_PAYER"} \subseteq
             StatesOf["expense"] \ {"EXP_DESC", "EXP_RECEIPT", "EXP_PARTICIPANTS"}
    BY KeysAre, StatesAre
<1>3. PICK w \in {{}, {"exp_payer_id"}}, first \in {{}, PreviewReads},
           s \in {"EXP_CONFIRM", "EXP_CHANGE_PAYER"} :
          /\ state["expense"] \in {"EXP_CONFIRM", "EXP_CHANGE_PAYER"}
          /\ Handle("expense", w, first, {}, {}, s)
    BY DEF ChangePayer, At
<1>4. /\ Typed' /\ Frame("expense") /\ UNCHANGED made
      /\ data' = Written(data, w)
      /\ UNCHANGED state \/ state'["expense"] = s
    <2>1. w \in SUBSET KeysOf["expense"] /\ {} \in SUBSET KeysOf["expense"] /\ w \cup {} = w
        BY <1>2
    <2>2. s \in StatesOf["expense"]
        BY <1>2
    <2>3. /\ Typed' /\ Frame("expense") /\ UNCHANGED made
          /\ data' \in {Written(data, w), Written(data, w \cup {})}
          /\ UNCHANGED state \/ state'["expense"] = s
        BY <1>1, <1>3, <2>1, <2>2, HandleEffect
    <2> QED BY <2>1, <2>3
<1>5. /\ \A k \in KeysOf["expense"] : data'[k] = data[k] \/ data'[k] = "own"
      /\ data'["exp_description"] = data["exp_description"]
    BY <1>2, <1>4, ExpKeysIn DEF Written
<1>6. state'["expense"] \in {"EXP_CONFIRM", "EXP_CHANGE_PAYER"}
    BY <1>3, <1>4
<1>7. ExpInv'
    BY <1>2, <1>3, <1>5, <1>6 DEF ExpInv, IntactExpense
<1>8. ExpMade'
    BY <1>3, <1>4, <1>6 DEF ExpMade
<1> QED BY <1>1, <1>4, <1>7, <1>8, NoneWritten DEF ExpStep

\* Whoever has all that the record takes has lost nothing.
LEMMA ExpConfirm == ASSUME Typed, ExpInv, ExpMade, ConfirmExpense PROVE ExpStep
<1>1. "expense" \in Convs /\ "expense" \in Recorders
    BY ConvsAre DEF Recorders
<1>2. /\ "exp_payer_id" \in KeysOf["expense"] /\ "exp_description" \in KeysOf["expense"]
      /\ "exp_selected" \in KeysOf["expense"] /\ "exp_id_for_receipt" \in KeysOf["expense"]
      /\ "EXP_RECEIPT" \in StatesOf["expense"]
    BY KeysAre, StatesAre
<1>3. state["expense"] = "EXP_CONFIRM"
    BY DEF ConfirmExpense, At
<1>4. ASSUME Has(data, ExpenseReads) PROVE Collected("expense")
    <2>1. data["exp_description"] = "own" /\ data["exp_payer_id"] = "own"
        BY <1>2, <1>4, ExpKeysIn DEF Has, ExpenseReads, PreviewReads, Present, ExpInv
    <2>2. IntactExpense
        BY <1>3, <2>1 DEF ExpInv
    <2>3. \A k \in KeysOf["expense"] : data[k] \in {"own", "unset"}
        BY <2>2, ExpKeysIn DEF IntactExpense, ExpInv, Typed, Marks
    <2> QED BY <2>3 DEF Collected, RecordKeys
<1>5. CASE CommitAndAsk("expense", ExpenseReads, "exp_id_for_receipt", "EXP_RECEIPT")
    <2>1. /\ Typed' /\ Frame("expense") /\ Has(data, ExpenseReads)
          /\ data' \in {data, Written(data, {"exp_id_for_receipt"})}
          /\ made'["expense"].count = made["expense"].count + 1 /\ made'["expense"].count > 0
          /\ \/ UNCHANGED state /\ made'["expense"].failed
             \/ /\ state'["expense"] = "EXP_RECEIPT" /\ made'["expense"].named
                /\ made'["expense"].failed = made["expense"].failed
        BY <1>1, <1>2, <1>5, CommitAndAskEffect
    <2>2. /\ \A k \in KeysOf["expense"] : data'[k] = data[k] \/ data'[k] = "own"
          /\ data'["exp_payer_id"] = data["exp_payer_id"]
          /\ data'["exp_description"] = data["exp_description"]
        BY <1>2, <2>1, ExpKeysIn DEF Written
    <2>3. state'["expense"] \in {"EXP_CONFIRM", "EXP_RECEIPT"}
        BY <1>3, <2>1
    <2>4. ExpInv'
        BY <1>2, <1>3, <2>2, <2>3 DEF ExpInv, IntactExpense
    <2>5. ExpMade'
        BY <1>1, <1>3, <2>1 DEF ExpMade, Typed
    <2> QED BY <1>4, <2>1, <2>4, <2>5 DEF ExpStep
<1>6. CASE CommitAndEnd("expense", ExpenseReads)
    <2>1. /\ Typed' /\ Frame("expense") /\ Has(data, ExpenseReads)
          /\ made'["expense"].count = made["expense"].count + 1
          /\ made["expense"].failed => made'["expense"].failed
          /\ \/ UNCHANGED state /\ made'["expense"].failed /\ data' \in {data, Cleared(data)}
             \/ state'["expense"] = "closed" /\ data' = Renewed("expense", Cleared(data))
        BY <1>1, <1>6, CommitAndEndEffect
    <2>2. CASE UNCHANGED state /\ made'["expense"].failed /\ data' \in {data, Cleared(data)}
        <3>1. ExpInv'
            BY <2>2, ExpInvCleared, ExpInvSame
        <3> QED BY <1>3, <1>4, <2>1, <2>2, <3>1 DEF ExpStep, ExpMade
    <2>3. CASE state'["expense"] = "closed" /\ data' = Renewed("expense", Cleared(data))
        <3>1. \A k \in KeysOf["expense"] : data'[k] = "unset"
            BY <2>3, ExpKeysIn DEF Renewed, Cleared, Present
        <3>2. ExpInv'
            BY <1>2, <2>3, <3>1 DEF ExpInv
        <3>3. ExpMade'
            BY <1>1, <1>3, <2>1, <2>3 DEF ExpMade, Typed
        <3> QED BY <1>4, <2>1, <3>2, <3>3 DEF ExpStep
    <2> QED BY <2>1, <2>2, <2>3
<1>7. CASE Finish("expense")
    BY <1>1, <1>7, FinishEffect, ExpEnds DEF ExpStep
<1> QED BY <1>5, <1>6, <1>7 DEF ConfirmExpense

LEMMA ExpReceipt == ASSUME Typed, ExpInv, ExpMade, ExpenseReceipt PROVE ExpStep
<1>1. "expense" \in Convs
    BY ConvsAre
<1> QED BY <1>1, ReceiptEffect, ExpEnds DEF ExpenseReceipt, ExpStep

LEMMA ExpSimple ==
    ASSUME Typed, ExpInv, ExpMade,
           ProgramChoice \/ SplitMode \/ AmountReceived \/ WeightsDone \/ CustomAmountReceived
             \/ OcrPhotoReceived \/ OcrItem \/ OcrRemainder
    PROVE  ExpStep
<1>0. "expense" \in Convs
    BY ConvsAre
<1> DEFINE Later == StatesOf["expense"] \ {"EXP_DESC", "EXP_RECEIPT"}
           Free == SUBSET (KeysOf["expense"] \ {"exp_payer_id", "exp_description"})
<1>1. /\ {"EXP_PARTICIPANTS", "EXP_CUSTOM_AMOUNTS", "EXP_OCR_PHOTO", "EXP_AMOUNT", "EXP_CONFIRM",
            "EXP_WEIGHTS", "EXP_OCR_ITEM", "EXP_OCR_REMAINDER"} \subseteq Later
      /\ {{}, {"exp_program_id", "exp_selected"}, {"exp_split_mode"}, {"exp_custom"}, {"exp_amount"},
            {"exp_shares", "exp_weights"}, {"exp_weights"}, {"exp_shares"},
            {"exp_amount", "exp_shares", "exp_weights", "exp_selected"},
            {"exp_ocr_photo_file_id"}, {"exp_ocr"}, {"exp_ocr_photo_file_id", "exp_split_mode"},
            {"exp_ocr_remainder"}} \subseteq Free
    BY KeysAre, StatesAre
<1>2. ASSUME NEW w1 \in Free, NEW w2 \in Free, NEW first, NEW second, NEW s \in Later,
             s = "EXP_PARTICIPANTS" => "exp_selected" \in w1 \cup w2,
             state["expense"] \notin {"closed", "EXP_DESC", "EXP_RECEIPT"},
             Handle("expense", w1, first, w2, second, s)
      PROVE  ExpStep
    BY <1>2, ExpHandle DEF ExpStep
<1>3. ASSUME Finish("expense") PROVE ExpStep
    BY <1>0, <1>3, FinishEffect, ExpEnds DEF ExpStep
<1> HIDE DEF Later, Free
<1>4. ASSUME NEW first, Finalize(first),
             state["expense"] \notin {"closed", "EXP_DESC", "EXP_RECEIPT"}
      PROVE  ExpStep
    BY <1>1, <1>2, <1>4 DEF Finalize
<1>5. CASE ProgramChoice
    BY <1>1, <1>2, <1>5 DEF ProgramChoice, At
<1>6. CASE SplitMode
    BY <1>1, <1>2, <1>6 DEF SplitMode, At
<1>7. CASE AmountReceived
    BY <1>1, <1>2, <1>7 DEF AmountReceived, At
<1>8. CASE WeightsDone
    BY <1>1, <1>2, <1>8 DEF WeightsDone, At
<1>9. CASE CustomAmountReceived
    BY <1>1, <1>2, <1>4, <1>9 DEF CustomAmountReceived, At
<1>10. CASE OcrPhotoReceived
    BY <1>1, <1>2, <1>10 DEF OcrPhotoReceived, At
<1>11. CASE OcrItem
    BY <1>1, <1>2, <1>3, <1>4, <1>11 DEF OcrItem, At
<1>12. CASE OcrRemainder
    BY <1>3, <1>4, <1>12 DEF OcrRemainder, At
<1> QED BY <1>5, <1>6, <1>7, <1>8, <1>9, <1>10, <1>11, <1>12

LEMMA ExpKeeps == ASSUME Typed, ExpInv, ExpMade, Expense PROVE ExpStep
BY ExpEntry, ExpDescription, ExpParticipants, ExpChangePayer, ExpConfirm, ExpReceipt, ExpSimple
   DEF Expense

-----------------------------------------------------------------------------
(* The payment: its target is chosen first, and in that state nothing else   *)
(* has been collected.                                                       *)

PayInv ==
    /\ \A k \in KeysOf["payment"] : data[k] # "old" /\ data[k] # "guess"
    /\ state["payment"] = "PAY_TARGET" =>
           \A k \in KeysOf["payment"] \ {"pay_target"} : data[k] = "unset"
    /\ state["payment"] # "closed" /\ data["pay_target"] = "own" =>
           \A k \in KeysOf["payment"] : data[k] # "lost"

PayMade ==
    /\ made["payment"].count > 1 => made["payment"].failed
    /\ made["payment"].count > 0 /\ ~made["payment"].failed =>
           state["payment"] \in {"PAY_RECEIPT", "closed"}
    /\ state["payment"] = "PAY_RECEIPT" => made["payment"].count > 0 /\ made["payment"].named

PayStep == Typed' /\ Frame("payment") /\ PayInv' /\ PayMade' /\ Collected("payment")

LEMMA PayKeysIn ==
    /\ KeysOf["payment"] \subseteq Keys /\ "payment" \in Convs /\ "payment" \in Recorders
    /\ "pay_target" \in KeysOf["payment"]
BY ConvsAre, KeysIncluded, KeysAre DEF Recorders

LEMMA PayInvCleared ==
    ASSUME Typed, PayInv, state'["payment"] = state["payment"],
           \A k \in KeysOf["payment"] : data'[k] = Cleared(data)[k]
    PROVE  PayInv'
<1>1. \A k \in KeysOf["payment"] :
          /\ data'[k] = "lost" \/ data'[k] = "unset"
          /\ data[k] = "unset" => data'[k] = "unset"
    BY PayKeysIn DEF Cleared
<1> QED BY <1>1, PayKeysIn DEF PayInv

LEMMA PayForeign ==
    ASSUME Typed, PayInv, PayMade, NEW c, Touches(c, "payment")
    PROVE  PayInv' /\ PayMade' /\ Collected("payment")
<1>1. PayInv'
    <2>1. CASE \A k \in KeysOf["payment"] : data'[k] = data[k]
        BY <2>1, PayKeysIn DEF Touches, PayInv
    <2>2. CASE \A k \in KeysOf["payment"] : data'[k] = Cleared(data)[k]
        BY <2>2, PayInvCleared DEF Touches
    <2> QED BY <2>1, <2>2 DEF Touches
<1> QED BY <1>1, PayKeysIn, NoneWritten DEF Touches, PayMade

LEMMA PayEnds ==
    ASSUME Typed, PayInv, PayMade, UNCHANGED made,
           \/ state'["payment"] = "closed" /\ data' = Renewed("payment", Cleared(data))
           \/ UNCHANGED state /\ data' = Cleared(data)
    PROVE  PayInv' /\ PayMade' /\ Collected("payment")
<1>1. CASE UNCHANGED state /\ data' = Cleared(data)
    BY <1>1, PayInvCleared, PayKeysIn, NoneWritten DEF PayMade
<1>2. CASE state'["payment"] = "closed" /\ data' = Renewed("payment", Cleared(data))
    <2>1. \A k \in KeysOf["payment"] : data'[k] = "unset"
        BY <1>2, PayKeysIn DEF Renewed, Cleared, Present
    <2> QED BY <1>2, <2>1, PayKeysIn, NoneWritten DEF PayInv, PayMade
<1> QED BY <1>1, <1>2

LEMMA PayHandle ==
    ASSUME Typed, PayInv, PayMade,
           NEW w \in SUBSET KeysOf["payment"], NEW first,
           NEW s \in StatesOf["payment"] \ {"PAY_TARGET", "PAY_RECEIPT"},
           state["payment"] \notin {"closed", "PAY_RECEIPT"},
           IF state["payment"] = "PAY_TARGET" THEN w = {"pay_target"} ELSE "pay_target" \notin w,
           Handle("payment", w, first, {}, {}, s)
    PROVE  PayStep
<1>1. /\ Typed' /\ Frame("payment") /\ UNCHANGED made
      /\ data' = Written(data, w)
      /\ UNCHANGED state \/ state'["payment"] = s
    <2>1. {} \in SUBSET KeysOf["payment"] /\ w \cup {} = w
        OBVIOUS
    <2>2. /\ Typed' /\ Frame("payment") /\ UNCHANGED made
          /\ data' \in {Written(data, w), Written(data, w \cup {})}
          /\ UNCHANGED state \/ state'["payment"] = s
        BY <2>1, PayKeysIn, HandleEffect
    <2> QED BY <2>1, <2>2
<1>2. \A k \in KeysOf["payment"] : data'[k] = IF k \in w THEN "own" ELSE data[k]
    BY <1>1, PayKeysIn DEF Written
<1>3. state'["payment"] = state["payment"] \/ state'["payment"] = s
    BY <1>1
<1>4. PayInv'
    <2>1. \A k \in KeysOf["payment"] : data'[k] # "old" /\ data'[k] # "guess"
        BY <1>2 DEF PayInv
    <2>2. state'["payment"] = "PAY_TARGET" =>
              \A k \in KeysOf["payment"] \ {"pay_target"} : data'[k] = "unset"
        BY <1>2, <1>3 DEF PayInv
    <2>3. ASSUME data'["pay_target"] = "own", NEW k \in KeysOf["payment"]
          PROVE  data'[k] # "lost"
        BY <1>2, <2>3, PayKeysIn DEF PayInv
    <2> QED BY <2>1, <2>2, <2>3 DEF PayInv
<1>5. PayMade'
    BY <1>1, <1>3 DEF PayMade
<1> QED BY <1>1, <1>4, <1>5, PayKeysIn, NoneWritten DEF PayStep

LEMMA PayConfirm == ASSUME Typed, PayInv, PayMade, ConfirmPayment PROVE PayStep
<1>1. "pay_id_for_receipt" \in KeysOf["payment"] /\ "PAY_RECEIPT" \in StatesOf["payment"]
    BY KeysAre, StatesAre
<1>2. state["payment"] = "PAY_CONFIRM"
    BY DEF ConfirmPayment, At
<1>3. CASE CommitAndAsk("payment", {"pay_amount", "pay_target"}, "pay_id_for_receipt", "PAY_RECEIPT")
    <2>1. /\ Typed' /\ Frame("payment") /\ Has(data, {"pay_amount", "pay_target"})
          /\ data' \in {data, Written(data, {"pay_id_for_receipt"})}
          /\ made'["payment"].count = made["payment"].count + 1 /\ made'["payment"].count > 0
          /\ \/ UNCHANGED state /\ made'["payment"].failed
             \/ /\ state'["payment"] = "PAY_RECEIPT" /\ made'["payment"].named
                /\ made'["payment"].failed = made["payment"].failed
        BY <1>1, <1>3, PayKeysIn, CommitAndAskEffect
    <2>2. data["pay_target"] = "own"
        BY <2>1, PayKeysIn DEF Has, Present, PayInv
    <2>3. \A k \in KeysOf["payment"] : data[k] \in {"own", "unset"}
        BY <1>2, <2>2, PayKeysIn DEF PayInv, Typed, Marks
    <2>4. \A k \in KeysOf["payment"] : data'[k] = data[k] \/ data'[k] = "own"
        BY <2>1, PayKeysIn DEF Written
    <2>5. PayInv'
        BY <1>2, <2>1, <2>3, <2>4, PayKeysIn DEF PayInv
    <2>6. Collected("payment")
        BY <2>3 DEF Collected, RecordKeys
    <2>7. PayMade'
        BY <1>2, <2>1, PayKeysIn DEF PayMade, Typed
    <2> QED BY <2>1, <2>5, <2>6, <2>7 DEF PayStep
<1>4. CASE Finish("payment")
    BY <1>4, PayKeysIn, FinishEffect, PayEnds DEF PayStep
<1> QED BY <1>3, <1>4 DEF ConfirmPayment

LEMMA PayKeeps == ASSUME Typed, PayInv, PayMade, Payment PROVE PayStep
<1>1. /\ {"PAY_AMOUNT", "PAY_NOTE", "PAY_CONFIRM"} \subseteq
              StatesOf["payment"] \ {"PAY_TARGET", "PAY_RECEIPT"}
      /\ {{}, {"pay_target"}, {"pay_amount"}, {"pay_note"}} \subseteq SUBSET KeysOf["payment"]
      /\ "PAY_TARGET" \in StatesOf["payment"]
    BY KeysAre, StatesAre
<1>2. CASE PaymentEntry
    <2>1. /\ Typed' /\ Frame("payment")
          /\ state["payment"] = "closed" /\ state'["payment"] \in {"closed", "PAY_TARGET"}
          /\ \A k \in KeysOf["payment"] : data'[k] = "unset"
          /\ made'["payment"] = NothingMade
        BY <1>1, <1>2, PayKeysIn, OpenEffect DEF PaymentEntry
    <2>2. PayInv' /\ PayMade'
        BY <2>1, PayKeysIn DEF PayInv, PayMade, NothingMade
    <2>3. Collected("payment")
        BY <2>1, PayKeysIn DEF Collected, NothingMade, Typed
    <2> QED BY <2>1, <2>2, <2>3 DEF PayStep
<1>3. CASE TargetChosen
    BY <1>1, <1>3, PayHandle DEF TargetChosen, At
<1>4. CASE PayAmountReceived
    BY <1>1, <1>4, PayHandle DEF PayAmountReceived, At
<1>5. CASE NoteReceived
    BY <1>1, <1>5, PayHandle DEF NoteReceived, At
<1>6. CASE ConfirmPayment
    BY <1>6, PayConfirm
<1>7. CASE PaymentReceipt
    BY <1>7, PayKeysIn, ReceiptEffect, PayEnds DEF PaymentReceipt, PayStep
<1> QED BY <1>2, <1>3, <1>4, <1>5, <1>6, <1>7 DEF Payment

-----------------------------------------------------------------------------
(* The program: its creator is set where "new" is pressed, and in that state *)
(* nothing else of it has been collected.  prog_charge_program_id belongs to *)
(* charges, which record nothing here.                                       *)

ProgInv ==
    /\ \A k \in RecordKeys["program"] : data[k] # "old"
    /\ data["prog_creator_id"] # "guess"
    /\ state["program"] = "PROG_MENU" =>
           \A k \in RecordKeys["program"] \ {"prog_creator_id"} : data[k] = "unset"
    /\ state["program"] # "closed" /\ data["prog_creator_id"] = "own" =>
           \A k \in RecordKeys["program"] : data[k] # "lost" /\ data[k] # "guess"
    /\ state["program"] = "PROG_PARTICIPANTS" /\ data["prog_creator_id"] = "own" =>
           data["prog_selected"] = "own"

ProgMade ==
    /\ made["program"].count > 1 => made["program"].failed
    /\ made["program"].count > 0 /\ ~made["program"].failed => state["program"] = "closed"

ProgStep == Typed' /\ Frame("program") /\ ProgInv' /\ ProgMade' /\ Collected("program")

LEMMA ProgKeysIn ==
    /\ RecordKeys["program"] \subseteq KeysOf["program"]
    /\ KeysOf["program"] \subseteq Keys /\ "program" \in Convs /\ "program" \in Recorders
    /\ "prog_creator_id" \in RecordKeys["program"] /\ "prog_selected" \in RecordKeys["program"]
BY ConvsAre, KeysIncluded, KeysAre DEF Recorders, RecordKeys

LEMMA ProgInvCleared ==
    ASSUME Typed, ProgInv, state'["program"] = state["program"],
           \A k \in KeysOf["program"] : data'[k] = Cleared(data)[k]
    PROVE  ProgInv'
<1>1. \A k \in RecordKeys["program"] :
          /\ data'[k] = "lost" \/ data'[k] = "unset"
          /\ data[k] = "unset" => data'[k] = "unset"
    BY ProgKeysIn DEF Cleared
<1> QED BY <1>1, ProgKeysIn DEF ProgInv

LEMMA ProgInvSame ==
    ASSUME ProgInv, state'["program"] = state["program"],
           \A k \in KeysOf["program"] : data'[k] = data[k]
    PROVE  ProgInv'
BY ProgKeysIn DEF ProgInv

LEMMA ProgForeign ==
    ASSUME Typed, ProgInv, ProgMade, NEW c, Touches(c, "program")
    PROVE  ProgInv' /\ ProgMade' /\ Collected("program")
<1>1. ProgInv'
    BY ProgInvCleared, ProgInvSame DEF Touches
<1> QED BY <1>1, ProgKeysIn, NoneWritten DEF Touches, ProgMade

LEMMA ProgEnds ==
    ASSUME Typed, ProgInv, ProgMade, UNCHANGED made,
           \/ state'["program"] = "closed" /\ data' = Renewed("program", Cleared(data))
           \/ UNCHANGED state /\ data' = Cleared(data)
    PROVE  ProgInv' /\ ProgMade' /\ Collected("program")
<1>1. CASE UNCHANGED state /\ data' = Cleared(data)
    BY <1>1, ProgInvCleared, ProgKeysIn, NoneWritten DEF ProgMade
<1>2. CASE state'["program"] = "closed" /\ data' = Renewed("program", Cleared(data))
    <2>1. \A k \in RecordKeys["program"] : data'[k] = "unset"
        BY <1>2, ProgKeysIn DEF Renewed, Cleared, Present
    <2> QED BY <1>2, <2>1, ProgKeysIn, NoneWritten DEF ProgInv, ProgMade
<1> QED BY <1>1, <1>2

LEMMA ProgHandle ==
    ASSUME Typed, ProgInv, ProgMade,
           NEW w \in SUBSET KeysOf["program"], NEW first,
           NEW s \in StatesOf["program"] \ {"PROG_MENU"},
           s = "PROG_PARTICIPANTS" => "prog_selected" \in w,
           state["program"] # "closed",
           IF state["program"] = "PROG_MENU"
           THEN w \cap RecordKeys["program"] \subseteq {"prog_creator_id"}
           ELSE "prog_creator_id" \notin w,
           Handle("program", w, first, {}, {}, s)
    PROVE  ProgStep
<1>1. /\ Typed' /\ Frame("program") /\ UNCHANGED made
      /\ data' = Written(data, w)
      /\ UNCHANGED state \/ state'["program"] = s
    <2>1. {} \in SUBSET KeysOf["program"] /\ w \cup {} = w
        OBVIOUS
    <2>2. /\ Typed' /\ Frame("program") /\ UNCHANGED made
          /\ data' \in {Written(data, w), Written(data, w \cup {})}
          /\ UNCHANGED state \/ state'["program"] = s
        BY <2>1, ProgKeysIn, HandleEffect
    <2> QED BY <2>1, <2>2
<1>2. \A k \in RecordKeys["program"] : data'[k] = IF k \in w THEN "own" ELSE data[k]
    BY <1>1, ProgKeysIn DEF Written
<1>3. state'["program"] = state["program"] \/ state'["program"] = s
    BY <1>1
<1>4. ProgInv'
    <2>1. \A k \in RecordKeys["program"] : data'[k] # "old"
        BY <1>2 DEF ProgInv
    <2>2. data'["prog_creator_id"] # "guess"
        BY <1>2, ProgKeysIn DEF ProgInv
    <2>3. state'["program"] = "PROG_MENU" =>
              \A k \in RecordKeys["program"] \ {"prog_creator_id"} : data'[k] = "unset"
        BY <1>2, <1>3 DEF ProgInv
    <2>4. ASSUME data'["prog_creator_id"] = "own", NEW k \in RecordKeys["program"]
          PROVE  data'[k] # "lost" /\ data'[k] # "guess"
        BY <1>2, <2>4, ProgKeysIn DEF ProgInv
    <2>5. state'["program"] = "PROG_PARTICIPANTS" /\ data'["prog_creator_id"] = "own" =>
              data'["prog_selected"] = "own"
        BY <1>2, <1>3, ProgKeysIn DEF ProgInv
    <2> QED BY <2>1, <2>2, <2>3, <2>4, <2>5 DEF ProgInv
<1>5. ProgMade'
    BY <1>1, <1>3 DEF ProgMade
<1> QED BY <1>1, <1>4, <1>5, ProgKeysIn, NoneWritten DEF ProgStep

LEMMA ProgPeople == ASSUME Typed, ProgInv, ProgMade, ProgParticipants PROVE ProgStep
<1>1. /\ "PROG_WEIGHTS" \in StatesOf["program"] \ {"PROG_MENU"}
      /\ {"prog_weights"} \in SUBSET KeysOf["program"]
      /\ "prog_creator_id" \notin {"prog_weights"}
    BY KeysAre, StatesAre
<1>2. state["program"] = "PROG_PARTICIPANTS"
    BY DEF ProgParticipants, At
<1>3. CASE Handle("program", {"prog_weights"}, {}, {}, {}, "PROG_WEIGHTS")
    BY <1>1, <1>2, <1>3, ProgHandle
<1>4. CASE data' = Defaulted(data, "prog_selected") /\ UNCHANGED <<state, made>>
    <2>1. Typed'
        BY <1>4, DataTyped DEF Typed
    <2>2. ASSUME NEW b \in Convs \ {"program"}, NEW k \in KeysOf[b] PROVE data'[k] = data[k]
        <3>1. k # "prog_selected" /\ k \in Keys
            BY ProgKeysIn, KeysDisjoint, KeysIncluded
        <3> QED BY <1>4, <3>1 DEF Defaulted
    <2>3. Frame("program")
        BY <1>4, <2>2 DEF Frame, Touches
    <2>4. /\ \A k \in RecordKeys["program"] \ {"prog_selected"} : data'[k] = data[k]
          /\ data["prog_selected"] = "own" => data'["prog_selected"] = "own"
          /\ data'["prog_selected"] # "old"
        BY <1>4, ProgKeysIn DEF Defaulted, Present, ProgInv
    <2>5. ProgInv'
        BY <1>2, <1>4, <2>4, ProgKeysIn DEF ProgInv
    <2> QED BY <1>4, <2>1, <2>3, <2>5, ProgKeysIn, NoneWritten DEF ProgStep, ProgMade
<1> QED BY <1>3, <1>4 DEF ProgParticipants

LEMMA ProgConfirm == ASSUME Typed, ProgInv, ProgMade, ConfirmProgram PROVE ProgStep
<1>1. state["program"] = "PROG_CONFIRM"
    BY DEF ConfirmProgram, At
<1>2. CASE CommitAndEnd("program", ProgramReads)
    <2>1. /\ Typed' /\ Frame("program") /\ Has(data, ProgramReads)
          /\ made'["program"].count = made["program"].count + 1
          /\ made["program"].failed => made'["program"].failed
          /\ \/ UNCHANGED state /\ made'["program"].failed /\ data' \in {data, Cleared(data)}
             \/ state'["program"] = "closed" /\ data' = Renewed("program", Cleared(data))
        BY <1>2, ProgKeysIn, CommitAndEndEffect
    <2>2. data["prog_creator_id"] = "own"
        BY <2>1, ProgKeysIn DEF Has, ProgramReads, Present, ProgInv
    <2>3. \A k \in RecordKeys["program"] : data[k] \in {"own", "unset"}
        BY <1>1, <2>2, ProgKeysIn DEF ProgInv, Typed, Marks
    <2>4. Collected("program")
        BY <2>3 DEF Collected
    <2>5. CASE UNCHANGED state /\ made'["program"].failed /\ data' \in {data, Cleared(data)}
        <3>1. ProgInv'
            BY <2>5, ProgInvCleared, ProgInvSame
        <3> QED BY <2>1, <2>4, <2>5, <3>1 DEF ProgStep, ProgMade
    <2>6. CASE state'["program"] = "closed" /\ data' = Renewed("program", Cleared(data))
        <3>1. \A k \in RecordKeys["program"] : data'[k] = "unset"
            BY <2>6, ProgKeysIn DEF Renewed, Cleared, Present
        <3>2. ProgMade'
            BY <1>1, <2>1, <2>6, ProgKeysIn DEF ProgMade, Typed
        <3> QED BY <2>1, <2>4, <2>6, <3>1, <3>2, ProgKeysIn DEF ProgStep, ProgInv
    <2> QED BY <2>1, <2>5, <2>6
<1>3. CASE Finish("program")
    BY <1>3, ProgKeysIn, FinishEffect, ProgEnds DEF ProgStep
<1> QED BY <1>2, <1>3 DEF ConfirmProgram

LEMMA ProgKeeps == ASSUME Typed, ProgInv, ProgMade, Program PROVE ProgStep
<1>1. /\ {"PROG_NAME", "PROG_CHARGE_AMOUNT", "PROG_PARTICIPANTS", "PROG_CARD", "PROG_CONFIRM"}
             \subseteq StatesOf["program"] \ {"PROG_MENU"}
      /\ {{}, {"prog_creator_id"}, {"prog_charge_program_id"}, {"prog_name", "prog_selected"},
           {"prog_card"}} \subseteq SUBSET KeysOf["program"]
      /\ "PROG_MENU" \in StatesOf["program"]
    BY KeysAre, StatesAre
<1>2. CASE ProgramsEntry
    <2>1. /\ Typed' /\ Frame("program")
          /\ state["program"] = "closed" /\ state'["program"] \in {"closed", "PROG_MENU"}
          /\ \A k \in KeysOf["program"] : data'[k] = "unset"
          /\ made'["program"] = NothingMade
        <3>1. Open("program", {}, "PROG_MENU") /\ {} \in SUBSET KeysOf["program"]
            BY <1>2 DEF ProgramsEntry
        <3>2. "PROG_MENU" \in StatesOf["program"]
            BY <1>1
        <3>3. /\ Typed' /\ Frame("program")
              /\ state["program"] = "closed" /\ state'["program"] \in {"closed", "PROG_MENU"}
              /\ \A k \in KeysOf["program"] : data'[k] = IF k \in {} THEN "own" ELSE "unset"
              /\ "program" \in Recorders => made'["program"] = NothingMade
            BY <3>1, <3>2, ProgKeysIn, OpenEffect
        <3> QED BY <3>3, ProgKeysIn
    <2>2. ProgInv' /\ ProgMade'
        BY <2>1, ProgKeysIn DEF ProgInv, ProgMade, NothingMade
    <2>3. Collected("program")
        BY <2>1, ProgKeysIn DEF Collected, NothingMade, Typed
    <2> QED BY <2>1, <2>2, <2>3 DEF ProgStep
<1>3. CASE ProgramMenu
    <2>1. {"prog_charge_program_id"} \cap RecordKeys["program"] \subseteq {"prog_creator_id"}
        BY DEF RecordKeys
    <2> QED BY <1>1, <1>3, <2>1, ProgHandle DEF ProgramMenu, At
<1>4. CASE ProgNameReceived
    BY <1>1, <1>4, ProgHandle DEF ProgNameReceived, At
<1>5. CASE ProgParticipants
    BY <1>5, ProgPeople
<1>6. CASE ProgWeightsDone
    BY <1>1, <1>6, ProgHandle DEF ProgWeightsDone, At
<1>7. CASE ProgCardReceived
    BY <1>1, <1>7, ProgHandle DEF ProgCardReceived, At
<1>8. CASE ConfirmProgram
    BY <1>8, ProgConfirm
<1>9. CASE ProgChargeAmountReceived
    BY <1>9, ProgKeysIn, FinishEffect, ProgEnds DEF ProgChargeAmountReceived, ProgStep
<1> QED BY <1>2, <1>3, <1>4, <1>5, <1>6, <1>7, <1>8, <1>9 DEF Program

-----------------------------------------------------------------------------
(* The other conversations record nothing; /cancel; the theorems *)

\* A step of members_conv or registration_conv, as the recorders see it.
LEMMA OthersEffect ==
    ASSUME Typed, Others
    PROVE  /\ Typed'
           /\ \A b \in Recorders : Touches("members", b) \/ Touches("registration", b)
<1>1. /\ "members" \in Convs /\ "registration" \in Convs
      /\ Recorders \subseteq (Convs \ {"members"}) \cap (Convs \ {"registration"})
    BY ConvsAre DEF Recorders
<1>2. /\ {"MEM_MENU", "MEM_AWAIT"} \subseteq StatesOf["members"]
      /\ "REG_WEIGHT" \in StatesOf["registration"]
      /\ {} \in SUBSET KeysOf["members"] /\ {"mem_target_id"} \in SUBSET KeysOf["members"]
      /\ {} \in SUBSET KeysOf["registration"] /\ {"reg_card"} \in SUBSET KeysOf["registration"]
    BY KeysAre, StatesAre
<1>3. ASSUME NEW w \in SUBSET KeysOf["members"], NEW first, NEW s \in StatesOf["members"],
             Handle("members", w, first, {}, {}, s)
      PROVE  Typed' /\ Frame("members")
    BY <1>1, <1>2, <1>3, HandleEffect
<1>4. CASE MembersEntry
    <2>1. CASE Handle("members", {}, {}, {}, {}, "MEM_MENU")
        BY <1>1, <1>2, <1>3, <2>1 DEF Frame
    <2>2. CASE data' = Renewed("members", data) /\ Goto("members", "MEM_MENU") /\ UNCHANGED made
        <3>1. /\ state' \in [Convs -> AllStates]
              /\ \A b \in Convs : state'[b] \in StatesOf[b] \cup {"closed"}
              /\ \A b \in Convs \ {"members"} : state'[b] = state[b]
            BY <1>1, <1>2, <2>2, GotoTyped
        <3>2. data' \in [Keys -> Marks]
            BY <1>1, <2>2, DataTyped DEF Typed
        <3>3. ASSUME NEW b \in Convs \ {"members"}, NEW k \in KeysOf[b] PROVE data'[k] = data[k]
            <4>1. k \notin KeysOf["members"] /\ k \in Keys
                BY <1>1, KeysDisjoint, KeysIncluded
            <4> QED BY <2>2, <4>1 DEF Renewed
        <3> QED BY <1>1, <2>2, <3>1, <3>2, <3>3 DEF Typed, Touches
    <2> QED BY <1>4, <2>1, <2>2 DEF MembersEntry
<1>5. CASE MembersMenu
    <2>1. CASE \E s \in {"MEM_MENU", "MEM_AWAIT"} :
                   Handle("members", {"mem_target_id"}, {}, {}, {}, s)
        BY <1>1, <1>2, <1>3, <2>1 DEF Frame
    <2>2. CASE End("members", data) /\ UNCHANGED made
        BY <1>1, <2>2, EndEffect DEF Typed, Touches
    <2> QED BY <1>5, <2>1, <2>2 DEF MembersMenu
<1>6. CASE MemberEdited
    BY <1>1, <1>2, <1>3, <1>6 DEF MemberEdited, Frame
<1>7. CASE RegCardReceived
    <2>1. Typed' /\ Frame("registration")
        BY <1>1, <1>2, <1>7, HandleEffect DEF RegCardReceived
    <2> QED BY <1>1, <2>1 DEF Frame
<1>8. CASE RegWeightReceived
    <2>1. Typed' /\ Frame("registration")
        BY <1>1, <1>8, FinishEffect DEF RegWeightReceived
    <2> QED BY <1>1, <2>1 DEF Frame
<1> QED BY <1>4, <1>5, <1>6, <1>7, <1>8 DEF Others

Inv == Typed /\ ExpInv /\ ExpMade /\ PayInv /\ PayMade /\ ProgInv /\ ProgMade

AllCollected == \A c \in Recorders : Collected(c)

LEMMA InvInit == Init => Inv
<1> SUFFICES ASSUME Init PROVE Inv
    OBVIOUS
<1>1. /\ state \in [Convs -> AllStates]
      /\ \A c \in Convs : state[c] \in StatesOf[c] \cup {"closed"}
      /\ \A c \in Convs \ {"registration"} : state[c] = "closed"
    <2>1. PICK r \in {"closed"} \cup StatesOf["registration"] :
              state = [c \in Convs |-> IF c = "registration" THEN r ELSE "closed"]
        BY DEF Init
    <2> QED BY <2>1, ConvsAre DEF AllStates
<1>2. /\ data \in [Keys -> {"own", "unset"}]
      /\ \A k \in Keys : k \notin {"reg_user_id", "reg_card"} => data[k] = "unset"
    BY DEF Init
<1>3. NothingMade \in [count : 0 .. MaxCommits, failed : BOOLEAN, named : BOOLEAN]
    BY MaxCommitsAssumption DEF NothingMade
<1>4. made = [c \in Recorders |-> NothingMade]
    BY DEF Init
<1>5. Typed
    BY <1>1, <1>2, <1>3, <1>4 DEF Typed, Marks
<1>6. \A c \in Recorders : \A k \in KeysOf[c] : data[k] = "unset"
    <2>1. ASSUME NEW c \in Recorders, NEW k \in KeysOf[c] PROVE data[k] = "unset"
        <3>1. k \in Keys /\ k \notin {"reg_user_id", "reg_card"}
            BY ConvsAre, RecordersAreConvs, KeysIncluded, KeysDisjoint, KeysAre DEF Recorders
        <3> QED BY <1>2, <3>1
    <2> QED BY <2>1
<1>7. ExpInv /\ ExpMade
    BY <1>1, <1>4, <1>6, ConvsAre, KeysAre DEF ExpInv, ExpMade, Recorders, NothingMade
<1>8. PayInv /\ PayMade
    BY <1>1, <1>4, <1>6, ConvsAre, KeysAre DEF PayInv, PayMade, Recorders, NothingMade
<1>9. ProgInv /\ ProgMade
    BY <1>1, <1>4, <1>6, ConvsAre, ProgKeysIn DEF ProgInv, ProgMade, Recorders, NothingMade
<1> QED BY <1>5, <1>7, <1>8, <1>9 DEF Inv

\* Each conversation's own steps keep its part; to the others they at most clear.
LEMMA InvNext == Inv /\ [Next]_vars => Inv' /\ AllCollected
<1> SUFFICES ASSUME Inv, [Next]_vars PROVE Inv' /\ AllCollected
    OBVIOUS
<1> USE DEF Inv
<1>1. /\ Recorders = {"expense", "payment", "program"} /\ Recorders \subseteq Convs
    BY RecordersAreConvs DEF Recorders
<1>2. ASSUME NEW c \in Convs, Typed', Frame(c),
             c = "expense" => ExpInv' /\ ExpMade' /\ Collected("expense"),
             c = "payment" => PayInv' /\ PayMade' /\ Collected("payment"),
             c = "program" => ProgInv' /\ ProgMade' /\ Collected("program")
      PROVE  Inv' /\ AllCollected
    <2>1. ExpInv' /\ ExpMade' /\ Collected("expense")
        BY <1>1, <1>2, ExpForeign DEF Frame
    <2>2. PayInv' /\ PayMade' /\ Collected("payment")
        BY <1>1, <1>2, PayForeign DEF Frame
    <2>3. ProgInv' /\ ProgMade' /\ Collected("program")
        BY <1>1, <1>2, ProgForeign DEF Frame
    <2> QED BY <1>1, <1>2, <2>1, <2>2, <2>3 DEF AllCollected
<1>3. CASE Expense
    BY <1>1, <1>2, <1>3, ExpKeeps DEF ExpStep
<1>4. CASE Payment
    BY <1>1, <1>2, <1>4, PayKeeps DEF PayStep
<1>5. CASE Program
    BY <1>1, <1>2, <1>5, ProgKeeps DEF ProgStep
<1>6. CASE Others
    <2>1. Typed' /\ \A b \in Recorders : \E c \in Convs : Touches(c, b)
        BY <1>6, OthersEffect, ConvsAre
    <2>2. ExpInv' /\ ExpMade' /\ Collected("expense")
        BY <1>1, <2>1, ExpForeign
    <2>3. PayInv' /\ PayMade' /\ Collected("payment")
        BY <1>1, <2>1, PayForeign
    <2>4. ProgInv' /\ ProgMade' /\ Collected("program")
        BY <1>1, <2>1, ProgForeign
    <2> QED BY <1>1, <2>1, <2>2, <2>3, <2>4 DEF AllCollected
<1>7. ASSUME NEW c \in Convs, NEW u \in Commands, CancelConversation(c, u)
      PROVE  Inv' /\ AllCollected
    <2>1. /\ Typed' /\ Frame(c) /\ UNCHANGED made
          /\ \/ state'[c] = "closed" /\ data' = Renewed(c, Cleared(data))
             \/ UNCHANGED state /\ data' = Cleared(data)
        BY <1>7, FinishEffect DEF CancelConversation
    <2> QED BY <1>2, <2>1, ExpEnds, PayEnds, ProgEnds
<1>8. CASE Restart
    <2>1. /\ state' = [c \in Convs |-> "closed"]
          /\ data' = [k \in Keys |-> "unset"]
          /\ made' = [c \in Recorders |-> NothingMade]
        BY <1>8 DEF Restart
    <2>2. NothingMade \in [count : 0 .. MaxCommits, failed : BOOLEAN, named : BOOLEAN]
        BY MaxCommitsAssumption DEF NothingMade
    <2>3. Typed'
        BY <2>1, <2>2 DEF Typed, AllStates, Marks
    <2>4. \A c \in Recorders : \A k \in KeysOf[c] : data'[k] = "unset"
        BY <1>1, <2>1, KeysIncluded
    <2>5. \A c \in Recorders : state'[c] = "closed" /\ made'[c].count = 0
        BY <1>1, <2>1 DEF NothingMade
    <2>6. ExpInv' /\ ExpMade'
        BY <1>1, <2>4, <2>5, KeysAre DEF ExpInv, ExpMade
    <2>7. PayInv' /\ PayMade'
        BY <1>1, <2>4, <2>5, KeysAre DEF PayInv, PayMade
    <2>8. ProgInv' /\ ProgMade'
        BY <1>1, <2>4, <2>5, ProgKeysIn DEF ProgInv, ProgMade
    <2>9. AllCollected
        BY <2>5 DEF AllCollected, Collected, Typed
    <2> QED BY <2>3, <2>6, <2>7, <2>8, <2>9
<1>9. CASE UNCHANGED vars
    <2>1. Typed'
        BY <1>9 DEF vars, Typed
    <2>2. \A b \in Recorders : Touches("members", b)
        BY <1>9 DEF vars, Touches
    <2>3. ExpInv' /\ ExpMade' /\ Collected("expense")
        BY <1>1, <2>2, ExpForeign
    <2>4. PayInv' /\ PayMade' /\ Collected("payment")
        BY <1>1, <2>2, PayForeign
    <2>5. ProgInv' /\ ProgMade' /\ Collected("program")
        BY <1>1, <2>2, ProgForeign
    <2> QED BY <1>1, <2>1, <2>3, <2>4, <2>5 DEF AllCollected
<1> QED BY <1>3, <1>4, <1>5, <1>6, <1>7, <1>8, <1>9 DEF Next

LEMMA InvAlways == Spec => []Inv
BY InvInit, InvNext, PTL DEF Spec

\* Every conversation is in a state of its own, whatever is sent to it and
\* however its answers fail (the return values of bot.py's five conversations).
THEOREM TypesCorrect == Spec => []TypeOK
<1>1. Inv => TypeOK
    BY TypedIsTypeOK DEF Inv
<1> QED BY <1>1, InvAlways, PTL

\* For any number of conversations open at once: a record is made of what was
\* collected for it, all of it and nothing else (confirm_callback,
\* payment_confirm_callback, prog_confirm_callback).
THEOREM RecordsAreCollected == Spec => RecordsWhatWasCollected
<1>1. AllCollected =>
          \A c \in Recorders :
              made'[c].count > made[c].count =>
                  \A k \in RecordKeys[c] : data[k] \in {"own", "unset"}
    BY DEF AllCollected, Collected
<1>2. Inv /\ [Next]_vars =>
          [\A c \in Recorders :
              made'[c].count > made[c].count =>
                  \A k \in RecordKeys[c] : data[k] \in {"own", "unset"}]_vars
    BY <1>1, InvNext
<1> QED BY <1>2, InvAlways, PTL DEF Spec, RecordsWhatWasCollected

\* For any number of repetitions: two records of one preview need a confirmation
\* that got no answer.
THEOREM OneRecordUnlessFailed == Spec => []OneRecordPerPreview
<1>1. Inv => OneRecordPerPreview
    BY DEF Inv, ExpMade, PayMade, ProgMade, OneRecordPerPreview, Recorders
<1> QED BY <1>1, InvAlways, PTL

\* For any number of repetitions: the id a receipt is attached to is that of the
\* record just made.
THEOREM ReceiptsOfNewest == Spec => []ReceiptOfNewest
<1>1. Inv => ReceiptOfNewest
    BY StatesAre, ConvsAre DEF Inv, Typed, ExpMade, PayMade, ReceiptOfNewest
<1> QED BY <1>1, InvAlways, PTL

-----------------------------------------------------------------------------
(* What the handlers of a state read.  Not all of it is written in the state *)
(* before: Filled says what has been written on every path to a state.       *)

Filled(s) ==
    CASE s = "EXP_DESC" -> {"exp_payer_id"}
      [] s = "EXP_PROGRAM_CHOICE" -> {"exp_payer_id", "exp_description"}
      [] s \in {"EXP_PARTICIPANTS", "EXP_SPLIT_MODE"} ->
             {"exp_payer_id", "exp_description", "exp_selected"}
      [] s \in {"EXP_AMOUNT", "EXP_OCR_PHOTO"} ->
             {"exp_payer_id", "exp_description", "exp_selected", "exp_split_mode"}
      [] s = "EXP_WEIGHTS" ->
             {"exp_payer_id", "exp_description", "exp_selected", "exp_split_mode", "exp_amount",
              "exp_weights"}
      [] s = "EXP_CUSTOM_AMOUNTS" ->
             {"exp_payer_id", "exp_description", "exp_selected", "exp_split_mode", "exp_custom"}
      [] s \in {"EXP_OCR_ITEM", "EXP_OCR_REMAINDER"} ->
             {"exp_payer_id", "exp_description", "exp_selected", "exp_split_mode", "exp_ocr"}
      [] s \in {"EXP_CONFIRM", "EXP_CHANGE_PAYER"} ->
             {"exp_payer_id", "exp_description", "exp_split_mode", "exp_amount", "exp_shares",
              "exp_weights"}
      [] s = "EXP_RECEIPT" -> {"exp_id_for_receipt"}
      [] s = "PAY_AMOUNT" -> {"pay_target"}
      [] s \in {"PAY_NOTE", "PAY_CONFIRM"} -> {"pay_target", "pay_amount"}
      [] s = "PAY_RECEIPT" -> {"pay_id_for_receipt"}
      [] s = "PROG_NAME" -> {"prog_creator_id"}
      [] s = "PROG_PARTICIPANTS" -> {"prog_creator_id", "prog_name", "prog_selected"}
      [] s \in {"PROG_WEIGHTS", "PROG_CARD"} ->
             {"prog_creator_id", "prog_name", "prog_selected", "prog_weights"}
      [] s = "PROG_CONFIRM" -> {"prog_creator_id", "prog_name", "prog_weights", "prog_card"}
      [] s = "PROG_CHARGE_AMOUNT" -> {"prog_charge_program_id"}
      [] s = "MEM_AWAIT" -> {"mem_target_id"}
      [] s = "REG_CARD" -> {"reg_user_id"}
      [] s = "REG_WEIGHT" -> {"reg_user_id", "reg_card"}
      [] OTHER -> {}

\* What was written is there, or lost to another conversation, or guessed since.
WasWritten == {"own", "lost", "guess"}

Carried(c) == state[c] # "closed" => \A k \in Filled(state[c]) : data[k] \in WasWritten

LEMMA FilledAreKeys ==
    \A c \in Convs : \A s \in StatesOf[c] : Needed(s) \subseteq Filled(s)
                                           /\ Filled(s) \subseteq KeysOf[c]
<1>1. \A s \in StatesOf["expense"] : Needed(s) \subseteq Filled(s)
                                     /\ Filled(s) \subseteq KeysOf["expense"]
    <2> SUFFICES ASSUME NEW s \in StatesOf["expense"]
                 PROVE  Needed(s) \subseteq Filled(s) /\ Filled(s) \subseteq KeysOf["expense"]
        OBVIOUS
    <2> QED BY StatesAre, KeysAre DEF Needed, Filled
<1>2. \A s \in StatesOf["payment"] : Needed(s) \subseteq Filled(s)
                                     /\ Filled(s) \subseteq KeysOf["payment"]
    BY StatesAre, KeysAre DEF Needed, Filled
<1>3. \A s \in StatesOf["program"] : Needed(s) \subseteq Filled(s)
                                     /\ Filled(s) \subseteq KeysOf["program"]
    BY StatesAre, KeysAre DEF Needed, Filled
<1>4. \A s \in StatesOf["members"] : Needed(s) \subseteq Filled(s)
                                     /\ Filled(s) \subseteq KeysOf["members"]
    BY StatesAre, KeysAre DEF Needed, Filled
<1>5. \A s \in StatesOf["registration"] : Needed(s) \subseteq Filled(s)
                                          /\ Filled(s) \subseteq KeysOf["registration"]
    BY StatesAre, KeysAre DEF Needed, Filled
<1> QED BY <1>1, <1>2, <1>3, <1>4, <1>5, ConvsAre

LEMMA CarriedMeansNothingMissing ==
    Typed /\ (\A c \in Convs : Carried(c)) => NothingMissing
<1> SUFFICES ASSUME Typed, \A c \in Convs : Carried(c), NEW c \in Convs,
                    state[c] # "closed", ~Wiped(c), NEW k \in Needed(state[c])
             PROVE  data[k] \in Present
    BY DEF NothingMissing, Has
<1>1. state[c] \in StatesOf[c]
    BY DEF Typed
<1>2. k \in Filled(state[c]) /\ k \in KeysOf[c]
    BY <1>1, FilledAreKeys
<1> QED BY <1>2 DEF Carried, WasWritten, Wiped, Present

\* Another conversation at most clears; what is cleared was written.
LEMMA CarriedForeign ==
    ASSUME Typed, NEW c \in Convs, Carried(c), state'[c] = state[c],
           \/ \A k \in KeysOf[c] : data'[k] = data[k]
           \/ \A k \in KeysOf[c] : data'[k] = Cleared(data)[k]
    PROVE  Carried(c)'
<1> SUFFICES ASSUME state[c] # "closed", NEW k \in Filled(state[c])
             PROVE  data'[k] \in WasWritten
    BY DEF Carried
<1>1. k \in KeysOf[c] /\ k \in Keys
    BY FilledAreKeys, KeysIncluded DEF Typed
<1>2. data[k] \in WasWritten
    BY DEF Carried
<1> QED BY <1>1, <1>2 DEF Cleared, WasWritten

LEMMA CarriedEnds ==
    ASSUME Typed, NEW c \in Convs, Carried(c),
           state'[c] = "closed" \/ (UNCHANGED state /\ data' = Cleared(data))
    PROVE  Carried(c)'
BY CarriedForeign DEF Carried

\* A handler goes on to a state with what was there and what it writes.
LEMMA CarriedHandle ==
    ASSUME Typed, NEW c \in Convs, Carried(c), state[c] # "closed",
           NEW w1 \in SUBSET KeysOf[c], NEW w2 \in SUBSET KeysOf[c], NEW first, NEW second,
           NEW s \in StatesOf[c], Filled(s) \subseteq Filled(state[c]) \cup w1 \cup w2,
           Handle(c, w1, first, w2, second, s)
    PROVE  Carried(c)'
<1>1. /\ data' \in {Written(data, w1), Written(data, w1 \cup w2)}
      /\ UNCHANGED state \/ (state'[c] = s /\ data' = Written(data, w1 \cup w2))
    BY HandleEffect
<1>2. state[c] \in StatesOf[c]
    BY DEF Typed
<1>3. Filled(s) \subseteq Keys /\ Filled(state[c]) \subseteq Keys
    BY <1>2, FilledAreKeys, KeysIncluded
<1>4. CASE UNCHANGED state
    BY <1>1, <1>3, <1>4 DEF Carried, Written, WasWritten
<1>5. CASE state'[c] = s /\ data' = Written(data, w1 \cup w2)
    BY <1>1, <1>3, <1>5 DEF Carried, Written, WasWritten
<1> QED BY <1>1, <1>4, <1>5

\* So do the handlers that replace a selection that is gone.
LEMMA CarriedDefault ==
    ASSUME Typed, NEW c \in Convs, Carried(c), state[c] # "closed",
           NEW key, data' = Defaulted(data, key),
           NEW s \in StatesOf[c], Filled(s) \subseteq Filled(state[c]),
           Goto(c, s) \/ UNCHANGED state
    PROVE  Carried(c)'
<1>1. state[c] \in StatesOf[c] /\ state'[c] \in {s, state[c]}
    BY GotoTyped DEF Typed
<1>2. Filled(s) \subseteq Keys /\ Filled(state[c]) \subseteq Keys
    BY <1>1, FilledAreKeys, KeysIncluded
<1> QED BY <1>1, <1>2 DEF Carried, Defaulted, WasWritten, Present

LEMMA CarriedOpen ==
    ASSUME Typed, NEW c \in Convs, NEW s \in StatesOf[c], NEW w \in SUBSET KeysOf[c],
           Filled(s) \subseteq w, Open(c, w, s)
    PROVE  Carried(c)'
<1>1. /\ state'[c] \in {"closed", s}
      /\ \A k \in KeysOf[c] : data'[k] = IF k \in w THEN "own" ELSE "unset"
    BY OpenEffect
<1> QED BY <1>1 DEF Carried, WasWritten

LEMMA CarriedAsk ==
    ASSUME Typed, NEW c \in Recorders, Carried(c), NEW reads, NEW key \in KeysOf[c],
           NEW s \in StatesOf[c], Filled(s) \subseteq {key}, CommitAndAsk(c, reads, key, s)
    PROVE  Carried(c)'
<1>1. c \in Convs /\ key \in Keys
    BY RecordersAreConvs, KeysIncluded
<1>2. CASE UNCHANGED <<state, data>>
    BY <1>2 DEF Carried
<1>3. CASE data' = Written(data, {key}) /\ (Goto(c, s) \/ UNCHANGED state)
    <2>1. state'[c] \in {s, state[c]} /\ state[c] \in StatesOf[c] \cup {"closed"}
        BY <1>1, <1>3, GotoTyped DEF Typed
    <2>2. state[c] # "closed" => Filled(state[c]) \subseteq Keys
        BY <1>1, <2>1, FilledAreKeys, KeysIncluded
    <2> QED BY <1>1, <1>3, <2>1, <2>2 DEF Carried, Written, WasWritten
<1> QED BY <1>2, <1>3 DEF CommitAndAsk

LEMMA CarriedCommit ==
    ASSUME Typed, NEW c \in Recorders, Carried(c), NEW reads, CommitAndEnd(c, reads)
    PROVE  Carried(c)'
<1>1. c \in Convs
    BY RecordersAreConvs
<1>2. \/ UNCHANGED state /\ data' \in {data, Cleared(data)}
      \/ state'[c] = "closed"
    BY CommitAndEndEffect
<1>3. CASE UNCHANGED state /\ data' = data
    BY <1>1, <1>3, CarriedForeign
<1> QED BY <1>1, <1>2, <1>3, CarriedEnds

LEMMA ExpCarried == ASSUME Typed, Carried("expense"), Expense PROVE Carried("expense")'
<1> DEFINE States == StatesOf["expense"]
           Rows   == SUBSET KeysOf["expense"]
<1>0. "expense" \in Convs /\ "expense" \in Recorders
    BY ConvsAre DEF Recorders
<1>1. /\ {"EXP_DESC", "EXP_PROGRAM_CHOICE", "EXP_PARTICIPANTS", "EXP_SPLIT_MODE", "EXP_AMOUNT",
            "EXP_WEIGHTS", "EXP_CUSTOM_AMOUNTS", "EXP_OCR_PHOTO", "EXP_OCR_ITEM",
            "EXP_OCR_REMAINDER", "EXP_CONFIRM", "EXP_CHANGE_PAYER", "EXP_RECEIPT"} \subseteq States
      /\ {{}, {"exp_description"}, {"exp_payer_id"}, {"exp_selected"},
            {"exp_program_id", "exp_selected"}, {"exp_split_mode"}, {"exp_custom"}, {"exp_amount"},
            {"exp_shares", "exp_weights"}, {"exp_weights"}, {"exp_shares"},
            {"exp_amount", "exp_shares", "exp_weights", "exp_selected"},
            {"exp_ocr_photo_file_id"}, {"exp_ocr"}, {"exp_ocr_photo_file_id", "exp_split_mode"},
            {"exp_ocr_remainder"}} \subseteq Rows
      /\ "exp_id_for_receipt" \in KeysOf["expense"]
    BY KeysAre, StatesAre
<1>2. ASSUME NEW w1 \in Rows, NEW w2 \in Rows, NEW first, NEW second, NEW s \in States,
             state["expense"] # "closed",
             Filled(s) \subseteq Filled(state["expense"]) \cup w1 \cup w2,
             Handle("expense", w1, first, w2, second, s)
      PROVE  Carried("expense")'
    BY <1>0, <1>2, CarriedHandle
<1>3. ASSUME Finish("expense") PROVE Carried("expense")'
    BY <1>0, <1>3, FinishEffect, CarriedEnds
<1> HIDE DEF States, Rows
<1>4. ASSUME NEW first, Finalize(first),
             state["expense"] \in {"EXP_CUSTOM_AMOUNTS", "EXP_OCR_ITEM", "EXP_OCR_REMAINDER"}
      PROVE  Carried("expense")'
    <2>1. Filled("EXP_CONFIRM") \subseteq Filled(state["expense"])
                                \cup {"exp_amount", "exp_shares", "exp_weights", "exp_selected"}
        BY <1>4 DEF Filled
    <2> QED BY <1>1, <1>2, <1>4, <2>1 DEF Finalize
<1>5. CASE ExpenseEntry
    <2>1. Filled("EXP_DESC") \subseteq {"exp_payer_id"}
        BY DEF Filled
    <2> QED BY <1>0, <1>1, <1>5, <2>1, CarriedOpen DEF ExpenseEntry, States, Rows
<1>6. CASE DescriptionReceived
    <2>1. /\ Filled("EXP_PROGRAM_CHOICE") \subseteq Filled("EXP_DESC") \cup {"exp_description"} \cup {}
          /\ Filled("EXP_PARTICIPANTS") \subseteq Filled("EXP_DESC") \cup {"exp_description"}
                                                 \cup {"exp_selected"}
        BY DEF Filled
    <2> QED BY <1>1, <1>2, <1>6, <2>1 DEF DescriptionReceived, At
<1>7. CASE ProgramChoice
    <2>1. Filled("EXP_PARTICIPANTS") \subseteq Filled("EXP_PROGRAM_CHOICE")
                                               \cup {"exp_program_id", "exp_selected"} \cup {}
        BY DEF Filled
    <2> QED BY <1>1, <1>2, <1>7, <2>1 DEF ProgramChoice, At
<1>8. CASE Participants
    <2>1. /\ state["expense"] = "EXP_PARTICIPANTS" /\ data' = Defaulted(data, "exp_selected")
          /\ Goto("expense", "EXP_SPLIT_MODE") \/ UNCHANGED state
        BY <1>8 DEF Participants, At
    <2>2. Filled("EXP_SPLIT_MODE") \subseteq Filled("EXP_PARTICIPANTS")
        BY DEF Filled
    <2> QED BY <1>0, <1>1, <2>1, <2>2, CarriedDefault DEF States
<1>9. CASE SplitMode
    <2>1. /\ Filled("EXP_CUSTOM_AMOUNTS") \subseteq Filled("EXP_SPLIT_MODE")
                                                   \cup {"exp_split_mode"} \cup {"exp_custom"}
          /\ Filled("EXP_OCR_PHOTO") \subseteq Filled("EXP_SPLIT_MODE") \cup {"exp_split_mode"} \cup {}
          /\ Filled("EXP_AMOUNT") \subseteq Filled("EXP_SPLIT_MODE") \cup {"exp_split_mode"} \cup {}
        BY DEF Filled
    <2> QED BY <1>1, <1>2, <1>9, <2>1 DEF SplitMode, At
<1>10. CASE AmountReceived
    <2>1. /\ Filled("EXP_CONFIRM") \subseteq Filled("EXP_AMOUNT") \cup {"exp_amount"}
                                             \cup {"exp_shares", "exp_weights"}
          /\ Filled("EXP_WEIGHTS") \subseteq Filled("EXP_AMOUNT") \cup {"exp_amount"}
                                             \cup {"exp_weights"}
        BY DEF Filled
    <2> QED BY <1>1, <1>2, <1>10, <2>1 DEF AmountReceived, At
<1>11. CASE WeightsDone
    <2>1. Filled("EXP_CONFIRM") \subseteq Filled("EXP_WEIGHTS") \cup {} \cup {"exp_shares"}
        BY DEF Filled
    <2> QED BY <1>1, <1>2, <1>11, <2>1 DEF WeightsDone, At
<1>12. CASE CustomAmountReceived
    <2>1. Filled("EXP_CUSTOM_AMOUNTS") \subseteq Filled("EXP_CUSTOM_AMOUNTS") \cup {} \cup {}
        OBVIOUS
    <2> QED BY <1>1, <1>2, <1>4, <1>12, <2>1 DEF CustomAmountReceived, At
<1>13. CASE OcrPhotoReceived
    <2>1. /\ Filled("EXP_OCR_ITEM") \subseteq Filled("EXP_OCR_PHOTO") \cup {"exp_ocr_photo_file_id"}
                                              \cup {"exp_ocr"}
          /\ Filled("EXP_CUSTOM_AMOUNTS") \subseteq Filled("EXP_OCR_PHOTO")
                 \cup {"exp_ocr_photo_file_id", "exp_split_mode"} \cup {"exp_custom"}
          /\ Filled("EXP_OCR_PHOTO") \subseteq Filled("EXP_OCR_PHOTO")
                 \cup {"exp_ocr_photo_file_id"} \cup {}
        BY DEF Filled
    <2> QED BY <1>1, <1>2, <1>13, <2>1 DEF OcrPhotoReceived, At
<1>14. CASE OcrItem
    <2>1. /\ Filled("EXP_OCR_ITEM") \subseteq Filled("EXP_OCR_ITEM") \cup {} \cup {}
          /\ Filled("EXP_OCR_REMAINDER") \subseteq Filled("EXP_OCR_ITEM") \cup {}
                                                  \cup {"exp_ocr_remainder"}
        BY DEF Filled
    <2> QED BY <1>1, <1>2, <1>3, <1>4, <1>14, <2>1 DEF OcrItem, At
<1>15. CASE OcrRemainder
    BY <1>3, <1>4, <1>15 DEF OcrRemainder, At
<1>16. CASE ChangePayer
    <2>1. /\ Filled("EXP_CONFIRM") = Filled("EXP_CHANGE_PAYER")
        BY DEF Filled
    <2> QED BY <1>1, <1>2, <1>16, <2>1 DEF ChangePayer, At
<1>17. CASE ConfirmExpense
    <2>1. Filled("EXP_RECEIPT") \subseteq {"exp_id_for_receipt"}
        BY DEF Filled
    <2>2. CASE CommitAndEnd("expense", ExpenseReads)
        BY <1>0, <2>2, CarriedCommit
    <2>3. CASE CommitAndAsk("expense", ExpenseReads, "exp_id_for_receipt", "EXP_RECEIPT")
        BY <1>0, <1>1, <2>1, <2>3, CarriedAsk DEF States
    <2> QED BY <1>3, <1>17, <2>2, <2>3 DEF ConfirmExpense
<1>18. CASE ExpenseReceipt
    BY <1>0, <1>18, ReceiptEffect, CarriedEnds DEF ExpenseReceipt
<1> QED BY <1>5, <1>6, <1>7, <1>8, <1>9, <1>10, <1>11, <1>12, <1>13, <1>14, <1>15, <1>16, <1>17,
           <1>18 DEF Expense

LEMMA PayCarried == ASSUME Typed, Carried("payment"), Payment PROVE Carried("payment")'
<1> DEFINE States == StatesOf["payment"]
           Rows   == SUBSET KeysOf["payment"]
<1>0. "payment" \in Convs /\ "payment" \in Recorders
    BY ConvsAre DEF Recorders
<1>1. /\ {"PAY_TARGET", "PAY_AMOUNT", "PAY_NOTE", "PAY_CONFIRM", "PAY_RECEIPT"} \subseteq States
      /\ {{}, {"pay_target"}, {"pay_amount"}, {"pay_note"}} \subseteq Rows
      /\ "pay_id_for_receipt" \in KeysOf["payment"]
    BY KeysAre, StatesAre
<1>2. ASSUME NEW w1 \in Rows, NEW w2 \in Rows, NEW first, NEW second, NEW s \in States,
             state["payment"] # "closed",
             Filled(s) \subseteq Filled(state["payment"]) \cup w1 \cup w2,
             Handle("payment", w1, first, w2, second, s)
      PROVE  Carried("payment")'
    BY <1>0, <1>2, CarriedHandle
<1> HIDE DEF States, Rows
<1>3. /\ Filled("PAY_TARGET") \subseteq {}
      /\ Filled("PAY_AMOUNT") \subseteq Filled("PAY_TARGET") \cup {"pay_target"} \cup {}
      /\ Filled("PAY_NOTE") \subseteq Filled("PAY_AMOUNT") \cup {"pay_amount"} \cup {}
      /\ Filled("PAY_CONFIRM") \subseteq Filled("PAY_NOTE") \cup {"pay_note"} \cup {}
      /\ Filled("PAY_RECEIPT") \subseteq {"pay_id_for_receipt"}
    BY DEF Filled
<1>4. CASE PaymentEntry
    BY <1>0, <1>1, <1>3, <1>4, CarriedOpen DEF PaymentEntry, States, Rows
<1>5. CASE TargetChosen
    BY <1>1, <1>2, <1>3, <1>5 DEF TargetChosen, At
<1>6. CASE PayAmountReceived
    BY <1>1, <1>2, <1>3, <1>6 DEF PayAmountReceived, At
<1>7. CASE NoteReceived
    BY <1>1, <1>2, <1>3, <1>7 DEF NoteReceived, At
<1>8. CASE ConfirmPayment
    <2>1. CASE Finish("payment")
        BY <1>0, <2>1, FinishEffect, CarriedEnds
    <2>2. CASE CommitAndAsk("payment", {"pay_amount", "pay_target"}, "pay_id_for_receipt",
                            "PAY_RECEIPT")
        BY <1>0, <1>1, <1>3, <2>2, CarriedAsk DEF States
    <2> QED BY <1>8, <2>1, <2>2 DEF ConfirmPayment
<1>9. CASE PaymentReceipt
    BY <1>0, <1>9, ReceiptEffect, CarriedEnds DEF PaymentReceipt
<1> QED BY <1>4, <1>5, <1>6, <1>7, <1>8, <1>9 DEF Payment

LEMMA ProgCarried == ASSUME Typed, Carried("program"), Program PROVE Carried("program")'
<1> DEFINE States == StatesOf["program"]
           Rows   == SUBSET KeysOf["program"]
<1>0. "program" \in Convs /\ "program" \in Recorders
    BY ConvsAre DEF Recorders
<1>1. /\ {"PROG_MENU", "PROG_NAME", "PROG_PARTICIPANTS", "PROG_WEIGHTS", "PROG_CARD",
            "PROG_CONFIRM", "PROG_CHARGE_AMOUNT"} \subseteq States
      /\ {{}, {"prog_creator_id"}, {"prog_charge_program_id"}, {"prog_name", "prog_selected"},
            {"prog_weights"}, {"prog_card"}} \subseteq Rows
    BY KeysAre, StatesAre
<1>2. ASSUME NEW w1 \in Rows, NEW w2 \in Rows, NEW first, NEW second, NEW s \in States,
             state["program"] # "closed",
             Filled(s) \subseteq Filled(state["program"]) \cup w1 \cup w2,
             Handle("program", w1, first, w2, second, s)
      PROVE  Carried("program")'
    BY <1>0, <1>2, CarriedHandle
<1>3. ASSUME Finish("program") PROVE Carried("program")'
    BY <1>0, <1>3, FinishEffect, CarriedEnds
<1> HIDE DEF States, Rows
<1>4. /\ Filled("PROG_MENU") \subseteq {}
      /\ Filled("PROG_NAME") \subseteq Filled("PROG_MENU") \cup {"prog_creator_id"} \cup {}
      /\ Filled("PROG_CHARGE_AMOUNT") \subseteq Filled("PROG_MENU")
                                               \cup {"prog_charge_program_id"} \cup {}
      /\ Filled("PROG_PARTICIPANTS") \subseteq Filled("PROG_NAME")
                                              \cup {"prog_name", "prog_selected"} \cup {}
      /\ Filled("PROG_WEIGHTS") \subseteq Filled("PROG_PARTICIPANTS") \cup {"prog_weights"} \cup {}
      /\ Filled("PROG_CARD") \subseteq Filled("PROG_WEIGHTS") \cup {} \cup {}
      /\ Filled("PROG_CONFIRM") \subseteq Filled("PROG_CARD") \cup {"prog_card"} \cup {}
    BY DEF Filled
<1>5. CASE ProgramsEntry
    BY <1>0, <1>1, <1>4, <1>5, CarriedOpen DEF ProgramsEntry, States, Rows
<1>6. CASE ProgramMenu
    BY <1>1, <1>2, <1>4, <1>6 DEF ProgramMenu, At
<1>7. CASE ProgNameReceived
    BY <1>1, <1>2, <1>4, <1>7 DEF ProgNameReceived, At
<1>8. CASE ProgParticipants
    <2>1. CASE data' = Defaulted(data, "prog_selected") /\ UNCHANGED <<state, made>>
        <3>1. state["program"] = "PROG_PARTICIPANTS"
            BY <1>8 DEF ProgParticipants, At
        <3> QED BY <1>0, <1>1, <2>1, <3>1, CarriedDefault DEF States
    <2>2. CASE /\ At("program", "PROG_PARTICIPANTS", "progparticipants_done")
               /\ Handle("program", {"prog_weights"}, {}, {}, {}, "PROG_WEIGHTS")
        BY <1>1, <1>2, <1>4, <2>2 DEF At
    <2> QED BY <1>8, <2>1, <2>2 DEF ProgParticipants
<1>9. CASE ProgWeightsDone
    BY <1>1, <1>2, <1>4, <1>9 DEF ProgWeightsDone, At
<1>10. CASE ProgCardReceived
    BY <1>1, <1>2, <1>4, <1>10 DEF ProgCardReceived, At
<1>11. CASE ConfirmProgram
    BY <1>0, <1>3, <1>11, CarriedCommit DEF ConfirmProgram
<1>12. CASE ProgChargeAmountReceived
    BY <1>3, <1>12 DEF ProgChargeAmountReceived
<1> QED BY <1>5, <1>6, <1>7, <1>8, <1>9, <1>10, <1>11, <1>12 DEF Program

\* members_conv and registration_conv, and what they leave of the others.
LEMMA OthersCarried ==
    ASSUME Typed, \A c \in Convs : Carried(c), Others
    PROVE  \A c \in Convs : Carried(c)'
<1>0. "members" \in Convs /\ "registration" \in Convs
    BY ConvsAre
<1>1. /\ {"MEM_MENU", "MEM_AWAIT"} \subseteq StatesOf["members"]
      /\ "REG_WEIGHT" \in StatesOf["registration"]
      /\ {} \in SUBSET KeysOf["members"] /\ {"mem_target_id"} \in SUBSET KeysOf["members"]
      /\ {} \in SUBSET KeysOf["registration"] /\ {"reg_card"} \in SUBSET KeysOf["registration"]
    BY KeysAre, StatesAre
<1>2. /\ Filled("MEM_MENU") = {} /\ Filled("MEM_AWAIT") = {"mem_target_id"}
      /\ Filled("REG_WEIGHT") \subseteq Filled("REG_CARD") \cup {"reg_card"} \cup {}
    BY DEF Filled
<1>3. ASSUME NEW c \in Convs, Frame(c), Carried(c)' PROVE \A b \in Convs : Carried(b)'
    BY <1>3, CarriedForeign DEF Frame, Touches
<1>4. ASSUME NEW w \in SUBSET KeysOf["members"], NEW first, NEW s \in StatesOf["members"],
             state["members"] # "closed",
             Filled(s) \subseteq Filled(state["members"]) \cup w \cup {},
             Handle("members", w, first, {}, {}, s)
      PROVE  \A b \in Convs : Carried(b)'
    <2>1. Frame("members") /\ Carried("members")'
        BY <1>0, <1>1, <1>4, HandleEffect, CarriedHandle
    <2> QED BY <1>0, <1>3, <2>1
<1>5. CASE MembersEntry
    <2>1. CASE state["members"] # "closed" /\ Handle("members", {}, {}, {}, {}, "MEM_MENU")
        BY <1>1, <1>2, <1>4, <2>1
    <2>2. CASE data' = Renewed("members", data) /\ Goto("members", "MEM_MENU") /\ UNCHANGED made
        <3>1. /\ state'["members"] = "MEM_MENU"
              /\ \A b \in Convs \ {"members"} : state'[b] = state[b]
            BY <1>0, <1>1, <2>2, GotoTyped
        <3>2. ASSUME NEW b \in Convs \ {"members"}, NEW k \in KeysOf[b] PROVE data'[k] = data[k]
            <4>1. k \notin KeysOf["members"] /\ k \in Keys
                BY <1>0, KeysDisjoint, KeysIncluded
            <4> QED BY <2>2, <4>1 DEF Renewed
        <3>3. Carried("members")'
            BY <1>2, <3>1 DEF Carried
        <3> QED BY <3>1, <3>2, <3>3, CarriedForeign
    <2> QED BY <1>5, <2>1, <2>2 DEF MembersEntry
<1>6. CASE MembersMenu
    <2>1. CASE /\ state["members"] = "MEM_MENU"
               /\ \E s \in {"MEM_MENU", "MEM_AWAIT"} :
                      Handle("members", {"mem_target_id"}, {}, {}, {}, s)
        BY <1>1, <1>2, <1>4, <2>1
    <2>2. CASE End("members", data)
        <3>1. /\ state'["members"] = "closed"
              /\ \A b \in Convs \ {"members"} :
                    state'[b] = state[b] /\ \A k \in KeysOf[b] : data'[k] = data[k]
            BY <1>0, <2>2, EndEffect
        <3>2. Carried("members")'
            BY <3>1 DEF Carried
        <3> QED BY <3>1, <3>2, CarriedForeign
    <2> QED BY <1>6, <2>1, <2>2 DEF MembersMenu, At
<1>7. CASE MemberEdited
    BY <1>1, <1>2, <1>4, <1>7 DEF MemberEdited, At
<1>8. CASE RegCardReceived
    <2>1. state["registration"] = "REG_CARD"
          /\ Handle("registration", {"reg_card"}, {}, {}, {}, "REG_WEIGHT")
        BY <1>8 DEF RegCardReceived, At
    <2>2. Frame("registration") /\ Carried("registration")'
        BY <1>0, <1>1, <1>2, <2>1, HandleEffect, CarriedHandle
    <2> QED BY <1>0, <1>3, <2>2
<1>9. CASE RegWeightReceived
    <2>1. Finish("registration")
        BY <1>9 DEF RegWeightReceived
    <2>2. Frame("registration") /\ Carried("registration")'
        BY <1>0, <2>1, FinishEffect, CarriedEnds
    <2> QED BY <1>0, <1>3, <2>2
<1> QED BY <1>5, <1>6, <1>7, <1>8, <1>9 DEF Others

LEMMA CarriedInit == Init => \A c \in Convs : Carried(c)
<1> SUFFICES ASSUME Init, NEW c \in Convs PROVE Carried(c)
    OBVIOUS
<1>1. PICK r \in {"closed"} \cup StatesOf["registration"] :
          state = [b \in Convs |-> IF b = "registration" THEN r ELSE "closed"]
    BY DEF Init
<1>2. CASE c # "registration"
    BY <1>1, <1>2 DEF Carried
<1>3. CASE c = "registration"
    <2>1. state[c] = r /\ state["registration"] = r
        BY <1>1, <1>3
    <2>2. r \in {"closed", "REG_CARD", "REG_WEIGHT"}
        BY StatesAre
    <2>3. "reg_user_id" \in Keys /\ "reg_card" \in Keys
        BY <1>3, KeysIncluded, KeysAre
    <2>4. /\ r # "closed" => data["reg_user_id"] = "own"
          /\ r = "REG_WEIGHT" => data["reg_card"] = "own"
        BY <2>1, <2>3 DEF Init
    <2>5. /\ Filled("REG_CARD") = {"reg_user_id"}
          /\ Filled("REG_WEIGHT") = {"reg_user_id", "reg_card"}
        BY DEF Filled
    <2> QED BY <2>1, <2>2, <2>4, <2>5 DEF Carried, WasWritten
<1> QED BY <1>2, <1>3

LEMMA CarriedNext ==
    Inv /\ (\A c \in Convs : Carried(c)) /\ [Next]_vars => (\A c \in Convs : Carried(c))'
<1> SUFFICES ASSUME Inv, \A c \in Convs : Carried(c), [Next]_vars
             PROVE  \A c \in Convs : Carried(c)'
    OBVIOUS
<1>0. Typed /\ "expense" \in Convs /\ "payment" \in Convs /\ "program" \in Convs
    BY ConvsAre DEF Inv
<1>1. ASSUME NEW c \in Convs, Frame(c), Carried(c)' PROVE \A b \in Convs : Carried(b)'
    BY <1>0, <1>1, CarriedForeign DEF Frame, Touches
<1>2. CASE Expense
    BY <1>0, <1>1, <1>2, ExpKeeps, ExpCarried DEF ExpStep, Inv
<1>3. CASE Payment
    BY <1>0, <1>1, <1>3, PayKeeps, PayCarried DEF PayStep, Inv
<1>4. CASE Program
    BY <1>0, <1>1, <1>4, ProgKeeps, ProgCarried DEF ProgStep, Inv
<1>5. CASE Others
    BY <1>0, <1>5, OthersCarried
<1>6. ASSUME NEW c \in Convs, NEW u \in Commands, CancelConversation(c, u)
      PROVE  \A b \in Convs : Carried(b)'
    <2>1. Frame(c) /\ Carried(c)'
        BY <1>0, <1>6, FinishEffect, CarriedEnds DEF CancelConversation
    <2> QED BY <1>1, <2>1
<1>7. CASE Restart
    BY <1>7 DEF Restart, Carried
<1>8. CASE UNCHANGED vars
    BY <1>8 DEF vars, Carried
<1> QED BY <1>2, <1>3, <1>4, <1>5, <1>6, <1>7, <1>8 DEF Next

\* For any number of conversations open at once, with retries, steps back and
\* failed answers: all that a state's handlers read without a default is there,
\* unless another conversation has cleared it (what expenses.py, payments.py and
\* programs.py read of user_data).
THEOREM NothingIsMissing == Spec => []NothingMissing
<1>1. Inv /\ (\A c \in Convs : Carried(c)) => NothingMissing
    BY CarriedMeansNothingMissing DEF Inv
<1> QED BY <1>1, CarriedInit, CarriedNext, InvAlways, PTL DEF Spec
=============================================================================

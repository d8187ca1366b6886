--------------------------- MODULE SimplifyDebts ---------------------------
(***************************************************************************)
(* simplify_debts as it runs: the two ranked lists, the two cursors and    *)
(* the transactions found so far, one step per pass through the loop.      *)
(* It starts from every assignment of net positions a ledger can have      *)
(* (they add up to 0) within MaxAmount.                                    *)
(***************************************************************************)
EXTENDS SplitEngine

CONSTANTS People, MaxAmount

ASSUME PeopleAssumption == IsFiniteSet(People) /\ People \subseteq Nat
ASSUME MaxAmountAssumption == MaxAmount \in Nat

VARIABLES positions,  \* the argument
          greedy      \* the locals: debtors, creditors, i, j, transactions

vars == <<positions, greedy>>

Balanced == { f \in [People -> -MaxAmount .. MaxAmount] : SumFunction(f) = 0 }

Init == /\ positions \in Balanced
        /\ greedy = GreedyStart(positions)

LoopPass == /\ GreedyRunning(greedy)
            /\ greedy' = GreedyBody(greedy)
            /\ UNCHANGED positions

Next == LoopPass

\* The loop is plain sequential code: it keeps running while its test holds.
Spec == Init /\ [][Next]_vars /\ WF_vars(LoopPass)

-----------------------------------------------------------------------------
Returned == ~GreedyRunning(greedy)

\* What p has paid, and got, in the transactions found so far.
Flow(p) ==
    LET signed(t) == IF t.from = p THEN t.amt ELSE IF t.to = p THEN -t.amt ELSE 0
    IN  SumFunction([k \in DOMAIN greedy.transactions |-> signed(greedy.transactions[k])])

\* The position p is left with once the transactions are carried out: computed
\* from the output, not from the loop's own lists.
LeftAfterOutput == [p \in People |-> positions[p] + Flow(p)]

Abstract == INSTANCE Settlement WITH left <- LeftAfterOutput

TypeOK ==
    LET Entries == [id : People, amt : 0 .. MaxAmount]
    IN  /\ positions \in Balanced
        /\ greedy.debtors \in Seq(Entries) /\ greedy.creditors \in Seq(Entries)
        /\ greedy.i \in 1 .. Len(greedy.debtors) + 1
        /\ greedy.j \in 1 .. Len(greedy.creditors) + 1
        /\ greedy.transactions \in Seq([from : People, to : People, amt : 1 .. MaxAmount])

\* Every pass is a legal transfer of the abstract settlement, seen through the
\* transactions handed back: nobody is told to pay more than they owe, and
\* nobody is sent more than they are owed (split_engine.py:153-166).
ImplementsSettlement == Abstract!Spec

\* "fully settles the group": when the loop ends, carrying out the list it
\* returns leaves nobody owing or owed anything (split_engine.py:135-143).
SettlesTheGroup == Returned => Abstract!AllSettled

\* "the smallest practical list": at most one transaction fewer than there are
\* people with a non-zero position (test_split_engine.py:102), and nobody is
\* asked both to pay and to be paid.
ShortPlan ==
    LET involved == { p \in People : positions[p] # 0 }
    IN  /\ greedy.transactions # <<>> =>
              Len(greedy.transactions) <= Cardinality(involved) - 1
        /\ \A s, t \in ToSet(greedy.transactions) : s.from # t.to

\* The loop ends: each pass uses up a debtor or a creditor, whatever the ties.
Terminates == <>Returned
=============================================================================

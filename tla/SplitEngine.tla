---------------------------- MODULE SplitEngine ----------------------------
(***************************************************************************)
(* The pure calculations of split_engine.py and the views balances.py      *)
(* derives from them: splitting a bill, the pairwise ledger, the netted    *)
(* pairs, the net positions, and the greedy settle-up plan.                *)
(*                                                                         *)
(* People and program pools ("program:<id>" in the code) are integers, so  *)
(* that the code's `sorted` and its tie-break by str(id) are both the      *)
(* numeric order; this holds for ids below 10, which is what the models    *)
(* use.  A defaultdict is a total function that starts at 0.               *)
(***************************************************************************)
EXTENDS Integers, Sequences, FiniteSets, FiniteSetsExt, Functions, SequencesExt

-----------------------------------------------------------------------------
(* calculate_shares *)

\* The weight that counts: "equal" ignores the profile, "weighted" is at least 1.
EffectiveWeight(mode, w) == IF mode = "equal" THEN 1 ELSE Max({1, w})

\* Everyone but the last (by id) gets the floor of their part; the last one
\* absorbs what is left of the total.
CalculateShares(total, weight, mode) ==
    LET people == DOMAIN weight
        wt     == [u \in people |-> EffectiveWeight(mode, weight[u])]
        floor  == [u \in people |-> (total * wt[u]) \div SumFunction(wt)]
        last   == Max(people)
    IN  [floor EXCEPT ![last] = total - SumFunctionOnSet(floor, people \ {last})]

-----------------------------------------------------------------------------
(* NetLedger: pairwise[<<i, j>>] is the gross amount i owes j *)

EmptyLedger(ids) == [p \in ids \X ids |-> 0]

AddExpenseDebt(pairwise, debtor, creditor, amount) ==
    IF amount <= 0 \/ debtor = creditor
    THEN pairwise
    ELSE [pairwise EXCEPT ![<<debtor, creditor>>] = @ + amount]

\* Mutant: a payment adds to the debt it should reduce.
AddPaymentAsDebt(pairwise, payer, payee, amount) ==
    AddExpenseDebt(pairwise, payer, payee, amount)

AddPayment(pairwise, payer, payee, amount) ==
    IF amount <= 0 \/ payer = payee
    THEN pairwise
    ELSE [pairwise EXCEPT ![<<payer, payee>>] = @ - amount]

\* An expense as build_ledger reads it: every share is owed to the creditor.
AddShares(pairwise, creditor, shares) ==
    FoldSet(LAMBDA u, l : AddExpenseDebt(l, u, creditor, shares[u]), pairwise, DOMAIN shares)

NetBetween(pairwise, a, b) == pairwise[<<a, b>>] - pairwise[<<b, a>>]

\* Mutant: a debt of the smallest amount is taken for none.
AllPairsAboveOne(pairwise) ==
    { <<p[1], p[2], NetBetween(pairwise, p[1], p[2])>> :
        p \in { q \in DOMAIN pairwise : NetBetween(pairwise, q[1], q[2]) > 1 } }

\* The netted debts, each pair of ids once: <<debtor, creditor, amount>>.
AllPairs(pairwise) ==
    { <<p[1], p[2], NetBetween(pairwise, p[1], p[2])>> :
        p \in { q \in DOMAIN pairwise : NetBetween(pairwise, q[1], q[2]) > 0 } }

\* Positive: the group owes this id; negative: it owes the group.
NetPositions(pairwise) ==
    LET ids == { p[1] : p \in DOMAIN pairwise }
    IN  [i \in ids |-> SumFunctionOnSet([j \in ids |-> pairwise[<<j, i>>]], ids)
                     - SumFunctionOnSet([j \in ids |-> pairwise[<<i, j>>]], ids)]

-----------------------------------------------------------------------------
(* simplify_debts: one state of the loop, and one pass through its body *)

\* Biggest amounts first, ties by id: the place of an entry is how many precede it.
Ranked(entries) ==
    LET preceding(x) == { y \in entries : y.amt > x.amt \/ (y.amt = x.amt /\ y.id < x.id) }
    IN  [k \in 1 .. Cardinality(entries) |->
            CHOOSE x \in entries : Cardinality(preceding(x)) = k - 1]

GreedyStart(positions) ==
    [ debtors      |-> Ranked({ [id |-> u, amt |-> -positions[u]] :
                                 u \in { v \in DOMAIN positions : positions[v] < 0 } }),
      creditors    |-> Ranked({ [id |-> u, amt |-> positions[u]] :
                                 u \in { v \in DOMAIN positions : positions[v] > 0 } }),
      i            |-> 1,
      j            |-> 1,
      transactions |-> <<>> ]

GreedyRunning(g) == g.i <= Len(g.debtors) /\ g.j <= Len(g.creditors)

\* One pass: the debtor under i pays the creditor under j.
Pass(g, pay, nextDebtor, nextCreditor) ==
    LET d == g.debtors[g.i]
        c == g.creditors[g.j]
    IN  [ debtors      |-> [g.debtors EXCEPT ![g.i].amt = @ - pay],
          creditors    |-> [g.creditors EXCEPT ![g.j].amt = @ - pay],
          i            |-> IF nextDebtor THEN g.i + 1 ELSE g.i,
          j            |-> IF nextCreditor THEN g.j + 1 ELSE g.j,
          transactions |-> IF pay > 0
                           THEN Append(g.transactions, [from |-> d.id, to |-> c.id, amt |-> pay])
                           ELSE g.transactions ]

\* Mutants: the whole debt whoever takes it; the two sides swapped; both move
\* on; one by one; a creditor who has got everything stays when the debtor stays.
GreedyBodyUnbounded(g) ==
    Pass(g, g.debtors[g.i].amt, TRUE, g.creditors[g.j].amt <= g.debtors[g.i].amt)
GreedyBodyOverpays(g) ==
    LET pay == Max({g.debtors[g.i].amt, g.creditors[g.j].amt}) IN Pass(g, pay, TRUE, TRUE)
GreedyBodySkips(g) ==
    LET pay == Min({g.debtors[g.i].amt, g.creditors[g.j].amt}) IN Pass(g, pay, TRUE, TRUE)
GreedyBodyInstalments(g) ==
    Pass(g, 1, g.debtors[g.i].amt = 1, g.creditors[g.j].amt = 1)
GreedyBodyStuck(g) ==
    LET pay == Min({g.debtors[g.i].amt, g.creditors[g.j].amt})
    IN  Pass(g, pay, g.debtors[g.i].amt = pay,
             g.creditors[g.j].amt = pay /\ g.debtors[g.i].amt = pay)

GreedyBody(g) ==
    LET owed == g.debtors[g.i].amt
        due  == g.creditors[g.j].amt
        pay  == Min({owed, due})
    IN  Pass(g, pay, owed = pay, due = pay)

\* What the loop returns.  Every pass moves i or j, so |positions| passes suffice.
SimplifyDebts(positions) ==
    LET passes == 0 .. Cardinality(DOMAIN positions)
        run[n \in passes] ==
            IF n = 0 THEN GreedyStart(positions)
            ELSE IF GreedyRunning(run[n - 1]) THEN GreedyBody(run[n - 1])
            ELSE run[n - 1]
    IN  run[Cardinality(DOMAIN positions)].transactions

-----------------------------------------------------------------------------
(* balances.py: programs are resolved to the admin who created them *)

\* creator maps each program pool to its creator; a person stands for themselves.
Resolve(creator, id) == IF id \in DOMAIN creator THEN creator[id] ELSE id

\* personal_balance: the netted pairs the user is a side of, as
\* [other, amount, iOwe]; `pool` tells a program's line from a direct one.
PersonalBalance(pairwise, creator, user) ==
    { [other |-> Resolve(creator, t[2]), pool |-> t[2], amount |-> t[3], iOwe |-> TRUE] :
        t \in { s \in AllPairs(pairwise) : s[1] = user } }
    \cup
    { [other |-> Resolve(creator, t[1]), pool |-> t[1], amount |-> t[3], iOwe |-> FALSE] :
        t \in { s \in AllPairs(pairwise) : s[2] = user /\ s[1] # user } }

\* Mutant: the pools keep positions of their own.
UnmergedPositions(pairwise, creator) == NetPositions(pairwise)

\* group_report: every pool's position is merged into its creator's.
MergedPositions(pairwise, creator) ==
    LET raw    == NetPositions(pairwise)
        people == DOMAIN raw \ DOMAIN creator
        pools(u) == { q \in DOMAIN creator : creator[q] = u }
    IN  [u \in people |-> raw[u] + SumFunctionOnSet(raw, pools(u))]

SettlementPlan(pairwise, creator) == SimplifyDebts(MergedPositions(pairwise, creator))
=============================================================================

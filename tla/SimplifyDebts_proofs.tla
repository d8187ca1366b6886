------------------------ MODULE SimplifyDebts_proofs ------------------------
(***************************************************************************)
(* simplify_debts for any group and any positions that add up to 0: what   *)
(* it hands back is short, settles the group, and every pass of the loop   *)
(* is a transfer the abstract settlement allows.  That the loop ends is    *)
(* left to TLC: it needs fairness.                                         *)
(*                                                                         *)
(* The properties speak of the positions and of the transactions only, so  *)
(* none of them is inductive: whether the next pass is right depends on    *)
(* the two lists.  GreedyInv (SplitEngine_proofs) says how lists, cursors, *)
(* positions and transactions hang together.                               *)
(***************************************************************************)
EXTENDS SimplifyDebts, SplitEngine_proofs

IInv == positions \in Balanced /\ GreedyInv(positions, greedy)

LEMMA BalancedPositions ==
  ASSUME NEW f \in Balanced
  PROVE  IsPositions(f) /\ DOMAIN f = People /\ f = [p \in People |-> f[p]]
         /\ \A p \in People : f[p] \in -MaxAmount .. MaxAmount /\ f[p] \in Int
BY PeopleAssumption, MaxAmountAssumption DEF Balanced, IsPositions

\* Flow reads the state; FlowOf is what it computes.
LEMMA FlowIs == \A p : Flow(p) = FlowOf(greedy.transactions, p)
BY DEF Flow, FlowOf, Signed, SumFunction

LEMMA InitInv == Init => IInv
<1> SUFFICES ASSUME Init PROVE IInv
  OBVIOUS
<1>1. positions \in Balanced /\ greedy = GreedyStart(positions)
  BY DEF Init
<1>2. GreedyInv(positions, GreedyStart(positions))
  BY <1>1, BalancedPositions, GreedyStarts
<1> QED BY <1>1, <1>2 DEF IInv

LEMMA NextInv == IInv /\ [Next]_vars => IInv'
<1> SUFFICES ASSUME IInv, [Next]_vars PROVE IInv'
  OBVIOUS
<1>1. CASE LoopPass
  <2>1. positions' = positions /\ greedy' = GreedyBody(greedy) /\ GreedyRunning(greedy)
    BY <1>1 DEF LoopPass
  <2>2. GreedyInv(positions, GreedyBody(greedy))
    BY <2>1, BalancedPositions, GreedySteps DEF IInv
  <2> QED BY <2>1, <2>2 DEF IInv
<1>2. CASE UNCHANGED vars
  BY <1>2 DEF vars, IInv
<1> QED BY <1>1, <1>2 DEF Next

\* After any number of passes the lists, the cursors and the transactions are what
\* GreedyInv says of the positions the loop was given (split_engine.py:144-168).
THEOREM LoopInvariant == Spec => []IInv
<1> QED BY InitInv, NextInv, PTL DEF Spec

-----------------------------------------------------------------------------
\* Amounts and cursors stay within what the positions allow.
LEMMA InvTypes == IInv => TypeOK
<1> SUFFICES ASSUME IInv PROVE TypeOK
  OBVIOUS
<1> DEFINE D == greedy.debtors
           C == greedy.creditors
           T == greedy.transactions
           Entries == [id : People, amt : 0 .. MaxAmount]
           Transfers == [from : People, to : People, amt : 1 .. MaxAmount]
<1>1. /\ positions \in Balanced /\ IsPositions(positions)
      /\ \A p \in People : positions[p] \in -MaxAmount .. MaxAmount /\ positions[p] \in Int
      /\ Owing(positions) \subseteq People /\ Owed(positions) \subseteq People
  BY BalancedPositions DEF IInv, Owing, Owed
<1>2. /\ Listed(D, Owing(positions)) /\ Listed(C, Owed(positions))
      /\ UsedUp(D, greedy.i) /\ UsedUp(C, greedy.j)
      /\ \A k \in DOMAIN D : D[k].amt <= -positions[D[k].id]
      /\ \A k \in DOMAIN C : C[k].amt <= positions[C[k].id]
      /\ \A k \in DOMAIN T : T[k].amt <= positions[T[k].to]
      /\ T \in Seq([from : Owing(positions), to : Owed(positions), amt : Nat \ {0}])
  BY DEF IInv, GreedyInv, GreedyLists, Greedies
<1> HIDE DEF D, C, T
<1>3. D \in Seq(Entries)
  <2>1. /\ Len(D) \in Nat /\ DOMAIN D = 1 .. Len(D) /\ D = [k \in 1 .. Len(D) |-> D[k]]
        /\ \A k \in DOMAIN D : /\ D[k].id \in Owing(positions) /\ D[k].amt \in Nat
                               /\ D[k] = [id |-> D[k].id, amt |-> D[k].amt]
    BY <1>2, ListedEntries
  <2>2. ASSUME NEW k \in 1 .. Len(D) PROVE D[k] \in Entries
    <3>1. D[k] = [id |-> D[k].id, amt |-> D[k].amt] /\ D[k].id \in Owing(positions)
          /\ D[k].amt \in Nat
      BY <2>1
    <3>2. D[k].id \in People /\ positions[D[k].id] \in -MaxAmount .. MaxAmount
      BY <1>1, <3>1
    <3>3. D[k].amt <= -positions[D[k].id]
      BY <1>2, <2>1
    <3>4. D[k].amt \in 0 .. MaxAmount
      BY <3>1, <3>2, <3>3, MaxAmountAssumption
    <3> QED BY <3>1, <3>2, <3>4
  <2> HIDE DEF Entries
  <2> QED BY <2>1, <2>2, ToSeq
<1>4. C \in Seq(Entries)
  <2>1. /\ Len(C) \in Nat /\ DOMAIN C = 1 .. Len(C) /\ C = [k \in 1 .. Len(C) |-> C[k]]
        /\ \A k \in DOMAIN C : /\ C[k].id \in Owed(positions) /\ C[k].amt \in Nat
                               /\ C[k] = [id |-> C[k].id, amt |-> C[k].amt]
    BY <1>2, ListedEntries
  <2>2. ASSUME NEW k \in 1 .. Len(C) PROVE C[k] \in Entries
    <3>1. C[k] = [id |-> C[k].id, amt |-> C[k].amt] /\ C[k].id \in Owed(positions)
          /\ C[k].amt \in Nat
      BY <2>1
    <3>2. C[k].id \in People /\ positions[C[k].id] \in -MaxAmount .. MaxAmount
      BY <1>1, <3>1
    <3>3. C[k].amt <= positions[C[k].id]
      BY <1>2, <2>1
    <3>4. C[k].amt \in 0 .. MaxAmount
      BY <3>1, <3>2, <3>3, MaxAmountAssumption
    <3> QED BY <3>1, <3>2, <3>4
  <2> HIDE DEF Entries
  <2> QED BY <2>1, <2>2, ToSeq
<1>5. T \in Seq(Transfers)
  <2> DEFINE A == [from : Owing(positions), to : Owed(positions), amt : Nat \ {0}]
  <2>0. T \in Seq(A)
    BY <1>2
  <2>f. \A x \in A : /\ x = [from |-> x.from, to |-> x.to, amt |-> x.amt]
                     /\ x.from \in People /\ x.to \in People /\ x.amt \in Nat \ {0}
    BY <1>1
  <2> HIDE DEF A
  <2>1. /\ Len(T) \in Nat /\ DOMAIN T = 1 .. Len(T) /\ T = [k \in 1 .. Len(T) |-> T[k]]
        /\ \A k \in 1 .. Len(T) : T[k] \in A
    BY <2>0, SeqFunction
  <2>2. ASSUME NEW k \in 1 .. Len(T) PROVE T[k] \in Transfers
    <3>1. /\ T[k] = [from |-> T[k].from, to |-> T[k].to, amt |-> T[k].amt]
          /\ T[k].from \in People /\ T[k].to \in People /\ T[k].amt \in Nat \ {0}
      BY <2>1, <2>f
    <3>2. T[k].amt <= positions[T[k].to] /\ positions[T[k].to] \in -MaxAmount .. MaxAmount
      BY <1>1, <1>2, <2>1, <3>1
    <3>3. T[k].amt \in 1 .. MaxAmount
      BY <3>1, <3>2, MaxAmountAssumption
    <3> QED BY <3>1, <3>3
  <2> HIDE DEF Transfers
  <2> QED BY <2>1, <2>2, ToSeq
<1>6. greedy.i \in 1 .. Len(D) + 1 /\ greedy.j \in 1 .. Len(C) + 1
  BY <1>2 DEF UsedUp
<1> QED BY <1>1, <1>3, <1>4, <1>5, <1>6 DEF TypeOK, D, C, T

\* No amount exceeds the largest position, and the cursors stay at the lists.
THEOREM LoopTypes == Spec => []TypeOK
<1> QED BY LoopInvariant, InvTypes, PTL

LEMMA InvSettles == IInv => SettlesTheGroup
<1> SUFFICES ASSUME IInv, Returned, NEW p \in People PROVE LeftAfterOutput[p] = 0
  BY DEF SettlesTheGroup, Abstract!AllSettled
<1>1. IsPositions(positions) /\ DOMAIN positions = People
  BY BalancedPositions DEF IInv
<1>2. GreedyInv(positions, greedy) /\ ~GreedyRunning(greedy)
  BY DEF IInv, Returned
<1>3. positions[p] + FlowOf(greedy.transactions, p) = 0
  BY <1>1, <1>2, GreedyEnds
<1> QED BY <1>3, FlowIs DEF LeftAfterOutput

\* "Fully settles the group" (split_engine.py:135-143), whoever they are and
\* whatever they owe: carrying out the list leaves everybody at 0.
THEOREM AlwaysSettles == Spec => []SettlesTheGroup
<1> QED BY LoopInvariant, InvSettles, PTL

LEMMA InvShort == IInv => ShortPlan
<1> SUFFICES ASSUME IInv PROVE ShortPlan
  OBVIOUS
<1> DEFINE T == greedy.transactions
           involved == { p \in People : positions[p] # 0 }
<1>1. IsPositions(positions) /\ DOMAIN positions = People
  BY BalancedPositions DEF IInv
<1>2. GreedyInv(positions, greedy)
  BY DEF IInv
<1>3. T # <<>> => Len(T) <= Cardinality(involved) - 1
  <2>1. involved = { p \in DOMAIN positions : positions[p] # 0 }
    BY <1>1
  <2> HIDE DEF involved
  <2> QED BY <1>1, <1>2, <2>1, GreedyBounds
<1>4. \A s, t \in ToSet(T) : s.from # t.to
  <2> DEFINE A == [from : Owing(positions), to : Owed(positions), amt : Nat \ {0}]
  <2>1. T \in Seq(A)
    BY <1>2 DEF GreedyInv, Greedies
  <2>2. \A s, t \in A : s.from # t.to
    <3>1. Owing(positions) \cap Owed(positions) = {}
      BY <1>1 DEF Owing, Owed, IsPositions
    <3>2. \A s \in A : s.from \in Owing(positions) /\ s.to \in Owed(positions)
      OBVIOUS
    <3> QED BY <3>1, <3>2
  <2> HIDE DEF A
  <2>3. \A s \in ToSet(T) : s \in A
    BY <2>1, SeqFunction DEF ToSet
  <2> QED BY <2>2, <2>3
<1> QED BY <1>3, <1>4 DEF ShortPlan

\* One transaction fewer than people who take part, at most, and nobody both
\* pays and is paid: for a group of any size.
THEOREM AlwaysShort == Spec => []ShortPlan
<1> QED BY LoopInvariant, InvShort, PTL

-----------------------------------------------------------------------------
LEMMA InitSettlement == Init => Abstract!Init
<1> SUFFICES ASSUME Init PROVE Abstract!Init
  OBVIOUS
<1>1. positions \in Balanced /\ greedy = GreedyStart(positions)
  BY DEF Init
<1>2. \A p \in People : positions[p] \in -MaxAmount .. MaxAmount /\ positions[p] \in Int
  BY <1>1, BalancedPositions
<1>3. greedy.transactions = <<>>
  BY <1>1 DEF GreedyStart
<1>4. \A p : FlowOf(greedy.transactions, p) = 0
  BY <1>3, FlowEmpty
<1>5. \A p \in People : LeftAfterOutput[p] = positions[p]
  BY <1>2, <1>4, FlowIs DEF LeftAfterOutput
<1>6. LeftAfterOutput = [p \in People |-> LeftAfterOutput[p]]
  BY DEF LeftAfterOutput
<1> QED BY <1>2, <1>5, <1>6 DEF Abstract!Init

\* One pass moves what is paid from the one who pays to the one who is paid.
LEMMA PassIsTransfer == IInv /\ LoopPass => Abstract!Next
<1> SUFFICES ASSUME IInv, LoopPass PROVE Abstract!Next
  OBVIOUS
<1> DEFINE g   == greedy
           f   == g.debtors[g.i].id
           t   == g.creditors[g.j].id
           owed == g.debtors[g.i].amt
           due  == g.creditors[g.j].amt
           pay == Min({owed, due})
           x   == [from |-> f, to |-> t, amt |-> pay]
           L   == LeftAfterOutput
<1>1. /\ IsPositions(positions) /\ DOMAIN positions = People
      /\ \A p \in People : positions[p] \in -MaxAmount .. MaxAmount /\ positions[p] \in Int
  BY BalancedPositions DEF IInv
<1>2. GreedyInv(positions, g) /\ GreedyRunning(g) /\ g' = GreedyBody(g) /\ positions' = positions
  BY DEF IInv, LoopPass
<1>3. /\ g.i \in DOMAIN g.debtors /\ g.j \in DOMAIN g.creditors
      /\ f \in Owing(positions) /\ t \in Owed(positions)
      /\ owed \in Nat \ {0} /\ due \in Nat \ {0} /\ pay \in Nat \ {0} /\ pay <= owed /\ pay <= due
      /\ GreedyBody(g) =
           [ debtors      |-> Take(g.debtors, g.i, pay),
             creditors    |-> Take(g.creditors, g.j, pay),
             i            |-> After(g.debtors, g.i, pay),
             j            |-> After(g.creditors, g.j, pay),
             transactions |-> Append(g.transactions, x) ]
  BY <1>1, <1>2, GreedyPass, Zenon
<1>4. g'.transactions = Append(g.transactions, x)
  BY <1>2, <1>3
<1>5. f \in People /\ t \in People /\ f # t
  BY <1>1, <1>3 DEF Owing, Owed
<1>6. /\ positions[f] + FlowOf(g.transactions, f) = -owed
      /\ positions[t] + FlowOf(g.transactions, t) = due
  BY <1>2, <1>3 DEF GreedyInv, GreedyFlow
<1>7. due <= positions[t]
  BY <1>2, <1>3 DEF GreedyInv, GreedyLists
<1> HIDE DEF f, t, owed, due, pay
<1>8. pay \in 1 .. MaxAmount
  BY <1>1, <1>3, <1>5, <1>7, MaxAmountAssumption
<1>9. \A p : /\ FlowOf(g.transactions, p) \in Int
             /\ FlowOf(Append(g.transactions, x), p) = FlowOf(g.transactions, p) + Signed(x, p)
  <2>1. g.transactions \in Seq([from : Owing(positions), to : Owed(positions), amt : Nat \ {0}])
    BY <1>2 DEF GreedyInv, Greedies
  <2>2. x \in [from : Owing(positions), to : Owed(positions), amt : Nat \ {0}]
    BY <1>3
  <2> HIDE DEF x
  <2> QED BY <2>1, <2>2, FlowAppend
<1>10. \A p : Signed(x, p) = IF p = f THEN pay ELSE IF p = t THEN -pay ELSE 0
  BY <1>5 DEF Signed
<1>11. L = [p \in People |-> L[p]] /\ \A p \in People : L[p] = positions[p] + FlowOf(g.transactions, p)
  BY FlowIs DEF LeftAfterOutput
<1>12. L' = [p \in People |-> positions[p] + FlowOf(Append(g.transactions, x), p)]
  <2>1. \A p : Flow(p)' = FlowOf(g'.transactions, p)
    BY DEF Flow, FlowOf, Signed, SumFunction
  <2> QED BY <1>2, <1>4, <2>1 DEF LeftAfterOutput
<1> HIDE DEF x, L
<1>13. L[f] + pay <= 0 /\ L[t] - pay >= 0
  BY <1>3, <1>5, <1>6, <1>11
<1>14. L' = [L EXCEPT ![f] = @ + pay, ![t] = @ - pay]
  <2>1. [L EXCEPT ![f] = @ + pay, ![t] = @ - pay]
          = [p \in People |-> IF p = t THEN L[t] - pay ELSE IF p = f THEN L[f] + pay ELSE L[p]]
    BY <1>5, <1>11
  <2>2. ASSUME NEW p \in People
        PROVE  positions[p] + FlowOf(Append(g.transactions, x), p)
                 = IF p = t THEN L[t] - pay ELSE IF p = f THEN L[f] + pay ELSE L[p]
    <3>1. /\ positions[p] \in Int /\ FlowOf(g.transactions, p) \in Int /\ pay \in Int
          /\ L[p] = positions[p] + FlowOf(g.transactions, p)
          /\ FlowOf(Append(g.transactions, x), p) = FlowOf(g.transactions, p) + Signed(x, p)
      BY <1>1, <1>3, <1>9, <1>11
    <3>2. CASE p = f
      BY <1>5, <1>10, <3>1, <3>2
    <3>3. CASE p = t
      BY <1>5, <1>10, <3>1, <3>3
    <3>4. CASE p # f /\ p # t
      BY <1>10, <3>1, <3>4
    <3> QED BY <3>2, <3>3, <3>4
  <2> QED BY <1>12, <2>1, <2>2
<1> QED BY <1>5, <1>8, <1>13, <1>14 DEF Abstract!Next, Abstract!Transfer, L

\* simplify_debts is one way of settling: every pass is a transfer from somebody
\* who still owes to somebody who is still owed (split_engine.py:153-166).
THEOREM LoopSettles == Spec => ImplementsSettlement
<1>1. IInv /\ [Next]_vars => [Abstract!Next]_LeftAfterOutput
  <2> SUFFICES ASSUME IInv, [Next]_vars PROVE [Abstract!Next]_LeftAfterOutput
    OBVIOUS
  <2>1. CASE LoopPass
    BY <2>1, PassIsTransfer
  <2>2. CASE UNCHANGED vars
    BY <2>2 DEF vars, LeftAfterOutput, Flow
  <2> QED BY <2>1, <2>2 DEF Next
<1> QED BY <1>1, InitSettlement, LoopInvariant, PTL DEF Spec, ImplementsSettlement, Abstract!Spec
=============================================================================

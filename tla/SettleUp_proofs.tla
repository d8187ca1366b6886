--------------------------- MODULE SettleUp_proofs ---------------------------
(***************************************************************************)
(* The ledger, the two views of it and the plan, for any group, any        *)
(* programs and any amounts.  First what the views compute from a ledger,  *)
(* then how a payment changes them, then the plan and the specification.   *)
(***************************************************************************)
EXTENDS SettleUp, SplitEngine_proofs

Ledgers == [Ids \X Ids -> Int]

LEMMA IdsFacts ==
  /\ IsFiniteSet(Ids) /\ Ids \subseteq Int /\ Members \in SUBSET Ids /\ Pools \in SUBSET Ids
  /\ Ids = Members \cup Pools /\ Members \cap Pools = {}
  /\ IsFiniteSet(Members) /\ IsFiniteSet(Pools)
  /\ \A q \in Pools : Creator[q] \in Members
  /\ Members = Ids \ Pools
<1>1. Members \in SUBSET Ids /\ Pools \in SUBSET Ids /\ Ids = Members \cup Pools
  BY DEF Ids
<1>2. IsFiniteSet(Ids) /\ Ids \subseteq Int /\ Members \cap Pools = {}
      /\ \A q \in Pools : Creator[q] \in Members
  BY IdsAssumption
<1>3. IsFiniteSet(Members) /\ IsFiniteSet(Pools)
  BY <1>1, <1>2, FS_Subset
<1> QED BY <1>1, <1>2, <1>3

-----------------------------------------------------------------------------
(* The net positions *)

\* What v gets from j, netted.
LEMMA NetFacts ==
  ASSUME NEW pw \in Ledgers, NEW a \in Ids, NEW b \in Ids
  PROVE  /\ pw[<<a, b>>] \in Int /\ NetBetween(pw, a, b) \in Int
         /\ NetBetween(pw, a, b) = pw[<<a, b>>] - pw[<<b, a>>]
         /\ NetBetween(pw, b, a) = -NetBetween(pw, a, b)
<1>1. pw[<<a, b>>] \in Int /\ pw[<<b, a>>] \in Int
  BY DEF Ledgers
<1> QED BY <1>1 DEF NetBetween

Nets(pw, v) == [j \in Ids |-> NetBetween(pw, j, v)]

\* A position is what everybody owes, less what is owed to everybody: the sum of
\* the netted pairs.
LEMMA PositionIsNets ==
  ASSUME NEW pw \in Ledgers
  PROVE  /\ DOMAIN NetPositions(pw) = Ids
         /\ \A v \in Ids : /\ IsSummable(Nets(pw, v), Ids)
                           /\ NetPositions(pw)[v] = SumFunctionOnSet(Nets(pw, v), Ids)
                           /\ NetPositions(pw)[v] \in Int
<1> DEFINE dom == { p[1] : p \in DOMAIN pw }
           raw == NetPositions(pw)
           got(v)  == [j \in Ids |-> pw[<<j, v>>]]
           paid(v) == [j \in Ids |-> pw[<<v, j>>]]
<1>1. dom = Ids
  <2>1. DOMAIN pw = Ids \X Ids
    BY DEF Ledgers
  <2>2. \A p \in Ids \X Ids : p[1] \in Ids
    OBVIOUS
  <2>3. \A i \in Ids : <<i, i>> \in Ids \X Ids /\ <<i, i>>[1] = i
    OBVIOUS
  <2>4. dom \subseteq Ids
    BY <2>1, <2>2
  <2>5. \A i \in Ids : i \in dom
    BY <2>1, <2>3
  <2> QED BY <2>4, <2>5
<1>2. raw = [i \in dom |-> SumFunctionOnSet([j \in dom |-> pw[<<j, i>>]], dom)
                         - SumFunctionOnSet([j \in dom |-> pw[<<i, j>>]], dom)]
  BY DEF NetPositions
<1> HIDE DEF dom, raw
<1>3. raw = [i \in Ids |-> SumFunctionOnSet(got(i), Ids) - SumFunctionOnSet(paid(i), Ids)]
  BY <1>1, <1>2, Zenon
<1>4. ASSUME NEW v \in Ids
      PROVE  /\ IsSummable(Nets(pw, v), Ids)
             /\ raw[v] = SumFunctionOnSet(Nets(pw, v), Ids)
             /\ raw[v] \in Int
  <2> DEFINE f == got(v)
             g == paid(v)
             h == Nets(pw, v)
  <2>1. \A j \in Ids : /\ f[j] = pw[<<j, v>>] /\ g[j] = pw[<<v, j>>]
                       /\ h[j] = NetBetween(pw, j, v)
    BY DEF Nets
  <2>2. raw[v] = SumFunctionOnSet(f, Ids) - SumFunctionOnSet(g, Ids)
    BY <1>3
  <2> HIDE DEF f, g, h
  <2>3. \A j \in Ids : f[j] \in Int /\ g[j] \in Int /\ h[j] = f[j] - g[j]
    BY <2>1, NetFacts
  <2>4. IsSummable(f, Ids) /\ IsSummable(g, Ids)
    BY <2>3, IdsFacts DEF IsSummable
  <2>5. IsSummable(h, Ids)
        /\ SumFunctionOnSet(h, Ids) = SumFunctionOnSet(f, Ids) - SumFunctionOnSet(g, Ids)
    <3>1. \A j \in Ids : h[j] = f[j] - g[j]
      BY <2>3
    <3> QED BY <2>4, <3>1, SumMinus
  <2>6. SumFunctionOnSet(h, Ids) \in Int
    BY <2>5, SumInt
  <2> QED BY <2>2, <2>5, <2>6 DEF h
<1>5. DOMAIN raw = Ids
  BY <1>3
<1> QED BY <1>4, <1>5 DEF raw

\* What one is owed somebody owes: positions add up to 0.
LEMMA PositionsAddUp ==
  ASSUME NEW pw \in Ledgers
  PROVE  /\ IsSummable(NetPositions(pw), Ids)
         /\ SumFunctionOnSet(NetPositions(pw), Ids) = 0
<1> DEFINE raw == NetPositions(pw)
           f == [p \in Ids \X Ids |-> NetBetween(pw, p[2], p[1])]
           line(i) == [j \in Ids |-> f[<<i, j>>]]
           column(j) == [i \in Ids |-> f[<<i, j>>]]
           row == [i \in Ids |-> SumFunctionOnSet(line(i), Ids)]
           col == [j \in Ids |-> SumFunctionOnSet(column(j), Ids)]
<1>1. \A i, j \in Ids : f[<<i, j>>] = NetBetween(pw, j, i)
  OBVIOUS
<1>2. /\ \A i \in Ids : row[i] = SumFunctionOnSet(line(i), Ids)
      /\ \A j \in Ids : col[j] = SumFunctionOnSet(column(j), Ids)
      /\ \A i, j \in Ids : line(i)[j] = f[<<i, j>>] /\ column(j)[i] = f[<<i, j>>]
  OBVIOUS
<1>3. \A i, j \in Ids : f[<<i, j>>] \in Int
  BY <1>1, NetFacts
<1>4. IsSummable(row, Ids) /\ IsSummable(col, Ids)
      /\ SumFunctionOnSet(row, Ids) = SumFunctionOnSet(col, Ids)
  <2>1. IsFiniteSet(Ids)
    BY IdsFacts
  <2> HIDE DEF f
  <2> QED BY <1>3, <2>1, SumSwap
<1> HIDE DEF f, row, col, line, column
<1>5. \A i \in Ids : row[i] = raw[i]
  <2> SUFFICES ASSUME NEW i \in Ids PROVE row[i] = raw[i]
    OBVIOUS
  <2>1. \A j \in Ids : line(i)[j] = Nets(pw, i)[j]
    BY <1>1, <1>2 DEF Nets
  <2>2. IsSummable(Nets(pw, i), Ids) /\ raw[i] = SumFunctionOnSet(Nets(pw, i), Ids)
    BY PositionIsNets
  <2>3. SumFunctionOnSet(line(i), Ids) = SumFunctionOnSet(Nets(pw, i), Ids)
    BY <2>1, <2>2, SumEqual
  <2> QED BY <1>2, <2>2, <2>3
<1>6. \A i \in Ids : raw[i] \in Int /\ col[i] = 0 - raw[i]
  <2> SUFFICES ASSUME NEW i \in Ids PROVE raw[i] \in Int /\ col[i] = 0 - raw[i]
    OBVIOUS
  <2>1. ASSUME NEW j \in Ids PROVE column(i)[j] = (-1) * Nets(pw, i)[j]
    <3>1. column(i)[j] = NetBetween(pw, i, j) /\ Nets(pw, i)[j] = NetBetween(pw, j, i)
      BY <1>1, <1>2 DEF Nets
    <3>2. NetBetween(pw, i, j) = -NetBetween(pw, j, i) /\ NetBetween(pw, j, i) \in Int
      BY NetFacts
    <3> QED BY <3>1, <3>2
  <2>2. IsSummable(Nets(pw, i), Ids) /\ raw[i] = SumFunctionOnSet(Nets(pw, i), Ids)
        /\ raw[i] \in Int
    BY PositionIsNets
  <2> DEFINE c == -1
  <2>3. c \in Int /\ \A j \in Ids : column(i)[j] = c * Nets(pw, i)[j]
    BY <2>1
  <2> HIDE DEF c
  <2>4. SumFunctionOnSet(column(i), Ids) = c * SumFunctionOnSet(Nets(pw, i), Ids)
    BY <2>2, <2>3, SumScaled
  <2>5. col[i] = c * raw[i]
    BY <1>2, <2>2, <2>4
  <2> QED BY <2>2, <2>5 DEF c
<1> HIDE DEF raw
<1>7. IsSummable(raw, Ids)
  BY <1>6, IdsFacts DEF IsSummable
<1>8. SumFunctionOnSet(row, Ids) = SumFunctionOnSet(raw, Ids)
  BY <1>5, <1>7, SumEqual
<1>9. SumFunctionOnSet(row, Ids) = SumFunctionOnSet(raw, Ids) /\ SumFunctionOnSet(raw, Ids) \in Int
  BY <1>7, <1>8, SumInt
<1>10. SumFunctionOnSet(col, Ids) + SumFunctionOnSet(raw, Ids) = 0
  <2> DEFINE zero == [i \in Ids |-> 0]
  <2>1. \A i \in Ids : zero[i] = 0
    OBVIOUS
  <2> HIDE DEF zero
  <2>2. \A i \in Ids : zero[i] = col[i] + raw[i]
    BY <1>6, <2>1
  <2>3. SumFunctionOnSet(zero, Ids) = SumFunctionOnSet(col, Ids) + SumFunctionOnSet(raw, Ids)
    BY <1>4, <1>7, <2>2, SumOfSums
  <2>4. SumFunctionOnSet(zero, Ids) = 0 * Cardinality(Ids)
    <3>1. IsFiniteSet(Ids) /\ 0 \in Int
      BY IdsFacts
    <3> QED BY <2>1, <3>1, SumConstant
  <2>5. Cardinality(Ids) \in Nat
    BY IdsFacts, FS_CardinalityType
  <2> QED BY <2>3, <2>4, <2>5
<1> QED BY <1>4, <1>7, <1>9, <1>10 DEF raw

-----------------------------------------------------------------------------
(* The two views *)

PoolsOf(u) == { q \in Pools : Creator[q] = u }

LEMMA MergedFacts ==
  ASSUME NEW pw \in Ledgers
  PROVE  LET raw == NetPositions(pw)
             merged == MergedPositions(pw, Creator)
         IN  /\ DOMAIN merged = Members
             /\ \A u \in Members : /\ IsSummable(raw, PoolsOf(u))
                                   /\ merged[u] = raw[u] + SumFunctionOnSet(raw, PoolsOf(u))
                                   /\ merged[u] \in Int
<1> DEFINE raw == NetPositions(pw)
           merged == MergedPositions(pw, Creator)
<1>1. DOMAIN raw = Ids /\ IsSummable(raw, Ids)
  BY PositionIsNets, PositionsAddUp
<1>2. merged = [u \in DOMAIN raw \ DOMAIN Creator |->
                  raw[u] + SumFunctionOnSet(raw, { q \in DOMAIN Creator : Creator[q] = u })]
  BY DEF MergedPositions
<1>3. DOMAIN raw \ DOMAIN Creator = Members
  BY <1>1, IdsFacts DEF Pools
<1> HIDE DEF raw, merged
<1>4. merged = [u \in Members |-> raw[u] + SumFunctionOnSet(raw, PoolsOf(u))]
  BY <1>2, <1>3, Zenon DEF PoolsOf, Pools
<1>5. ASSUME NEW u \in Members
      PROVE  /\ IsSummable(raw, PoolsOf(u))
             /\ merged[u] = raw[u] + SumFunctionOnSet(raw, PoolsOf(u))
             /\ merged[u] \in Int
  <2>1. PoolsOf(u) \in SUBSET Ids /\ u \in Ids
    BY IdsFacts DEF PoolsOf
  <2>2. IsSummable(raw, PoolsOf(u)) /\ raw[u] \in Int
    BY <1>1, <2>1, SummableSubset DEF IsSummable
  <2>3. SumFunctionOnSet(raw, PoolsOf(u)) \in Int
    BY <2>2, SumInt
  <2> QED BY <1>4, <2>2, <2>3
<1>6. DOMAIN merged = Members
  BY <1>4
<1> QED BY <1>5, <1>6 DEF raw, merged

\* Merging loses nothing: the merged positions are what simplify_debts expects.
LEMMA MergedIsPositions ==
  ASSUME NEW pw \in Ledgers
  PROVE  IsPositions(MergedPositions(pw, Creator))
<1> DEFINE raw == NetPositions(pw)
           merged == MergedPositions(pw, Creator)
           part == [u \in Members |-> SumFunctionOnSet(raw, { q \in Pools : Creator[q] = u })]
<1>1. IsSummable(raw, Ids) /\ SumFunctionOnSet(raw, Ids) = 0
  BY PositionsAddUp
<1>2. /\ DOMAIN merged = Members
      /\ \A u \in Members : /\ merged[u] = raw[u] + SumFunctionOnSet(raw, PoolsOf(u))
                            /\ merged[u] \in Int
  BY MergedFacts
<1>3. \A u \in Members : part[u] = SumFunctionOnSet(raw, PoolsOf(u))
  BY DEF PoolsOf
<1> HIDE DEF raw, merged
<1>4. IsSummable(raw, Members) /\ IsSummable(raw, Pools)
  BY <1>1, IdsFacts, SummableSubset
<1>5. IsSummable(part, Members)
      /\ SumFunctionOnSet(part, Members) = SumFunctionOnSet(raw, Pools)
  <2>1. IsFiniteSet(Members) /\ \A q \in Pools : Creator[q] \in Members
    BY IdsFacts
  <2> QED BY <1>4, <2>1, SumPartition
<1> HIDE DEF part
<1>6. SumFunctionOnSet(merged, Members)
        = SumFunctionOnSet(raw, Members) + SumFunctionOnSet(part, Members)
  <2>1. \A u \in Members : merged[u] = raw[u] + part[u]
    BY <1>2, <1>3
  <2> QED BY <1>4, <1>5, <2>1, SumOfSums
<1>7. SumFunctionOnSet(raw, Ids) = SumFunctionOnSet(raw, Members) + SumFunctionOnSet(raw, Pools)
  <2>1. SumFunctionOnSet(raw, Members \cup Pools)
          = SumFunctionOnSet(raw, Members) + SumFunctionOnSet(raw, Pools)
    BY <1>4, IdsFacts, SumUnion
  <2>2. SumFunctionOnSet(raw, Members \cup Pools) = SumFunctionOnSet(raw, Ids)
    BY IdsFacts, Zenon
  <2> QED BY <2>1, <2>2
<1>8. SumFunction(merged) = 0
  <2>1. SumFunction(merged) = SumFunctionOnSet(merged, Members)
    BY <1>2, Zenon DEF SumFunction
  <2> QED BY <1>1, <1>5, <1>6, <1>7, <2>1
<1>9. IsFiniteSet(Members) /\ Members \subseteq Int
  BY IdsFacts
<1> QED BY <1>2, <1>8, <1>9 DEF IsPositions, merged

\* The lines of v's own view, and what they add up to: v's position.
Lines(pw, v) == { t \in AllPairs(pw) : t[1] = v \/ t[2] = v }
ShownBy(pw, v) == SumFunction([t \in Lines(pw, v) |-> IF t[2] = v THEN t[3] ELSE -t[3]])

LEMMA PairFacts ==
  ASSUME NEW pw \in Ledgers
  PROVE  /\ \A t \in AllPairs(pw) :
              \E a, b \in Ids : t = <<a, b, NetBetween(pw, a, b)>> /\ NetBetween(pw, a, b) > 0
         /\ \A a, b \in Ids : NetBetween(pw, a, b) > 0
              => <<a, b, NetBetween(pw, a, b)>> \in AllPairs(pw)
<1>1. DOMAIN pw = Ids \X Ids
  BY DEF Ledgers
<1>2. ASSUME NEW t \in AllPairs(pw)
      PROVE  \E a, b \in Ids : t = <<a, b, NetBetween(pw, a, b)>> /\ NetBetween(pw, a, b) > 0
  <2>1. PICK p \in DOMAIN pw : t = <<p[1], p[2], NetBetween(pw, p[1], p[2])>>
                               /\ NetBetween(pw, p[1], p[2]) > 0
    BY DEF AllPairs
  <2>2. p[1] \in Ids /\ p[2] \in Ids
    BY <1>1
  <2> QED BY <2>1, <2>2
<1>3. ASSUME NEW a \in Ids, NEW b \in Ids, NetBetween(pw, a, b) > 0
      PROVE  <<a, b, NetBetween(pw, a, b)>> \in AllPairs(pw)
  <2> DEFINE p == <<a, b>>
  <2>1. p \in DOMAIN pw /\ p[1] = a /\ p[2] = b
    BY <1>1
  <2> HIDE DEF p
  <2>2. p \in { q \in DOMAIN pw : NetBetween(pw, q[1], q[2]) > 0 }
    BY <1>3, <2>1
  <2> QED BY <2>1, <2>2, Zenon DEF AllPairs
<1> QED BY <1>2, <1>3

LEMMA ShownIsPosition ==
  ASSUME NEW pw \in Ledgers, NEW v \in Ids
  PROVE  ShownBy(pw, v) = NetPositions(pw)[v]
<1> DEFINE f == Nets(pw, v)
           W == { j \in Ids : f[j] # 0 }
           g == [j \in W |-> IF f[j] > 0 THEN <<j, v, f[j]>> ELSE <<v, j, -f[j]>>]
           h == [t \in Lines(pw, v) |-> IF t[2] = v THEN t[3] ELSE -t[3]]
<1>1. IsSummable(f, Ids) /\ NetPositions(pw)[v] = SumFunctionOnSet(f, Ids)
  BY PositionIsNets
<1>2. \A j \in Ids : /\ f[j] = NetBetween(pw, j, v) /\ -f[j] = NetBetween(pw, v, j)
                     /\ f[j] \in Int
  BY NetFacts DEF Nets
<1>3. f[v] = 0
  BY <1>2
<1>4. W \in SUBSET Ids /\ \A j \in Ids \ W : f[j] = 0
  OBVIOUS
<1>5. \A j \in W : j \in Ids /\ j # v /\ f[j] # 0
  BY <1>3
<1>6. \A j \in W : g[j] = IF f[j] > 0 THEN <<j, v, f[j]>> ELSE <<v, j, -f[j]>>
  OBVIOUS
<1> HIDE DEF f, W, g
<1>7. /\ \A j \in W : f[j] > 0 => g[j] = <<j, v, f[j]>>
      /\ \A j \in W : ~(f[j] > 0) => g[j] = <<v, j, -f[j]>> /\ -f[j] > 0
  <2>1. \A j \in W : f[j] > 0 => g[j] = <<j, v, f[j]>>
    BY <1>6, Zenon
  <2>2. \A j \in W : ~(f[j] > 0) => g[j] = <<v, j, -f[j]>>
    BY <1>6, Zenon
  <2>3. \A j \in W : ~(f[j] > 0) => -f[j] > 0
    BY <1>2, <1>5
  <2> QED BY <2>1, <2>2, <2>3, Zenon
<1>8. SumFunctionOnSet(f, Ids) = SumFunctionOnSet(f, W) /\ IsSummable(f, W)
  BY <1>1, <1>4, SumSupport, SummableSubset
<1>9. { g[j] : j \in W } = Lines(pw, v)
  <2>1. ASSUME NEW j \in W PROVE g[j] \in Lines(pw, v)
    <3>1. CASE f[j] > 0
      <4>1. <<j, v, f[j]>> \in AllPairs(pw)
        BY <1>2, <1>5, <3>1, PairFacts
      <4> QED BY <1>7, <3>1, <4>1 DEF Lines
    <3>2. CASE ~(f[j] > 0)
      <4>1. <<v, j, -f[j]>> \in AllPairs(pw)
        BY <1>2, <1>5, <1>7, <3>2, PairFacts
      <4> QED BY <1>7, <3>2, <4>1 DEF Lines
    <3> QED BY <3>1, <3>2
  <2>2. ASSUME NEW t \in Lines(pw, v) PROVE \E j \in W : t = g[j]
    <3>1. t \in AllPairs(pw) /\ (t[1] = v \/ t[2] = v)
      BY DEF Lines
    <3>2. PICK a \in Ids, b \in Ids :
                 t = <<a, b, NetBetween(pw, a, b)>> /\ NetBetween(pw, a, b) > 0
      BY <3>1, PairFacts
    <3>3. a = v \/ b = v
      BY <3>1, <3>2
    <3>4. CASE b = v
      <4>1. f[a] = NetBetween(pw, a, b) /\ f[a] > 0
        BY <1>2, <3>2, <3>4
      <4>2. a \in W
        BY <1>2, <1>4, <4>1
      <4> QED BY <1>7, <3>2, <3>4, <4>1, <4>2
    <3>5. CASE a = v
      <4>1. -f[b] = NetBetween(pw, a, b) /\ -f[b] > 0
        BY <1>2, <3>2, <3>5
      <4>2. b \in W /\ ~(f[b] > 0)
        BY <1>2, <1>4, <4>1
      <4> QED BY <1>7, <3>2, <3>5, <4>1, <4>2
    <3> QED BY <3>3, <3>4, <3>5
  <2> QED BY <2>1, <2>2
<1>10. \A j \in W : h[g[j]] = f[j]
  <2> SUFFICES ASSUME NEW j \in W PROVE h[g[j]] = f[j]
    OBVIOUS
  <2>1. g[j] \in Lines(pw, v)
    BY <1>9
  <2>2. h[g[j]] = IF g[j][2] = v THEN g[j][3] ELSE -g[j][3]
    BY <2>1
  <2> HIDE DEF h
  <2>3. CASE f[j] > 0
    BY <1>7, <2>2, <2>3
  <2>4. CASE ~(f[j] > 0)
    <3>1. g[j][2] = j /\ g[j][3] = -f[j]
      BY <1>7, <2>4
    <3> QED BY <1>2, <1>5, <2>2, <3>1
  <2> QED BY <2>3, <2>4
<1>11. \A j, k \in W : g[j] = g[k] => j = k
  <2> SUFFICES ASSUME NEW j \in W, NEW k \in W, g[j] = g[k] PROVE j = k
    OBVIOUS
  <2>1. g[j] = <<j, v, f[j]>> \/ g[j] = <<v, j, -f[j]>>
    BY <1>7
  <2>2. g[k] = <<k, v, f[k]>> \/ g[k] = <<v, k, -f[k]>>
    BY <1>7
  <2>3. j # v /\ k # v
    BY <1>5
  <2> QED BY <2>1, <2>2, <2>3
<1> HIDE DEF h
<1>12. SumFunctionOnSet(h, { g[j] : j \in W }) = SumFunctionOnSet(f, W)
  BY <1>8, <1>10, <1>11, SumImage
<1>13. SumFunctionOnSet(h, Lines(pw, v)) = SumFunctionOnSet(f, W)
  BY <1>9, <1>12, Zenon
<1>14. ShownBy(pw, v) = SumFunctionOnSet(h, Lines(pw, v))
  BY DEF ShownBy, SumFunction, h
<1> QED BY <1>1, <1>8, <1>13, <1>14

-----------------------------------------------------------------------------
(* How the ledger changes *)

\* A payment from a to b takes a's position up and b's down, and no other.
LEMMA PaymentPositions ==
  ASSUME NEW pw \in Ledgers, NEW a \in Ids, NEW b \in Ids, a # b, NEW x \in Nat \ {0}
  PROVE  LET new == AddPayment(pw, a, b, x)
             raw == NetPositions(pw)
         IN  /\ new \in Ledgers
             /\ NetPositions(new)[a] = raw[a] + x
             /\ NetPositions(new)[b] = raw[b] - x
             /\ \A v \in Ids \ {a, b} : NetPositions(new)[v] = raw[v]
<1> DEFINE new == AddPayment(pw, a, b, x)
           p == <<a, b>>
<1>1. new = [pw EXCEPT ![p] = @ - x] /\ p \in Ids \X Ids
  BY DEF AddPayment
<1>2. /\ new \in Ledgers
      /\ new[<<a, b>>] = pw[<<a, b>>] - x
      /\ \A i, j \in Ids : i # a \/ j # b => new[<<i, j>>] = pw[<<i, j>>]
  <2>1. pw \in [Ids \X Ids -> Int] /\ pw[p] \in Int
    BY <1>1 DEF Ledgers
  <2>2. pw[p] - x \in Int
    BY <2>1
  <2>3. new \in [Ids \X Ids -> Int] /\ new[p] = pw[p] - x
        /\ \A q \in Ids \X Ids : q # p => new[q] = pw[q]
    BY <1>1, <2>1, <2>2
  <2>4. \A i, j \in Ids : i # a \/ j # b => <<i, j>> \in Ids \X Ids /\ <<i, j>> # p
    OBVIOUS
  <2> QED BY <2>3, <2>4 DEF Ledgers
<1> HIDE DEF new, p
<1>3. ASSUME NEW v \in Ids, NEW j \in Ids
      PROVE  NetBetween(new, j, v) = NetBetween(pw, j, v)
                + (IF j = a /\ v = b THEN -x ELSE IF j = b /\ v = a THEN x ELSE 0)
  <2>1. /\ NetBetween(new, j, v) = new[<<j, v>>] - new[<<v, j>>]
        /\ NetBetween(pw, j, v) = pw[<<j, v>>] - pw[<<v, j>>]
        /\ pw[<<j, v>>] \in Int /\ pw[<<v, j>>] \in Int
    BY NetFacts DEF NetBetween
  <2>2. CASE j = a /\ v = b
    <3>1. new[<<j, v>>] = pw[<<j, v>>] - x /\ new[<<v, j>>] = pw[<<v, j>>]
      BY <1>2, <2>2
    <3> QED BY <2>1, <2>2, <3>1
  <2>3. CASE j = b /\ v = a
    <3>1. new[<<v, j>>] = pw[<<v, j>>] - x /\ new[<<j, v>>] = pw[<<j, v>>]
      BY <1>2, <2>3
    <3> QED BY <2>1, <2>3, <3>1
  <2>4. CASE ~(j = a /\ v = b) /\ ~(j = b /\ v = a)
    <3>1. new[<<v, j>>] = pw[<<v, j>>] /\ new[<<j, v>>] = pw[<<j, v>>]
      BY <1>2, <2>4
    <3> QED BY <2>1, <2>4, <3>1
  <2> QED BY <2>2, <2>3, <2>4
<1>4. \A v \in Ids : /\ IsSummable(Nets(pw, v), Ids) /\ IsSummable(Nets(new, v), Ids)
                     /\ NetPositions(pw)[v] = SumFunctionOnSet(Nets(pw, v), Ids)
                     /\ NetPositions(new)[v] = SumFunctionOnSet(Nets(new, v), Ids)
  BY <1>2, PositionIsNets
<1>5. \A v, j \in Ids : Nets(new, v)[j] = NetBetween(new, j, v)
                        /\ Nets(pw, v)[j] = NetBetween(pw, j, v) /\ Nets(pw, v)[j] \in Int
  BY NetFacts DEF Nets
<1>6. NetPositions(new)[a] = NetPositions(pw)[a] + x
  <2> DEFINE f == Nets(pw, a)
             h == Nets(new, a)
  <2>1. \A j \in Ids : h[j] = f[j] + (IF j = b THEN x ELSE 0) /\ f[j] \in Int
    BY <1>3, <1>5
  <2>2. IsSummable(f, Ids) /\ IsSummable(h, Ids)
    BY <1>4
  <2> HIDE DEF f, h
  <2>3. SumFunctionOnSet(h, Ids) = SumFunctionOnSet(f, Ids) + (h[b] - f[b])
    <3>1. \A j \in Ids : j # b => h[j] = f[j]
      BY <2>1
    <3> QED BY <2>2, <3>1, SumUpdate
  <2>4. SumFunctionOnSet(f, Ids) \in Int /\ h[b] - f[b] = x
    BY <2>1, <2>2, SumInt
  <2> QED BY <1>4, <2>3, <2>4 DEF f, h
<1>7. NetPositions(new)[b] = NetPositions(pw)[b] - x
  <2> DEFINE f == Nets(pw, b)
             h == Nets(new, b)
  <2>1. \A j \in Ids : h[j] = f[j] + (IF j = a THEN -x ELSE 0) /\ f[j] \in Int
    BY <1>3, <1>5
  <2>2. IsSummable(f, Ids) /\ IsSummable(h, Ids)
    BY <1>4
  <2> HIDE DEF f, h
  <2>3. SumFunctionOnSet(h, Ids) = SumFunctionOnSet(f, Ids) + (h[a] - f[a])
    <3>1. \A j \in Ids : j # a => h[j] = f[j]
      BY <2>1
    <3> QED BY <2>2, <3>1, SumUpdate
  <2>4. SumFunctionOnSet(f, Ids) \in Int /\ h[a] - f[a] = -x
    BY <2>1, <2>2, SumInt
  <2> QED BY <1>4, <2>3, <2>4 DEF f, h
<1>8. ASSUME NEW v \in Ids \ {a, b} PROVE NetPositions(new)[v] = NetPositions(pw)[v]
  <2>1. \A j \in Ids : Nets(new, v)[j] = Nets(pw, v)[j]
    <3> SUFFICES ASSUME NEW j \in Ids PROVE Nets(new, v)[j] = Nets(pw, v)[j]
      OBVIOUS
    <3>1. NetBetween(new, j, v) = NetBetween(pw, j, v) + 0
      BY <1>3
    <3> QED BY <1>5, <3>1
  <2>2. v \in Ids
    OBVIOUS
  <2>3. SumFunctionOnSet(Nets(new, v), Ids) = SumFunctionOnSet(Nets(pw, v), Ids)
    <3>1. IsSummable(Nets(pw, v), Ids)
      BY <1>4, <2>2
    <3> QED BY <2>1, <3>1, SumEqual
  <2> QED BY <1>4, <2>2, <2>3
<1> QED BY <1>2, <1>6, <1>7, <1>8 DEF new

\* Between members, the programs' positions stay: so do the merged ones but two.
LEMMA PaymentMerged ==
  ASSUME NEW pw \in Ledgers, NEW a \in Members, NEW b \in Members, a # b, NEW x \in Nat \ {0},
         NEW u \in Members
  PROVE  MergedPositions(AddPayment(pw, a, b, x), Creator)[u]
           = MergedPositions(pw, Creator)[u] + (IF u = a THEN x ELSE IF u = b THEN -x ELSE 0)
<1> DEFINE new == AddPayment(pw, a, b, x)
           raw == NetPositions(pw)
           rew == NetPositions(new)
<1>1. a \in Ids /\ b \in Ids /\ u \in Ids /\ PoolsOf(u) \in SUBSET (Ids \ {a, b})
  BY IdsFacts DEF PoolsOf
<1>2. /\ new \in Ledgers /\ rew[a] = raw[a] + x /\ rew[b] = raw[b] - x
      /\ \A v \in Ids \ {a, b} : rew[v] = raw[v]
  BY <1>1, PaymentPositions
<1> HIDE DEF new
<1>3. /\ IsSummable(raw, PoolsOf(u))
      /\ MergedPositions(pw, Creator)[u] = raw[u] + SumFunctionOnSet(raw, PoolsOf(u))
      /\ MergedPositions(new, Creator)[u] = rew[u] + SumFunctionOnSet(rew, PoolsOf(u))
  BY <1>2, MergedFacts
<1>4. raw[u] \in Int
  BY <1>1, PositionIsNets
<1> HIDE DEF raw, rew
<1>5. SumFunctionOnSet(rew, PoolsOf(u)) = SumFunctionOnSet(raw, PoolsOf(u))
  <2>1. \A q \in PoolsOf(u) : rew[q] = raw[q]
    BY <1>1, <1>2
  <2> QED BY <1>3, <2>1, SumEqual
<1>6. SumFunctionOnSet(raw, PoolsOf(u)) \in Int
  BY <1>3, SumInt
<1>7. rew[u] = raw[u] + (IF u = a THEN x ELSE IF u = b THEN -x ELSE 0)
  BY <1>1, <1>2, <1>4
<1> QED BY <1>3, <1>4, <1>5, <1>6, <1>7 DEF new

\* An expense, share by share, leaves a ledger.
LEMMA AddSharesLedger ==
  ASSUME NEW pw \in Ledgers, NEW creditor \in Ids, NEW shares,
         DOMAIN shares \in SUBSET Ids, \A u \in DOMAIN shares : shares[u] \in Nat
  PROVE  AddShares(pw, creditor, shares) \in Ledgers
<1>1. IsFiniteSet(DOMAIN shares)
  BY IdsFacts, FS_Subset
<1> QED BY <1>1, AddSharesAdds DEF Ledgers, Tables

LEMMA PaymentLedger ==
  ASSUME NEW pw \in Ledgers, NEW a \in Ids, NEW b \in Ids, NEW x \in Int
  PROVE  AddPayment(pw, a, b, x) \in Ledgers
<1> DEFINE p == <<a, b>>
<1>1. p \in Ids \X Ids /\ pw \in [Ids \X Ids -> Int]
  BY DEF Ledgers
<1>2. pw[p] - x \in Int
  BY <1>1
<1>3. [pw EXCEPT ![p] = @ - x] \in Ledgers
  BY <1>1, <1>2 DEF Ledgers
<1> QED BY <1>3 DEF AddPayment

-----------------------------------------------------------------------------
(* The plan *)

Received(Q, u) == [t \in Q |-> IF t.to = u THEN t.amt ELSE 0]
Sent(Q, u)     == [t \in Q |-> IF t.from = u THEN t.amt ELSE 0]
ToComeBy(Q, u) == SumFunctionOnSet(Received(Q, u), Q) - SumFunctionOnSet(Sent(Q, u), Q)

Suggestions == [from : Members, to : Members, amt : Nat \ {0}]

\* A plan: finitely many transfers, none of them to oneself.
IsPlan(Q) == Q \subseteq Suggestions /\ IsFiniteSet(Q) /\ \A t \in Q : t.from # t.to

LEMMA PlanSums ==
  ASSUME NEW Q, IsPlan(Q), NEW u
  PROVE  /\ IsSummable(Received(Q, u), Q) /\ IsSummable(Sent(Q, u), Q)
         /\ \A t \in Q : /\ Received(Q, u)[t] = IF t.to = u THEN t.amt ELSE 0
                         /\ Sent(Q, u)[t] = IF t.from = u THEN t.amt ELSE 0
                         /\ t.amt \in Nat \ {0} /\ t.from \in Members /\ t.to \in Members
<1>1. \A t \in Q : t.amt \in Nat \ {0} /\ t.from \in Members /\ t.to \in Members
  BY DEF IsPlan, Suggestions
<1>2. \A t \in Q : /\ Received(Q, u)[t] = IF t.to = u THEN t.amt ELSE 0
                   /\ Sent(Q, u)[t] = IF t.from = u THEN t.amt ELSE 0
  BY DEF Received, Sent
<1>3. \A t \in Q : Received(Q, u)[t] \in Int /\ Sent(Q, u)[t] \in Int
  BY <1>1, <1>2
<1>4. IsFiniteSet(Q)
  BY DEF IsPlan
<1> QED BY <1>1, <1>2, <1>3, <1>4 DEF IsSummable

\* One transfer less to come.
LEMMA ToComeLess ==
  ASSUME NEW Q, IsPlan(Q), NEW t \in Q, NEW u
  PROVE  LET R == Q \ {t}
         IN  /\ IsPlan(R)
             /\ ToComeBy(Q, u) \in Int
             /\ ToComeBy(R, u) = ToComeBy(Q, u)
                   + (IF u = t.from THEN t.amt ELSE IF u = t.to THEN -t.amt ELSE 0)
<1> DEFINE R == Q \ {t}
           inQ == Received(Q, u)
           inR == Received(R, u)
           outQ == Sent(Q, u)
           outR == Sent(R, u)
<1>1. IsPlan(R)
  BY FS_Subset DEF IsPlan
<1>2. /\ IsSummable(inQ, Q) /\ IsSummable(outQ, Q) /\ IsSummable(inR, R) /\ IsSummable(outR, R)
      /\ inQ[t] = (IF t.to = u THEN t.amt ELSE 0) /\ outQ[t] = (IF t.from = u THEN t.amt ELSE 0)
      /\ t.amt \in Nat \ {0}
  BY <1>1, PlanSums
<1>3. \A s \in R : inR[s] = inQ[s] /\ outR[s] = outQ[s]
  BY DEF Received, Sent
<1>4. t.from # t.to
  BY DEF IsPlan
<1>5. /\ ToComeBy(Q, u) = SumFunctionOnSet(inQ, Q) - SumFunctionOnSet(outQ, Q)
      /\ ToComeBy(R, u) = SumFunctionOnSet(inR, R) - SumFunctionOnSet(outR, R)
  BY DEF ToComeBy
<1> HIDE DEF inQ, inR, outQ, outR
<1>6. /\ SumFunctionOnSet(inQ, Q) = inQ[t] + SumFunctionOnSet(inQ, R)
      /\ SumFunctionOnSet(outQ, Q) = outQ[t] + SumFunctionOnSet(outQ, R)
  BY <1>2, SumSplit
<1> HIDE DEF R
<1>7. SumFunctionOnSet(inR, R) = SumFunctionOnSet(inQ, R)
  BY <1>2, <1>3, SumEqual
<1>8. SumFunctionOnSet(outR, R) = SumFunctionOnSet(outQ, R)
  BY <1>2, <1>3, SumEqual
<1>9. SumFunctionOnSet(inR, R) \in Int /\ SumFunctionOnSet(outR, R) \in Int
  BY <1>2, SumInt
<1>10. ToComeBy(R, u) = ToComeBy(Q, u) - inQ[t] + outQ[t] /\ ToComeBy(Q, u) \in Int
  BY <1>2, <1>5, <1>6, <1>7, <1>8, <1>9
<1>11. ToComeBy(R, u) = ToComeBy(Q, u)
                   + (IF u = t.from THEN t.amt ELSE IF u = t.to THEN -t.amt ELSE 0)
  BY <1>2, <1>4, <1>10
<1> QED BY <1>1, <1>10, <1>11 DEF R

\* The group report suggests a plan that makes up for every merged position.
LEMMA ReportPlans ==
  ASSUME NEW pw \in Ledgers
  PROVE  LET Q == ToSet(SettlementPlan(pw, Creator))
         IN  /\ IsPlan(Q)
             /\ \A u \in Members : MergedPositions(pw, Creator)[u] = ToComeBy(Q, u)
<1> DEFINE P == MergedPositions(pw, Creator)
           T == SettlementPlan(pw, Creator)
           A == [from : Owing(P), to : Owed(P), amt : Nat \ {0}]
           Q == ToSet(T)
           I == DOMAIN T
<1>1. IsPositions(P) /\ DOMAIN P = Members /\ \A u \in Members : P[u] \in Int
  BY MergedIsPositions, MergedFacts
<1>2. PICK g : GreedyInv(P, g) /\ ~GreedyRunning(g) /\ T = g.transactions
  <2>1. T = SimplifyDebts(P)
    BY DEF SettlementPlan
  <2> HIDE DEF P, T
  <2> QED BY <1>1, <2>1, SimplifyDebtsEnds
<1> HIDE DEF P, T
<1>3. T \in Seq(A) /\ \A k, l \in I : T[k].from = T[l].from /\ T[k].to = T[l].to => k = l
  BY <1>2 DEF GreedyInv, Greedies, GreedyMet
<1>4. \A t \in A : /\ t.from \in Members /\ t.to \in Members /\ t.amt \in Nat \ {0}
                   /\ t.from # t.to /\ t = [from |-> t.from, to |-> t.to, amt |-> t.amt]
  <2>1. Owing(P) \subseteq Members /\ Owed(P) \subseteq Members /\ Owing(P) \cap Owed(P) = {}
    BY <1>1 DEF Owing, Owed
  <2>2. \A t \in A : /\ t.from \in Owing(P) /\ t.to \in Owed(P) /\ t.amt \in Nat \ {0}
                     /\ t = [from |-> t.from, to |-> t.to, amt |-> t.amt]
    OBVIOUS
  <2> HIDE DEF A
  <2> QED BY <2>1, <2>2
<1> HIDE DEF A
<1>5. IsFiniteSet(I) /\ \A k \in I : T[k] \in A
  BY <1>3, SeqFunction
<1>6. Q = { T[k] : k \in I }
  BY DEF ToSet
<1>7. \A k, l \in I : T[k] = T[l] => k = l
  BY <1>3
<1>8. IsPlan(Q)
  <2>1. \A t \in Q : t \in A
    BY <1>5, <1>6
  <2>2. IsFiniteSet(Q)
    <3> DEFINE s == [k \in I |-> T[k]]
    <3>1. s \in Surjection(I, Q)
      BY <1>6 DEF Surjection
    <3> HIDE DEF s, Q
    <3> QED BY <1>5, <3>1, FS_Surjection
  <2>3. \A t \in Q : t \in Suggestions
    BY <1>4, <2>1 DEF Suggestions
  <2>4. \A t \in Q : t.from # t.to
    BY <1>4, <2>1
  <2> QED BY <2>2, <2>3, <2>4 DEF IsPlan
<1>9. ASSUME NEW u \in Members PROVE P[u] = ToComeBy(Q, u)
  <2> DEFINE signed == [k \in I |-> Signed(T[k], u)]
             in  == [k \in I |-> IF T[k].to = u THEN T[k].amt ELSE 0]
             out == [k \in I |-> IF T[k].from = u THEN T[k].amt ELSE 0]
  <2>1. \A k \in I : /\ signed[k] = Signed(T[k], u)
                     /\ in[k] = IF T[k].to = u THEN T[k].amt ELSE 0
                     /\ out[k] = IF T[k].from = u THEN T[k].amt ELSE 0
    OBVIOUS
  <2>2. P[u] + FlowOf(T, u) = 0 /\ FlowOf(T, u) = SumFunctionOnSet(signed, I)
    BY <1>1, <1>2, GreedyEnds DEF FlowOf
  <2> HIDE DEF signed, in, out, I, Q
  <2>3. \A k \in I : T[k].amt \in Nat /\ T[k].from # T[k].to
    BY <1>4, <1>5
  <2>4. \A k \in I : in[k] \in Int /\ out[k] \in Int /\ signed[k] = out[k] - in[k]
    BY <2>1, <2>3 DEF Signed
  <2>5. IsSummable(in, I) /\ IsSummable(out, I)
    BY <1>5, <2>4 DEF IsSummable
  <2>6. SumFunctionOnSet(signed, I) = SumFunctionOnSet(out, I) - SumFunctionOnSet(in, I)
    <3>1. \A k \in I : signed[k] = out[k] - in[k]
      BY <2>4
    <3> QED BY <2>5, <3>1, SumMinus
  <2>7. \A k \in I : T[k] \in Q
    BY <1>6
  <2>8. SumFunctionOnSet(Received(Q, u), Q) = SumFunctionOnSet(in, I)
    <3> DEFINE h == Received(Q, u)
    <3>1. \A k \in I : h[T[k]] = in[k]
      BY <2>1, <2>7 DEF Received
    <3> HIDE DEF h
    <3>2. SumFunctionOnSet(h, { T[k] : k \in I }) = SumFunctionOnSet(in, I)
      BY <1>7, <2>5, <3>1, SumImage
    <3> QED BY <1>6, <3>2, Zenon DEF h
  <2>9. SumFunctionOnSet(Sent(Q, u), Q) = SumFunctionOnSet(out, I)
    <3> DEFINE h == Sent(Q, u)
    <3>1. \A k \in I : h[T[k]] = out[k]
      BY <2>1, <2>7 DEF Sent
    <3> HIDE DEF h
    <3>2. SumFunctionOnSet(h, { T[k] : k \in I }) = SumFunctionOnSet(out, I)
      BY <1>7, <2>5, <3>1, SumImage
    <3> QED BY <1>6, <3>2, Zenon DEF h
  <2>10. SumFunctionOnSet(in, I) \in Int /\ SumFunctionOnSet(out, I) \in Int /\ P[u] \in Int
    BY <1>1, <2>5, SumInt
  <2>11. ToComeBy(Q, u) = SumFunctionOnSet(in, I) - SumFunctionOnSet(out, I)
    BY <2>8, <2>9 DEF ToComeBy
  <2> QED BY <2>2, <2>6, <2>10, <2>11
<1> QED BY <1>8, <1>9 DEF Q, T, P

-----------------------------------------------------------------------------
(* The specification *)

\* A plan is only worth following on the ledger it was made for, less what has
\* been carried out; and it must not ask anybody to pay themselves, which
\* AddPayment would ignore.
IInv ==
    /\ pairwise \in Ledgers
    /\ recorded \in 0 .. MaxExpenses /\ charged \in 0 .. MaxCharges
    /\ asked \in {"no", "yes"}
    /\ IsPlan(plan)
    /\ asked = "yes" => \A u \in Members :
          MergedPositions(pairwise, Creator)[u] = ToComeBy(plan, u)

LEMMA InitInv == Init => IInv
<1> SUFFICES ASSUME Init PROVE IInv
  OBVIOUS
<1>1. pairwise \in Ledgers
  BY DEF Init, EmptyLedger, Ledgers
<1>2. IsPlan(plan)
  BY FS_EmptySet DEF Init, IsPlan
<1>3. recorded \in 0 .. MaxExpenses /\ charged \in 0 .. MaxCharges /\ asked = "no"
  BY BoundsAssumption DEF Init
<1> QED BY <1>1, <1>2, <1>3 DEF IInv

LEMMA RecordInv ==
  ASSUME IInv, NEW c \in Ids, NEW present \in (SUBSET Members) \ {{}}, NEW total \in Amounts,
         NEW mode, RecordExpense(c, present, total, mode)
  PROVE  IInv'
<1> DEFINE weight == Restrict(Weight, present)
           shares == CalculateShares(total, weight, mode)
<1>1. IsWeights(weight) /\ DOMAIN weight = present
  <2>1. present \in SUBSET Ids /\ present \in SUBSET Members /\ present # {} /\ Ids \subseteq Int
        /\ IsFiniteSet(Ids)
    BY IdsFacts
  <2>2. weight = [u \in present |-> Weight[u]]
    BY DEF Restrict
  <2>3. \A u \in present : weight[u] \in Nat \ {0}
    BY <2>1, <2>2, WeightAssumption
  <2>4. IsFiniteSet(present) /\ DOMAIN weight = present
    BY <2>1, <2>2, FS_Subset
  <2> QED BY <2>1, <2>3, <2>4 DEF IsWeights
<1> HIDE DEF weight
<1>2. DOMAIN shares = present /\ \A u \in present : shares[u] \in Nat
  <2>1. total \in Nat
    BY AmountsAssumption
  <2>2. /\ DOMAIN CalculateShares(total, weight, mode) = DOMAIN weight
        /\ \A u \in DOMAIN weight : CalculateShares(total, weight, mode)[u] \in Nat
    BY <1>1, <2>1, SharesAreFair
  <2> QED BY <1>1, <2>2
<1> HIDE DEF shares
<1>3. AddShares(pairwise, c, shares) \in Ledgers
  BY <1>2, IdsFacts, AddSharesLedger DEF IInv
<1>4. pairwise' \in Ledgers
  BY <1>3 DEF RecordExpense, shares, weight
<1>5. recorded' \in 0 .. MaxExpenses /\ charged' \in 0 .. MaxCharges /\ asked' = "no" /\ plan' = {}
  BY BoundsAssumption DEF RecordExpense, IInv
<1>6. IsPlan(plan')
  BY <1>5, FS_EmptySet DEF IsPlan
<1> QED BY <1>4, <1>5, <1>6 DEF IInv

LEMMA ChargeInv ==
  ASSUME IInv, NEW u \in Members, NEW pool \in Pools, NEW total \in Amounts,
         ChargePool(u, pool, total)
  PROVE  IInv'
<1>1. u \in Ids /\ pool \in Ids /\ total \in Int
  BY IdsFacts, AmountsAssumption
<1>2. pairwise' \in Ledgers
  BY <1>1, PaymentLedger DEF ChargePool, IInv
<1>3. recorded' \in 0 .. MaxExpenses /\ charged' \in 0 .. MaxCharges /\ asked' = "no" /\ plan' = {}
  BY BoundsAssumption DEF ChargePool, IInv
<1>4. IsPlan(plan')
  BY <1>3, FS_EmptySet DEF IsPlan
<1> QED BY <1>2, <1>3, <1>4 DEF IInv

LEMMA ReportInv == IInv /\ Report => IInv'
<1> SUFFICES ASSUME IInv, Report PROVE IInv'
  OBVIOUS
<1>1. /\ pairwise' = pairwise /\ recorded' = recorded /\ charged' = charged /\ asked' = "yes"
      /\ plan' = ToSet(SettlementPlan(pairwise, Creator))
  BY DEF Report
<1>2. IsPlan(plan') /\ \A u \in Members :
         MergedPositions(pairwise, Creator)[u] = ToComeBy(plan', u)
  BY <1>1, ReportPlans DEF IInv
<1> QED BY <1>1, <1>2 DEF IInv

LEMMA CarryOutInv ==
  ASSUME IInv, NEW t \in plan, CarryOut(t)
  PROVE  IInv'
<1>1. /\ pairwise' = AddPayment(pairwise, t.from, t.to, t.amt) /\ plan' = plan \ {t}
      /\ recorded' = recorded /\ charged' = charged /\ asked' = asked
  BY DEF CarryOut
<1>2. /\ t.from \in Members /\ t.to \in Members /\ t.from # t.to /\ t.amt \in Nat \ {0}
      /\ t.from \in Ids /\ t.to \in Ids /\ pairwise \in Ledgers /\ IsPlan(plan)
  BY IdsFacts DEF IInv, IsPlan, Suggestions
<1>3. pairwise' \in Ledgers
  BY <1>1, <1>2, PaymentLedger
<1>4. IsPlan(plan')
  BY <1>1, <1>2, ToComeLess
<1>5. ASSUME asked = "yes", NEW u \in Members
      PROVE  MergedPositions(pairwise', Creator)[u] = ToComeBy(plan', u)
  <2>1. MergedPositions(pairwise, Creator)[u] = ToComeBy(plan, u)
    BY <1>5 DEF IInv
  <2>2. MergedPositions(pairwise', Creator)[u] = MergedPositions(pairwise, Creator)[u]
          + (IF u = t.from THEN t.amt ELSE IF u = t.to THEN -t.amt ELSE 0)
    BY <1>1, <1>2, PaymentMerged
  <2>3. ToComeBy(plan', u) = ToComeBy(plan, u)
          + (IF u = t.from THEN t.amt ELSE IF u = t.to THEN -t.amt ELSE 0)
    BY <1>1, <1>2, ToComeLess
  <2> QED BY <2>1, <2>2, <2>3
<1> QED BY <1>1, <1>3, <1>4, <1>5 DEF IInv

LEMMA NextInv == IInv /\ [Next]_vars => IInv'
<1> SUFFICES ASSUME IInv, [Next]_vars PROVE IInv'
  OBVIOUS
<1>1. ASSUME NEW c \in Ids, NEW present \in (SUBSET Members) \ {{}}, NEW total \in Amounts,
             NEW mode \in {"equal", "weighted"}, RecordExpense(c, present, total, mode)
      PROVE  IInv'
  BY <1>1, RecordInv
<1>2. ASSUME NEW u \in Members, NEW pool \in Pools, NEW total \in Amounts,
             ChargePool(u, pool, total)
      PROVE  IInv'
  BY <1>2, ChargeInv
<1>3. CASE Report
  BY <1>3, ReportInv
<1>4. ASSUME NEW t \in plan, CarryOut(t) PROVE IInv'
  BY <1>4, CarryOutInv
<1>5. CASE UNCHANGED vars
  BY <1>5 DEF vars, IInv
<1> QED BY <1>1, <1>2, <1>3, <1>4, <1>5 DEF Next

\* The invariant behind the three theorems below: what was recorded and charged
\* gives a ledger of whole amounts, and while a report is followed every position
\* is what the rest of its plan will move (balances.py:80-137).
THEOREM SettleUpInvariant == Spec => []IInv
<1> QED BY InitInv, NextInv, PTL DEF Spec

\* The ledger holds amounts between the group's people and pools, and a plan
\* positive amounts between members.
THEOREM SettleUpTypes == Spec => []TypeOK
<1>1. IInv => TypeOK
  BY DEF IInv, TypeOK, Ledgers, IsPlan, Suggestions
<1> QED BY <1>1, SettleUpInvariant, PTL

\* However many members, programs and amounts: carrying out a report's transfers
\* in any order takes every merged position to 0 (README.md:149-150).
THEOREM PlansClear == Spec => []PlanClearsPositions
<1>1. IInv => PlanClearsPositions
  <2> SUFFICES ASSUME IInv, asked = "yes", NEW u \in Members
               PROVE  MergedPositions(pairwise, Creator)[u] = ToCome(u)
    BY DEF PlanClearsPositions
  <2>1. ToCome(u) = ToComeBy(plan, u)
    BY DEF ToCome, ToComeBy, Received, Sent, SumFunction
  <2> QED BY <2>1 DEF IInv
<1> QED BY <1>1, SettleUpInvariant, PTL

\* The two views of one ledger agree, whatever is in it (balances.py:80-124).
THEOREM ViewsAlwaysAgree == Spec => []ViewsAgree
<1>1. IInv => ViewsAgree
  <2> SUFFICES ASSUME IInv, NEW u \in Members
               PROVE  MergedPositions(pairwise, Creator)[u]
                        = Shown(u) + SumFunction([q \in { r \in Pools : Creator[r] = u } |-> Shown(q)])
    BY DEF ViewsAgree
  <2> DEFINE raw == NetPositions(pairwise)
             h == [q \in PoolsOf(u) |-> Shown(q)]
  <2>1. pairwise \in Ledgers
    BY DEF IInv
  <2>2. /\ IsSummable(raw, PoolsOf(u))
        /\ MergedPositions(pairwise, Creator)[u] = raw[u] + SumFunctionOnSet(raw, PoolsOf(u))
    BY <2>1, MergedFacts
  <2>3. \A v : Shown(v) = ShownBy(pairwise, v)
    BY DEF Shown, ShownBy, Lines
  <2>4. \A v \in Ids : Shown(v) = raw[v]
    BY <2>1, <2>3, ShownIsPosition
  <2>5. u \in Ids /\ PoolsOf(u) \in SUBSET Ids
    BY IdsFacts DEF PoolsOf
  <2>6. \A q \in PoolsOf(u) : h[q] = raw[q]
    BY <2>4, <2>5
  <2>7. SumFunction([q \in { r \in Pools : Creator[r] = u } |-> Shown(q)])
          = SumFunctionOnSet(h, PoolsOf(u))
    BY DEF SumFunction, PoolsOf
  <2> HIDE DEF raw, h
  <2>8. SumFunctionOnSet(h, PoolsOf(u)) = SumFunctionOnSet(raw, PoolsOf(u))
    BY <2>2, <2>6, SumEqual
  <2> QED BY <2>2, <2>4, <2>5, <2>7, <2>8
<1> QED BY <1>1, SettleUpInvariant, PTL
=============================================================================

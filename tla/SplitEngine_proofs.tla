------------------------- MODULE SplitEngine_proofs -------------------------
(***************************************************************************)
(* What the calculations compute, for every input: sums do not depend on   *)
(* the order of the fold, and dividing, netting and merging lose nothing.  *)
(*                                                                         *)
(* None of the provers can use an induction principle that is stated for   *)
(* every predicate.  SetInduction states one for a set of subsets instead, *)
(* which is first-order; all that is said about folds is proved with it.   *)
(***************************************************************************)
EXTENDS SplitEngine, FiniteSetTheorems, TLAPS

-----------------------------------------------------------------------------
(* Induction and recursion over the subsets of a finite set *)

\* A set of subsets of a finite set has a smallest member: one no proper subset
\* of which is a member.
LEMMA SmallestSubset ==
  ASSUME NEW S, IsFiniteSet(S), NEW H, H \subseteq SUBSET S, H # {}
  PROVE  \E T \in H : \A U \in SUBSET T : U # T => U \notin H
<1>1. FiniteSubsetsOf(S) = SUBSET S
  BY FS_FiniteSubsetsOfFinite
<1>2. IsWellFoundedOn(StrictSubsetOrdering(S), FiniteSubsetsOf(S))
  BY FS_StrictSubsetOrderingWellFounded
<1>3. H \subseteq FiniteSubsetsOf(S)
  BY <1>1
<1>4. \E T \in H : \A U \in H : ~ (<<U, T>> \in StrictSubsetOrdering(S))
  BY <1>2, <1>3, WFMin
<1>5. ASSUME NEW T \in H, NEW U \in H, U \subseteq T, U # T
      PROVE  <<U, T>> \in StrictSubsetOrdering(S)
  BY <1>5 DEF StrictSubsetOrdering
<1> QED
  BY <1>4, <1>5

\* A set of subsets of S that has {} and, with T, every T \cup {x}, has them all.
LEMMA SetInduction ==
  ASSUME NEW S, IsFiniteSet(S), NEW G, {} \in G,
         \A T \in SUBSET S, x \in S : T \in G /\ x \notin T => T \cup {x} \in G
  PROVE  \A T \in SUBSET S : T \in G
<1> SUFFICES ASSUME (SUBSET S) \ G # {} PROVE FALSE
  OBVIOUS
<1> DEFINE H == (SUBSET S) \ G
<1>1. PICK T \in H : \A U \in SUBSET T : U # T => U \notin H
  <2>1. H \subseteq SUBSET S /\ H # {}
    OBVIOUS
  <2> HIDE DEF H
  <2> QED
    BY <2>1, SmallestSubset
<1>2. PICK x : x \in T
  BY <1>1
<1>3. T \ {x} \in G
  BY <1>1, <1>2
<1>4. (T \ {x}) \cup {x} = T
  BY <1>2
<1> QED
  BY <1>1, <1>2, <1>3, <1>4

\* If T is in G as soon as all of its proper subsets are, G has all subsets of S.
LEMMA StrongSetInduction ==
  ASSUME NEW S, IsFiniteSet(S), NEW G,
         \A T \in SUBSET S : (\A U \in SUBSET T : U # T => U \in G) => T \in G
  PROVE  \A T \in SUBSET S : T \in G
<1> SUFFICES ASSUME (SUBSET S) \ G # {} PROVE FALSE
  OBVIOUS
<1> DEFINE H == (SUBSET S) \ G
<1>1. PICK T \in H : \A U \in SUBSET T : U # T => U \notin H
  <2>1. H \subseteq SUBSET S /\ H # {}
    OBVIOUS
  <2> HIDE DEF H
  <2> QED
    BY <2>1, SmallestSubset
<1>2. \A U \in SUBSET T : U # T => U \in G
  BY <1>1
<1> QED
  BY <1>1, <1>2

\* The element the library's folds take first.
Pick(s) == CHOOSE x \in s : TRUE

LEMMA PickIn == ASSUME NEW s, s # {} PROVE Pick(s) \in s
BY DEF Pick

\* it folds `step` over the subsets of T, starting from base.
IsFold(it, T, A, base, step) ==
    /\ it \in [SUBSET T -> A]
    /\ it[{}] = base
    /\ \A s \in SUBSET T : s # {} => it[s] = step[Pick(s)][it[s \ {Pick(s)}]]

\* Folds over different sets agree where both are defined.
LEMMA FoldsAgree ==
  ASSUME NEW T, IsFiniteSet(T), NEW U, NEW A, NEW base, NEW step, NEW it, NEW jt,
         IsFold(it, T, A, base, step), IsFold(jt, U, A, base, step)
  PROVE  \A s \in SUBSET T : s \in SUBSET U => it[s] = jt[s]
<1> DEFINE G == { s \in SUBSET T : s \in SUBSET U => it[s] = jt[s] }
<1>1. ASSUME NEW s \in SUBSET T, \A r \in SUBSET s : r # s => r \in G PROVE s \in G
  <2>1. CASE s = {}
    BY <2>1 DEF IsFold
  <2>2. CASE s # {} /\ s \in SUBSET U
    <3> DEFINE r == s \ {Pick(s)}
    <3>1. r \in SUBSET s /\ r # s
      BY <2>2, PickIn
    <3>2. it[r] = jt[r]
      BY <1>1, <2>2, <3>1
    <3>3. it[s] = step[Pick(s)][it[r]] /\ jt[s] = step[Pick(s)][jt[r]]
      BY <2>2 DEF IsFold
    <3> QED
      BY <3>2, <3>3
  <2> QED
    BY <2>1, <2>2
<1>2. \A s \in SUBSET T : s \in G
  <2> HIDE DEF G
  <2> QED BY <1>1, StrongSetInduction
<1> QED
  BY <1>2

LEMMA FoldsExist ==
  ASSUME NEW S, IsFiniteSet(S), NEW A, NEW base \in A, NEW step \in [S -> [A -> A]]
  PROVE  \A T \in SUBSET S : \E it : IsFold(it, T, A, base, step)
<1> DEFINE G == { T \in SUBSET S : \E it : IsFold(it, T, A, base, step) }
<1>1. ASSUME NEW T \in SUBSET S, \A U \in SUBSET T : U # T => U \in G PROVE T \in G
  <2> DEFINE sol(U) == CHOOSE it : IsFold(it, U, A, base, step)
             it == [s \in SUBSET T |-> IF s = {} THEN base
                                       ELSE IF s = T THEN step[Pick(T)][sol(T \ {Pick(T)})[T \ {Pick(T)}]]
                                       ELSE sol(s)[s]]
  <2>1. ASSUME NEW U \in SUBSET T, U # T PROVE IsFold(sol(U), U, A, base, step)
    BY <1>1, <2>1
  <2> HIDE DEF sol
  <2>2. ASSUME NEW U \in SUBSET T, U # T PROVE sol(U)[U] \in A
    BY <2>1, <2>2 DEF IsFold
  <2>3. it \in [SUBSET T -> A]
    BY <2>2, PickIn
  <2>4. it[{}] = base
    OBVIOUS
  <2>5. ASSUME NEW s \in SUBSET T, s # {} PROVE it[s] = step[Pick(s)][it[s \ {Pick(s)}]]
    <3>p. Pick(s) \in s
      BY <2>5, PickIn
    <3> DEFINE r == s \ {Pick(s)}
    <3>r. r \in SUBSET T /\ r # T /\ r # s
      BY <3>p
    <3>0. it[r] = sol(r)[r]
      <4>1. CASE r = {}
        BY <4>1, <2>1, <3>r DEF IsFold
      <4>2. CASE r # {}
        BY <4>2, <3>r
      <4> QED BY <4>1, <4>2
    <3>1. CASE s = T
      BY <3>0, <3>1, <2>5
    <3>2. CASE s # T
      <4>1. IsFold(sol(s), s, A, base, step) /\ IsFold(sol(r), r, A, base, step)
        BY <2>1, <3>2, <3>r
      <4>2. sol(s)[s] = step[Pick(s)][sol(s)[r]]
        BY <4>1, <2>5 DEF IsFold
      <4>3. IsFiniteSet(r)
        BY FS_Subset, <3>r
      <4>4. sol(s)[r] = sol(r)[r]
        BY <4>1, <4>3, FoldsAgree
      <4> QED
        BY <4>2, <4>4, <3>0, <3>2, <2>5
    <3> QED BY <3>1, <3>2
  <2> QED
    BY <2>3, <2>4, <2>5 DEF IsFold
<1>2. \A T \in SUBSET S : T \in G
  <2> HIDE DEF G
  <2> QED BY <1>1, StrongSetInduction
<1> QED
  BY <1>2

-----------------------------------------------------------------------------
(* SumFunctionOnSet *)

IsSummable(f, S) == IsFiniteSet(S) /\ \A x \in S : f[x] \in Int

\* What the fold of SumFunctionOnSet(f, S) computes for every subset of S.
SumStep(f, S) == [x \in S |-> [a \in Int |-> f[x] + a]]

LEMMA SumFolds ==
  ASSUME NEW f, NEW S, IsSummable(f, S)
  PROVE  \E it : IsFold(it, S, Int, 0, SumStep(f, S)) /\ SumFunctionOnSet(f, S) = it[S]
<1>1. SumStep(f, S) \in [S -> [Int -> Int]]
  BY DEF SumStep, IsSummable
<1>2. PICK jt : IsFold(jt, S, Int, 0, SumStep(f, S))
  <2>1. IsFiniteSet(S) /\ 0 \in Int /\ S \in SUBSET S
    BY DEF IsSummable
  <2>2. \A T \in SUBSET S : \E jt : IsFold(jt, T, Int, 0, SumStep(f, S))
    BY <1>1, <2>1, FoldsExist
  <2> QED
    BY <2>1, <2>2
<1> DEFINE Def(g) == [s \in SUBSET S |->
                        IF s = {} THEN 0
                        ELSE f[CHOOSE x \in s : TRUE] + g[s \ {CHOOSE x \in s : TRUE}]]
           it == CHOOSE g : g = Def(g)
<1>3. jt = Def(jt)
  <2>1. ASSUME NEW s \in SUBSET S
        PROVE  jt[s] = IF s = {} THEN 0
                        ELSE f[CHOOSE x \in s : TRUE] + jt[s \ {CHOOSE x \in s : TRUE}]
    <3>1. CASE s = {}
      BY <1>2, <3>1 DEF IsFold
    <3>2. CASE s # {}
      <4>1. Pick(s) \in S /\ s \ {Pick(s)} \in SUBSET S
        BY <3>2, PickIn
      <4>2. jt[s] = SumStep(f, S)[Pick(s)][jt[s \ {Pick(s)}]] /\ jt[s \ {Pick(s)}] \in Int
        BY <1>2, <3>2, <4>1 DEF IsFold
      <4> QED
        BY <4>1, <4>2, <3>2 DEF SumStep, Pick
    <3> QED BY <3>1, <3>2
  <2>2. DOMAIN jt = SUBSET S /\ jt = [s \in SUBSET S |-> jt[s]]
    BY <1>2 DEF IsFold
  <2> QED BY <2>1, <2>2
<1>4. it = Def(it)
  BY <1>3
<1>5. SumFunctionOnSet(f, S) = it[S]
  BY DEF SumFunctionOnSet, FoldFunctionOnSet, MapThenFoldSet
<1>6. it = jt
  <2> DEFINE G == { s \in SUBSET S : it[s] = jt[s] }
  <2>1. ASSUME NEW s \in SUBSET S, \A r \in SUBSET s : r # s => r \in G PROVE s \in G
    <3> HIDE DEF it
    <3>1. it[s] = IF s = {} THEN 0
                        ELSE f[CHOOSE x \in s : TRUE] + it[s \ {CHOOSE x \in s : TRUE}]
      BY <1>4
    <3>2. jt[s] = IF s = {} THEN 0
                        ELSE f[CHOOSE x \in s : TRUE] + jt[s \ {CHOOSE x \in s : TRUE}]
      BY <1>3
    <3>3. CASE s = {}
      BY <3>1, <3>2, <3>3
    <3>4. CASE s # {}
      <4>1. (CHOOSE x \in s : TRUE) \in s
        BY <3>4
      <4>2. s \ {CHOOSE x \in s : TRUE} \in G
        BY <4>1, <2>1
      <4> QED BY <3>1, <3>2, <3>4, <4>2
    <3> QED BY <3>3, <3>4
  <2>2. \A s \in SUBSET S : s \in G
    <3> HIDE DEF G
    <3> QED BY <2>1, StrongSetInduction DEF IsSummable
  <2>3. DOMAIN it = SUBSET S /\ it = [s \in SUBSET S |-> it[s]]
    <3> HIDE DEF it
    <3> QED BY <1>4
  <2>4. DOMAIN jt = SUBSET S /\ jt = [s \in SUBSET S |-> jt[s]]
    BY <1>2 DEF IsFold
  <2> HIDE DEF it
  <2> QED BY <2>2, <2>3, <2>4
<1> QED
  BY <1>2, <1>5, <1>6

LEMMA SummableSubset ==
  ASSUME NEW f, NEW S, IsSummable(f, S), NEW T \in SUBSET S
  PROVE  IsSummable(f, T)
BY FS_Subset DEF IsSummable

LEMMA SumEmpty == ASSUME NEW f PROVE SumFunctionOnSet(f, {}) = 0
<1>1. IsSummable(f, {})
  BY FS_EmptySet DEF IsSummable
<1>2. PICK it : IsFold(it, {}, Int, 0, SumStep(f, {})) /\ SumFunctionOnSet(f, {}) = it[{}]
  BY <1>1, SumFolds
<1> QED
  BY <1>2 DEF IsFold

LEMMA SumInt ==
  ASSUME NEW f, NEW S, IsSummable(f, S)
  PROVE  SumFunctionOnSet(f, S) \in Int
<1>1. PICK it : IsFold(it, S, Int, 0, SumStep(f, S)) /\ SumFunctionOnSet(f, S) = it[S]
  BY SumFolds
<1> QED
  BY <1>1 DEF IsFold

\* The first element the fold takes.
LEMMA SumPick ==
  ASSUME NEW f, NEW S, IsSummable(f, S), S # {}
  PROVE  SumFunctionOnSet(f, S) = f[Pick(S)] + SumFunctionOnSet(f, S \ {Pick(S)})
<1> DEFINE c == Pick(S)
           R == S \ {c}
<1>1. c \in S /\ R \in SUBSET S
  BY PickIn
<1>2. IsSummable(f, R)
  BY <1>1, SummableSubset
<1>3. PICK it : IsFold(it, S, Int, 0, SumStep(f, S)) /\ SumFunctionOnSet(f, S) = it[S]
  BY SumFolds
<1>4. PICK jt : IsFold(jt, R, Int, 0, SumStep(f, R)) /\ SumFunctionOnSet(f, R) = jt[R]
  BY <1>2, SumFolds
<1>5. IsFold(jt, R, Int, 0, SumStep(f, S))
  <2>1. ASSUME NEW s \in SUBSET R, s # {}
        PROVE  SumStep(f, R)[Pick(s)] = SumStep(f, S)[Pick(s)]
    BY <1>1, <2>1, PickIn DEF SumStep
  <2> HIDE DEF R
  <2> QED
    BY <1>4, <2>1 DEF IsFold
<1>6. it[R] = jt[R]
  <2> HIDE DEF R
  <2> QED
    BY <1>1, <1>3, <1>5, FoldsAgree DEF IsSummable
<1>7. it[S] = SumStep(f, S)[c][it[R]] /\ it[R] \in Int
  BY <1>1, <1>3 DEF IsFold
<1> QED
  BY <1>1, <1>3, <1>4, <1>6, <1>7 DEF SumStep

\* Any element can be taken first.
LEMMA SumSplit ==
  ASSUME NEW f, NEW S, IsSummable(f, S), NEW x \in S
  PROVE  SumFunctionOnSet(f, S) = f[x] + SumFunctionOnSet(f, S \ {x})
<1> DEFINE G == { T \in SUBSET S : \A y \in T :
                    SumFunctionOnSet(f, T) = f[y] + SumFunctionOnSet(f, T \ {y}) }
<1>1. ASSUME NEW T \in SUBSET S, \A U \in SUBSET T : U # T => U \in G PROVE T \in G
  <2> SUFFICES ASSUME NEW y \in T
               PROVE  SumFunctionOnSet(f, T) = f[y] + SumFunctionOnSet(f, T \ {y})
    OBVIOUS
  <2> DEFINE c == Pick(T)
  <2>1. c \in T
    BY PickIn
  <2>2. SumFunctionOnSet(f, T) = f[c] + SumFunctionOnSet(f, T \ {c})
    BY SummableSubset, SumPick
  <2>3. CASE y = c
    BY <2>2, <2>3
  <2>4. CASE y # c
    <3>1. SumFunctionOnSet(f, T \ {c}) = f[y] + SumFunctionOnSet(f, (T \ {c}) \ {y})
      BY <1>1, <2>1, <2>4
    <3>2. SumFunctionOnSet(f, T \ {y}) = f[c] + SumFunctionOnSet(f, (T \ {y}) \ {c})
      BY <1>1, <2>1, <2>4
    <3>3. SumFunctionOnSet(f, (T \ {y}) \ {c}) = SumFunctionOnSet(f, (T \ {c}) \ {y})
      <4>1. (T \ {y}) \ {c} = (T \ {c}) \ {y}
        OBVIOUS
      <4> QED BY <4>1, Zenon
    <3>4. IsSummable(f, (T \ {c}) \ {y})
      BY SummableSubset
    <3>5. SumFunctionOnSet(f, (T \ {c}) \ {y}) \in Int
      BY <3>4, SumInt
    <3>6. f[c] \in Int /\ f[y] \in Int
      BY <2>1 DEF IsSummable
    <3> HIDE DEF c
    <3> QED
      BY <2>2, <3>1, <3>2, <3>3, <3>5, <3>6
  <2> QED
    BY <2>3, <2>4
<1>2. \A T \in SUBSET S : T \in G
  <2> HIDE DEF G
  <2> QED BY <1>1, StrongSetInduction DEF IsSummable
<1> QED
  BY <1>2

LEMMA SumAdd ==
  ASSUME NEW f, NEW S, IsSummable(f, S), NEW x, x \notin S, f[x] \in Int
  PROVE  /\ IsSummable(f, S \cup {x})
         /\ SumFunctionOnSet(f, S \cup {x}) = f[x] + SumFunctionOnSet(f, S)
<1>1. IsSummable(f, S \cup {x})
  BY FS_AddElement DEF IsSummable
<1>2. (S \cup {x}) \ {x} = S
  OBVIOUS
<1> QED
  BY <1>1, <1>2, SumSplit

\* Only the values on S count.
LEMMA SumEqual ==
  ASSUME NEW f, NEW g, NEW S, IsSummable(f, S), \A x \in S : g[x] = f[x]
  PROVE  IsSummable(g, S) /\ SumFunctionOnSet(g, S) = SumFunctionOnSet(f, S)
<1> DEFINE G == { T \in SUBSET S : SumFunctionOnSet(g, T) = SumFunctionOnSet(f, T) }
<1>1. IsSummable(g, S)
  BY DEF IsSummable
<1>2. {} \in G
  BY SumEmpty
<1>3. ASSUME NEW T \in SUBSET S, NEW x \in S, T \in G, x \notin T PROVE T \cup {x} \in G
  <2>1. IsSummable(f, T) /\ IsSummable(g, T)
    BY <1>1, SummableSubset
  <2>2. f[x] \in Int /\ g[x] = f[x]
    BY DEF IsSummable
  <2>3. SumFunctionOnSet(f, T \cup {x}) = f[x] + SumFunctionOnSet(f, T)
    BY <2>1, <2>2, <1>3, SumAdd
  <2>4. SumFunctionOnSet(g, T \cup {x}) = g[x] + SumFunctionOnSet(g, T)
    BY <2>1, <2>2, <1>3, SumAdd
  <2> QED BY <1>3, <2>2, <2>3, <2>4
<1>4. \A T \in SUBSET S : T \in G
  <2> HIDE DEF G
  <2> QED BY <1>2, <1>3, SetInduction DEF IsSummable
<1> QED
  BY <1>1, <1>4

\* Sums are additive in what is summed up ...
LEMMA SumOfSums ==
  ASSUME NEW f, NEW g, NEW h, NEW S, IsSummable(f, S), IsSummable(g, S),
         \A x \in S : h[x] = f[x] + g[x]
  PROVE  /\ IsSummable(h, S)
         /\ SumFunctionOnSet(h, S) = SumFunctionOnSet(f, S) + SumFunctionOnSet(g, S)
<1> DEFINE G == { T \in SUBSET S : SumFunctionOnSet(h, T)
                                     = SumFunctionOnSet(f, T) + SumFunctionOnSet(g, T) }
<1>1. IsSummable(h, S)
  BY DEF IsSummable
<1>2. {} \in G
  BY SumEmpty
<1>3. ASSUME NEW T \in SUBSET S, NEW x \in S, T \in G, x \notin T PROVE T \cup {x} \in G
  <2>1. IsSummable(f, T) /\ IsSummable(g, T) /\ IsSummable(h, T)
    BY <1>1, SummableSubset
  <2>2. f[x] \in Int /\ g[x] \in Int /\ h[x] = f[x] + g[x]
    BY DEF IsSummable
  <2>3. SumFunctionOnSet(f, T \cup {x}) = f[x] + SumFunctionOnSet(f, T)
    BY <2>1, <2>2, <1>3, SumAdd
  <2>4. SumFunctionOnSet(g, T \cup {x}) = g[x] + SumFunctionOnSet(g, T)
    BY <2>1, <2>2, <1>3, SumAdd
  <2>5. SumFunctionOnSet(h, T \cup {x}) = h[x] + SumFunctionOnSet(h, T)
    BY <2>1, <2>2, <1>3, SumAdd
  <2>6. SumFunctionOnSet(f, T) \in Int /\ SumFunctionOnSet(g, T) \in Int
    BY <2>1, SumInt
  <2> QED BY <1>3, <2>2, <2>3, <2>4, <2>5, <2>6
<1>4. \A T \in SUBSET S : T \in G
  <2> HIDE DEF G
  <2> QED BY <1>2, <1>3, SetInduction DEF IsSummable
<1> QED
  BY <1>1, <1>4

\* ... and in the set; and keep an order.
LEMMA SumUnion ==
  ASSUME NEW f, NEW S, NEW U, IsSummable(f, S), IsSummable(f, U), S \cap U = {}
  PROVE  /\ IsSummable(f, S \cup U)
         /\ SumFunctionOnSet(f, S \cup U) = SumFunctionOnSet(f, S) + SumFunctionOnSet(f, U)
<1> DEFINE G == { T \in SUBSET S : SumFunctionOnSet(f, T \cup U)
                                     = SumFunctionOnSet(f, T) + SumFunctionOnSet(f, U) }
<1>1. IsSummable(f, S \cup U)
  BY FS_Union DEF IsSummable
<1>u. SumFunctionOnSet(f, U) \in Int
  BY SumInt
<1>2. {} \in G
  <2>1. {} \cup U = U
    OBVIOUS
  <2> QED BY <1>u, <2>1, SumEmpty
<1>3. ASSUME NEW T \in SUBSET S, NEW x \in S, T \in G, x \notin T PROVE T \cup {x} \in G
  <2>1. IsSummable(f, T) /\ IsSummable(f, T \cup U)
    BY <1>1, SummableSubset
  <2>2. f[x] \in Int /\ x \notin T \cup U
    BY <1>3 DEF IsSummable
  <2>3. SumFunctionOnSet(f, T \cup {x}) = f[x] + SumFunctionOnSet(f, T)
    BY <2>1, <2>2, <1>3, SumAdd
  <2>4. SumFunctionOnSet(f, (T \cup U) \cup {x}) = f[x] + SumFunctionOnSet(f, T \cup U)
    BY <2>1, <2>2, SumAdd
  <2>5. SumFunctionOnSet(f, (T \cup {x}) \cup U) = SumFunctionOnSet(f, (T \cup U) \cup {x})
    <3>1. (T \cup {x}) \cup U = (T \cup U) \cup {x}
      OBVIOUS
    <3> QED BY <3>1, Zenon
  <2>6. SumFunctionOnSet(f, T) \in Int
    BY <2>1, SumInt
  <2>7. SumFunctionOnSet(f, T \cup U) = SumFunctionOnSet(f, T) + SumFunctionOnSet(f, U)
    BY <1>3
  <2>8. SumFunctionOnSet(f, (T \cup {x}) \cup U)
          = SumFunctionOnSet(f, T \cup {x}) + SumFunctionOnSet(f, U)
    BY <1>u, <2>2, <2>3, <2>4, <2>5, <2>6, <2>7
  <2> QED BY <2>8
<1>4. \A T \in SUBSET S : T \in G
  <2> HIDE DEF G
  <2> QED BY <1>2, <1>3, SetInduction DEF IsSummable
<1> QED
  BY <1>1, <1>4

LEMMA SumMonotone ==
  ASSUME NEW f, NEW g, NEW S, IsSummable(f, S), IsSummable(g, S),
         \A x \in S : f[x] <= g[x]
  PROVE  SumFunctionOnSet(f, S) <= SumFunctionOnSet(g, S)
<1> DEFINE G == { T \in SUBSET S : SumFunctionOnSet(f, T) <= SumFunctionOnSet(g, T) }
<1>2. {} \in G
  BY SumEmpty
<1>3. ASSUME NEW T \in SUBSET S, NEW x \in S, T \in G, x \notin T PROVE T \cup {x} \in G
  <2>1. IsSummable(f, T) /\ IsSummable(g, T)
    BY SummableSubset
  <2>2. f[x] \in Int /\ g[x] \in Int /\ f[x] <= g[x]
    BY DEF IsSummable
  <2>3. SumFunctionOnSet(f, T \cup {x}) = f[x] + SumFunctionOnSet(f, T)
    BY <2>1, <2>2, <1>3, SumAdd
  <2>4. SumFunctionOnSet(g, T \cup {x}) = g[x] + SumFunctionOnSet(g, T)
    BY <2>1, <2>2, <1>3, SumAdd
  <2>6. SumFunctionOnSet(f, T) \in Int /\ SumFunctionOnSet(g, T) \in Int
    BY <2>1, SumInt
  <2> QED BY <1>3, <2>2, <2>3, <2>4, <2>6
<1>4. \A T \in SUBSET S : T \in G
  <2> HIDE DEF G
  <2> QED BY <1>2, <1>3, SetInduction DEF IsSummable
<1> QED
  BY <1>4

LEMMA SumConstant ==
  ASSUME NEW f, NEW S, IsFiniteSet(S), NEW c \in Int, \A x \in S : f[x] = c
  PROVE  IsSummable(f, S) /\ SumFunctionOnSet(f, S) = c * Cardinality(S)
<1> DEFINE G == { T \in SUBSET S : SumFunctionOnSet(f, T) = c * Cardinality(T) }
<1>1. IsSummable(f, S)
  BY DEF IsSummable
<1>2. {} \in G
  BY SumEmpty, FS_EmptySet
<1>3. ASSUME NEW T \in SUBSET S, NEW x \in S, T \in G, x \notin T PROVE T \cup {x} \in G
  <2>1. IsSummable(f, T) /\ IsFiniteSet(T)
    BY <1>1, SummableSubset DEF IsSummable
  <2>3. SumFunctionOnSet(f, T \cup {x}) = c + SumFunctionOnSet(f, T)
    BY <2>1, <1>3, SumAdd
  <2>4. Cardinality(T) \in Nat /\ Cardinality(T \cup {x}) = Cardinality(T) + 1
    BY <2>1, <1>3, FS_CardinalityType, FS_AddElement
  <2>5. c * (Cardinality(T) + 1) = c + c * Cardinality(T)
    BY <2>4
  <2> QED BY <1>3, <2>3, <2>4, <2>5
<1>4. \A T \in SUBSET S : T \in G
  <2> HIDE DEF G
  <2> QED BY <1>2, <1>3, SetInduction
<1> QED
  BY <1>1, <1>4

LEMMA SumScaled ==
  ASSUME NEW f, NEW h, NEW S, IsSummable(f, S), NEW c \in Int, \A x \in S : h[x] = c * f[x]
  PROVE  IsSummable(h, S) /\ SumFunctionOnSet(h, S) = c * SumFunctionOnSet(f, S)
<1> DEFINE G == { T \in SUBSET S : SumFunctionOnSet(h, T) = c * SumFunctionOnSet(f, T) }
<1>1. IsSummable(h, S)
  BY DEF IsSummable
<1>2. {} \in G
  BY SumEmpty
<1>3. ASSUME NEW T \in SUBSET S, NEW x \in S, T \in G, x \notin T PROVE T \cup {x} \in G
  <2>1. IsSummable(f, T) /\ IsSummable(h, T)
    BY <1>1, SummableSubset
  <2>2. f[x] \in Int /\ h[x] \in Int /\ h[x] = c * f[x]
    BY DEF IsSummable
  <2>3. SumFunctionOnSet(f, T \cup {x}) = f[x] + SumFunctionOnSet(f, T)
    BY <2>1, <2>2, <1>3, SumAdd
  <2>4. SumFunctionOnSet(h, T \cup {x}) = c * f[x] + SumFunctionOnSet(h, T)
    BY <2>1, <2>2, <1>3, SumAdd
  <2>5. SumFunctionOnSet(f, T) \in Int
    BY <2>1, SumInt
  <2>6. c * (f[x] + SumFunctionOnSet(f, T)) = c * f[x] + c * SumFunctionOnSet(f, T)
    BY <2>2, <2>5
  <2> QED BY <1>3, <2>3, <2>4, <2>6
<1>4. \A T \in SUBSET S : T \in G
  <2> HIDE DEF G
  <2> QED BY <1>2, <1>3, SetInduction DEF IsSummable
<1> QED
  BY <1>1, <1>4

\* Nothing negative adds up to nothing negative, and to no less than any of it.
LEMMA SumOfNat ==
  ASSUME NEW f, NEW S, IsFiniteSet(S), \A x \in S : f[x] \in Nat
  PROVE  /\ IsSummable(f, S) /\ SumFunctionOnSet(f, S) \in Nat
         /\ \A x \in S : f[x] <= SumFunctionOnSet(f, S)
<1> DEFINE zero == [x \in S |-> 0]
<1>1. IsSummable(f, S)
  BY DEF IsSummable
<1>2. ASSUME NEW T \in SUBSET S PROVE SumFunctionOnSet(f, T) \in Nat
  <2>1. IsSummable(f, T) /\ IsFiniteSet(T)
    BY <1>1, SummableSubset DEF IsSummable
  <2>2. \A x \in T : zero[x] = 0
    OBVIOUS
  <2> HIDE DEF zero
  <2>3. IsSummable(zero, T) /\ SumFunctionOnSet(zero, T) = 0 * Cardinality(T)
    BY <2>1, <2>2, SumConstant
  <2>4. SumFunctionOnSet(zero, T) <= SumFunctionOnSet(f, T)
    BY <2>1, <2>2, <2>3, SumMonotone
  <2>5. Cardinality(T) \in Nat /\ SumFunctionOnSet(f, T) \in Int
    BY <2>1, SumInt, FS_CardinalityType
  <2> QED BY <2>3, <2>4, <2>5
<1>3. ASSUME NEW x \in S PROVE f[x] <= SumFunctionOnSet(f, S)
  <2>1. SumFunctionOnSet(f, S) = f[x] + SumFunctionOnSet(f, S \ {x})
    BY <1>1, SumSplit
  <2>2. SumFunctionOnSet(f, S \ {x}) \in Nat
    BY <1>2
  <2> QED BY <2>1, <2>2
<1> QED
  BY <1>1, <1>2, <1>3

\* What is 0 outside T adds nothing.
LEMMA SumSupport ==
  ASSUME NEW f, NEW S, IsSummable(f, S), NEW T \in SUBSET S, \A x \in S \ T : f[x] = 0
  PROVE  SumFunctionOnSet(f, S) = SumFunctionOnSet(f, T)
<1>1. IsSummable(f, T) /\ IsSummable(f, S \ T) /\ IsFiniteSet(S \ T)
  BY SummableSubset DEF IsSummable
<1>2. SumFunctionOnSet(f, S \ T) = 0 * Cardinality(S \ T)
  BY <1>1, SumConstant
<1>3. Cardinality(S \ T) \in Nat /\ SumFunctionOnSet(f, T) \in Int
  BY <1>1, FS_CardinalityType, SumInt
<1>4. SumFunctionOnSet(f, T \cup (S \ T)) = SumFunctionOnSet(f, T) + SumFunctionOnSet(f, S \ T)
  BY <1>1, SumUnion
<1>5. T \cup (S \ T) = S
  OBVIOUS
<1>6. SumFunctionOnSet(f, T \cup (S \ T)) = SumFunctionOnSet(f, S)
  BY <1>5, Zenon
<1> QED
  BY <1>2, <1>3, <1>4, <1>6

\* One value changes.
LEMMA SumUpdate ==
  ASSUME NEW f, NEW g, NEW S, IsSummable(f, S), IsSummable(g, S), NEW x \in S,
         \A y \in S : y # x => g[y] = f[y]
  PROVE  SumFunctionOnSet(g, S) = SumFunctionOnSet(f, S) + (g[x] - f[x])
<1>1. IsSummable(f, S \ {x})
  BY SummableSubset
<1>2. SumFunctionOnSet(g, S \ {x}) = SumFunctionOnSet(f, S \ {x})
  BY <1>1, SumEqual
<1>3. SumFunctionOnSet(f, S) = f[x] + SumFunctionOnSet(f, S \ {x})
  BY SumSplit
<1>4. SumFunctionOnSet(g, S) = g[x] + SumFunctionOnSet(g, S \ {x})
  BY SumSplit
<1>5. f[x] \in Int /\ g[x] \in Int /\ SumFunctionOnSet(f, S \ {x}) \in Int
  BY <1>1, SumInt DEF IsSummable
<1> QED BY <1>2, <1>3, <1>4, <1>5

\* All but one are 0.
LEMMA SumPoint ==
  ASSUME NEW f, NEW S, IsFiniteSet(S), NEW x \in S, f[x] \in Int, \A y \in S \ {x} : f[y] = 0
  PROVE  IsSummable(f, S) /\ SumFunctionOnSet(f, S) = f[x]
<1>1. IsSummable(f, S)
  BY DEF IsSummable
<1>2. SumFunctionOnSet(f, S) = SumFunctionOnSet(f, {x})
  BY <1>1, SumSupport
<1>3. IsSummable(f, {x})
  BY <1>1, SummableSubset
<1>4. SumFunctionOnSet(f, {x}) = f[x] + SumFunctionOnSet(f, {x} \ {x})
  BY <1>3, SumSplit
<1>5. SumFunctionOnSet(f, {x} \ {x}) = SumFunctionOnSet(f, {})
  <2>1. {x} \ {x} = {}
    OBVIOUS
  <2> QED BY <2>1, Zenon
<1> QED BY <1>1, <1>2, <1>4, <1>5, SumEmpty

LEMMA SumMinus ==
  ASSUME NEW f, NEW g, NEW h, NEW S, IsSummable(f, S), IsSummable(g, S),
         \A x \in S : h[x] = f[x] - g[x]
  PROVE  /\ IsSummable(h, S)
         /\ SumFunctionOnSet(h, S) = SumFunctionOnSet(f, S) - SumFunctionOnSet(g, S)
<1>1. IsSummable(h, S)
  BY DEF IsSummable
<1>2. \A x \in S : f[x] = h[x] + g[x]
  BY DEF IsSummable
<1>3. SumFunctionOnSet(f, S) = SumFunctionOnSet(h, S) + SumFunctionOnSet(g, S)
  BY <1>1, <1>2, SumOfSums
<1>4. SumFunctionOnSet(h, S) \in Int /\ SumFunctionOnSet(g, S) \in Int
  BY <1>1, SumInt
<1> QED BY <1>1, <1>3, <1>4

\* A table has one sum, by rows or by columns.
LEMMA SumSwap ==
  ASSUME NEW S, IsFiniteSet(S), NEW T, IsFiniteSet(T), NEW f,
         \A i \in S, j \in T : f[<<i, j>>] \in Int
  PROVE  LET row == [i \in S |-> SumFunctionOnSet([j \in T |-> f[<<i, j>>]], T)]
             col == [j \in T |-> SumFunctionOnSet([i \in S |-> f[<<i, j>>]], S)]
         IN  /\ IsSummable(row, S) /\ IsSummable(col, T)
             /\ SumFunctionOnSet(row, S) = SumFunctionOnSet(col, T)
<1> DEFINE line(i)   == [j \in T |-> f[<<i, j>>]]
           row       == [i \in S |-> SumFunctionOnSet(line(i), T)]
           column(j) == [i \in S |-> f[<<i, j>>]]
           colOn(R)  == [j \in T |-> SumFunctionOnSet(column(j), R)]
           G == { R \in SUBSET S : SumFunctionOnSet(row, R) = SumFunctionOnSet(colOn(R), T) }
<1>1. \A i \in S : IsSummable(line(i), T)
  BY DEF IsSummable
<1>2. \A j \in T : IsSummable(column(j), S)
  BY DEF IsSummable
<1>3. \A i \in S : row[i] = SumFunctionOnSet(line(i), T) /\ \A j \in T : line(i)[j] = f[<<i, j>>]
  OBVIOUS
<1>4. \A j \in T : \A i \in S : column(j)[i] = f[<<i, j>>]
  OBVIOUS
<1>5. \A R : \A j \in T : colOn(R)[j] = SumFunctionOnSet(column(j), R)
  OBVIOUS
<1> HIDE DEF line, column, row, colOn
<1>6. IsSummable(row, S)
  BY <1>1, <1>3, SumInt DEF IsSummable
<1>7. ASSUME NEW R \in SUBSET S PROVE IsSummable(colOn(R), T)
  <2>1. \A j \in T : colOn(R)[j] \in Int
    BY <1>2, <1>5, SumInt, SummableSubset
  <2> QED BY <2>1 DEF IsSummable
<1>8. {} \in G
  <2>1. \A j \in T : colOn({})[j] = 0
    BY <1>5, SumEmpty
  <2>2. SumFunctionOnSet(colOn({}), T) = 0 * Cardinality(T)
    BY <2>1, SumConstant
  <2> QED BY <2>2, SumEmpty, FS_CardinalityType
<1>9. ASSUME NEW R \in SUBSET S, NEW x \in S, R \in G, x \notin R PROVE R \cup {x} \in G
  <2>1. IsSummable(row, R) /\ row[x] \in Int
    BY <1>6, SummableSubset DEF IsSummable
  <2>2. SumFunctionOnSet(row, R \cup {x}) = row[x] + SumFunctionOnSet(row, R)
    BY <1>9, <2>1, SumAdd
  <2>3. \A j \in T : colOn(R \cup {x})[j] = line(x)[j] + colOn(R)[j]
    <3> SUFFICES ASSUME NEW j \in T PROVE colOn(R \cup {x})[j] = line(x)[j] + colOn(R)[j]
      OBVIOUS
    <3>1. IsSummable(column(j), R) /\ column(j)[x] \in Int
      BY <1>2, SummableSubset DEF IsSummable
    <3>2. SumFunctionOnSet(column(j), R \cup {x})
            = column(j)[x] + SumFunctionOnSet(column(j), R)
      BY <1>9, <3>1, SumAdd
    <3>3. column(j)[x] = line(x)[j]
      BY <1>3, <1>4
    <3> QED BY <1>5, <3>2, <3>3
  <2>4. SumFunctionOnSet(colOn(R \cup {x}), T)
          = SumFunctionOnSet(line(x), T) + SumFunctionOnSet(colOn(R), T)
    BY <1>1, <1>7, <2>3, SumOfSums
  <2>5. SumFunctionOnSet(row, R) = SumFunctionOnSet(colOn(R), T)
    BY <1>9
  <2>6. SumFunctionOnSet(row, R \cup {x}) = SumFunctionOnSet(colOn(R \cup {x}), T)
    BY <1>3, <2>2, <2>4, <2>5
  <2> QED BY <2>6
<1>10. S \in G
  <2> HIDE DEF G
  <2> QED BY <1>8, <1>9, SetInduction
<1> QED BY <1>6, <1>7, <1>10 DEF row, colOn, line, column

\* The same values under other names.
LEMMA SumImage ==
  ASSUME NEW f, NEW S, IsSummable(f, S), NEW g, NEW h,
         \A x \in S : h[g[x]] = f[x],
         \A x, y \in S : g[x] = g[y] => x = y
  PROVE  /\ IsSummable(h, { g[x] : x \in S })
         /\ SumFunctionOnSet(h, { g[x] : x \in S }) = SumFunctionOnSet(f, S)
<1> DEFINE img(R) == { g[x] : x \in R }
           G == { R \in SUBSET S : /\ IsSummable(h, img(R))
                                   /\ SumFunctionOnSet(h, img(R)) = SumFunctionOnSet(f, R) }
<1>1. {} \in G
  <2>1. img({}) = {}
    OBVIOUS
  <2> HIDE DEF img
  <2>2. SumFunctionOnSet(h, img({})) = SumFunctionOnSet(h, {})
    BY <2>1, Zenon
  <2>3. IsSummable(h, img({}))
    BY <2>1, FS_EmptySet DEF IsSummable
  <2> QED BY <2>2, <2>3, SumEmpty
<1>2. ASSUME NEW R \in SUBSET S, NEW x \in S, R \in G, x \notin R PROVE R \cup {x} \in G
  <2>1. img(R \cup {x}) = img(R) \cup {g[x]} /\ g[x] \notin img(R)
    BY <1>2
  <2>2. IsSummable(h, img(R)) /\ SumFunctionOnSet(h, img(R)) = SumFunctionOnSet(f, R)
    BY <1>2
  <2> HIDE DEF img
  <2>3. IsSummable(f, R) /\ f[x] \in Int /\ h[g[x]] = f[x]
    BY SummableSubset DEF IsSummable
  <2>4. SumFunctionOnSet(f, R \cup {x}) = f[x] + SumFunctionOnSet(f, R)
    BY <1>2, <2>3, SumAdd
  <2>5. /\ IsSummable(h, img(R) \cup {g[x]})
        /\ SumFunctionOnSet(h, img(R) \cup {g[x]}) = h[g[x]] + SumFunctionOnSet(h, img(R))
    BY <2>1, <2>2, <2>3, SumAdd
  <2>6. SumFunctionOnSet(h, img(R \cup {x})) = SumFunctionOnSet(h, img(R) \cup {g[x]})
    BY <2>1, Zenon
  <2>7. IsSummable(h, img(R \cup {x}))
    BY <2>1, <2>5
  <2> QED BY <2>2, <2>3, <2>4, <2>5, <2>6, <2>7
<1>3. S \in G
  <2> HIDE DEF G
  <2> QED BY <1>1, <1>2, SetInduction DEF IsSummable
<1> QED BY <1>3

\* What is shared out to owners is all there is.
LEMMA SumPartition ==
  ASSUME NEW f, NEW Q, IsSummable(f, Q), NEW M, IsFiniteSet(M), NEW owner,
         \A q \in Q : owner[q] \in M
  PROVE  LET part == [u \in M |-> SumFunctionOnSet(f, { q \in Q : owner[q] = u })]
         IN  IsSummable(part, M) /\ SumFunctionOnSet(part, M) = SumFunctionOnSet(f, Q)
<1> DEFINE part == [u \in M |-> SumFunctionOnSet(f, { q \in Q : owner[q] = u })]
           t == [p \in M \X Q |-> IF owner[p[2]] = p[1] THEN f[p[2]] ELSE 0]
           line(u) == [q \in Q |-> t[<<u, q>>]]
           column(q) == [u \in M |-> t[<<u, q>>]]
           row == [u \in M |-> SumFunctionOnSet(line(u), Q)]
           col == [q \in Q |-> SumFunctionOnSet(column(q), M)]
<1>1. \A u \in M, q \in Q : /\ owner[q] = u => t[<<u, q>>] = f[q]
                            /\ owner[q] # u => t[<<u, q>>] = 0
  OBVIOUS
<1> HIDE DEF t
<1>f. \A q \in Q : f[q] \in Int
  BY DEF IsSummable
<1>2. \A u \in M, q \in Q : t[<<u, q>>] \in Int
  <2> SUFFICES ASSUME NEW u \in M, NEW q \in Q PROVE t[<<u, q>>] \in Int
    OBVIOUS
  <2>1. t[<<u, q>>] \in {f[q], 0}
    BY <1>1, Zenon
  <2>2. f[q] \in Int /\ 0 \in Int
    BY <1>f
  <2> QED BY <2>1, <2>2, Zenon
<1>3. IsSummable(row, M) /\ IsSummable(col, Q)
      /\ SumFunctionOnSet(row, M) = SumFunctionOnSet(col, Q)
  BY <1>2, SumSwap DEF IsSummable
<1>4. /\ \A u \in M : row[u] = SumFunctionOnSet(line(u), Q)
      /\ \A q \in Q : col[q] = SumFunctionOnSet(column(q), M)
      /\ \A u \in M, q \in Q : line(u)[q] = t[<<u, q>>] /\ column(q)[u] = t[<<u, q>>]
      /\ \A u \in M : part[u] = SumFunctionOnSet(f, { q \in Q : owner[q] = u })
  OBVIOUS
<1> HIDE DEF row, col, line, column, part
<1>5. \A q \in Q : col[q] = f[q]
  <2> SUFFICES ASSUME NEW q \in Q PROVE col[q] = f[q]
    OBVIOUS
  <2>0. \A u \in M : /\ owner[q] = u => column(q)[u] = f[q]
                     /\ owner[q] # u => column(q)[u] = 0
    <3> SUFFICES ASSUME NEW u \in M
                 PROVE  /\ owner[q] = u => column(q)[u] = f[q]
                        /\ owner[q] # u => column(q)[u] = 0
      OBVIOUS
    <3>1. column(q)[u] = t[<<u, q>>]
      BY <1>4
    <3>2. /\ owner[q] = u => t[<<u, q>>] = f[q]
          /\ owner[q] # u => t[<<u, q>>] = 0
      BY <1>1, Zenon
    <3> QED BY <3>1, <3>2, Zenon
  <2>1. /\ column(q)[owner[q]] = f[q] /\ f[q] \in Int /\ owner[q] \in M
        /\ \A u \in M \ {owner[q]} : column(q)[u] = 0
    BY <1>f, <2>0
  <2>2. SumFunctionOnSet(column(q), M) = f[q]
    BY <2>1, SumPoint
  <2> QED BY <1>4, <2>2
<1>6. \A u \in M : part[u] = row[u]
  <2> SUFFICES ASSUME NEW u \in M PROVE part[u] = row[u]
    OBVIOUS
  <2> DEFINE R == { q \in Q : owner[q] = u }
  <2>0. \A q \in Q : /\ owner[q] = u => line(u)[q] = f[q]
                     /\ owner[q] # u => line(u)[q] = 0
    BY <1>1, <1>4
  <2>1. /\ R \in SUBSET Q /\ \A q \in R : f[q] = line(u)[q]
        /\ \A q \in Q \ R : line(u)[q] = 0
    BY <2>0
  <2>2. IsSummable(line(u), Q)
    BY <1>2, <1>4 DEF IsSummable
  <2>3. part[u] = SumFunctionOnSet(f, R)
    BY <1>4
  <2> HIDE DEF R
  <2>4. SumFunctionOnSet(line(u), Q) = SumFunctionOnSet(line(u), R)
    BY <2>1, <2>2, SumSupport
  <2>5. IsSummable(line(u), R)
    BY <2>1, <2>2, SummableSubset
  <2>6. SumFunctionOnSet(f, R) = SumFunctionOnSet(line(u), R)
    BY <2>1, <2>5, SumEqual
  <2> QED BY <1>4, <2>3, <2>4, <2>6
<1>7. IsSummable(part, M) /\ SumFunctionOnSet(part, M) = SumFunctionOnSet(row, M)
  BY <1>3, <1>6, SumEqual
<1>8. SumFunctionOnSet(col, Q) = SumFunctionOnSet(f, Q)
  BY <1>5, SumEqual
<1> QED BY <1>3, <1>7, <1>8 DEF part

-----------------------------------------------------------------------------
(* Max, Min and division *)

LEMMA MaxIn ==
  ASSUME NEW S, IsFiniteSet(S), S # {}, S \subseteq Int
  PROVE  Max(S) \in S /\ \A y \in S : y <= Max(S)
<1> DEFINE G == { T \in SUBSET S : T # {} => \E x \in T : \A y \in T : x >= y }
<1>1. {} \in G
  OBVIOUS
<1>2. ASSUME NEW T \in SUBSET S, NEW z \in S, T \in G, z \notin T PROVE T \cup {z} \in G
  <2>1. CASE T = {}
    <3>1. z >= z
      OBVIOUS
    <3> QED BY <2>1, <3>1
  <2>2. CASE T # {}
    <3>1. PICK x \in T : \A y \in T : x >= y
      BY <1>2, <2>2
    <3>2. x \in Int /\ z \in Int /\ T \subseteq Int
      OBVIOUS
    <3>3. CASE x >= z
      BY <3>1, <3>3
    <3>4. CASE z > x
      <4>1. \A y \in T \cup {z} : z >= y
        BY <3>1, <3>2, <3>4
      <4> QED BY <4>1
    <3> QED BY <3>2, <3>3, <3>4
  <2> QED BY <2>1, <2>2
<1>3. \A T \in SUBSET S : T \in G
  <2> HIDE DEF G
  <2> QED BY <1>1, <1>2, SetInduction
<1>4. \E x \in S : \A y \in S : x >= y
  BY <1>3
<1>5. Max(S) \in S /\ \A y \in S : Max(S) >= y
  BY <1>4 DEF Max
<1> QED
  BY <1>5

LEMMA MinIn ==
  ASSUME NEW S, IsFiniteSet(S), S # {}, S \subseteq Int
  PROVE  Min(S) \in S /\ \A y \in S : Min(S) <= y
<1> DEFINE minus == { -x : x \in S }
           f == [x \in S |-> -x]
<1>1. IsFiniteSet(minus) /\ minus # {} /\ minus \subseteq Int
  <2>1. f \in Surjection(S, minus)
    BY DEF Surjection
  <2>2. minus # {} /\ minus \subseteq Int
    <3>1. PICK x : x \in S
      OBVIOUS
    <3>2. -x \in minus
      BY <3>1
    <3>3. minus \subseteq Int
      OBVIOUS
    <3> QED BY <3>2, <3>3
  <2> HIDE DEF f, minus
  <2> QED BY <2>1, <2>2, FS_Surjection
<1>2. PICK m \in minus : \A y \in minus : y <= m
  <2> HIDE DEF minus
  <2> QED BY <1>1, MaxIn
<1>3. PICK x \in S : m = -x
  OBVIOUS
<1>4. \A y \in S : x =< y
  <2> SUFFICES ASSUME NEW y \in S PROVE x =< y
    OBVIOUS
  <2>1. -y <= -x
    BY <1>2, <1>3
  <2> QED BY <2>1
<1> QED
  BY <1>4 DEF Min

LEMMA MinOfTwo ==
  ASSUME NEW a \in Int, NEW b \in Int
  PROVE  Min({a, b}) = IF a <= b THEN a ELSE b
BY DEF Min

LEMMA MaxOfTwo ==
  ASSUME NEW a \in Int, NEW b \in Int
  PROVE  Max({a, b}) = IF a <= b THEN b ELSE a
BY DEF Max

LEMMA Division ==
  ASSUME NEW a \in Int, NEW n \in Nat \ {0}
  PROVE  /\ a \div n \in Int /\ a % n \in 0 .. n - 1
         /\ n * (a \div n) + (a % n) = a
         /\ a \in Nat => a \div n \in Nat
OBVIOUS

-----------------------------------------------------------------------------
(* calculate_shares *)

\* Who can be asked to share a bill, and how their headcounts count.
IsWeights(weight) == /\ IsFiniteSet(DOMAIN weight) /\ DOMAIN weight # {} /\ DOMAIN weight \subseteq Int
                     /\ \A u \in DOMAIN weight : weight[u] \in Nat \ {0}

LEMMA EffectiveWeightPositive ==
  ASSUME NEW mode, NEW w \in Nat \ {0}
  PROVE  /\ EffectiveWeight(mode, w) \in Nat \ {0}
         /\ mode # "equal" \/ w = 1 => EffectiveWeight(mode, w) = w
<1>1. Max({1, w}) = w
  BY MaxOfTwo
<1> QED
  BY <1>1 DEF EffectiveWeight

\* Nothing is lost, nobody pays less than 0, nobody but the last by id more than
\* their exact part, and the last one less than one unit for each of the others.
THEOREM SharesAreFair ==
  ASSUME NEW total \in Nat, NEW weight, IsWeights(weight), NEW mode
  PROVE  LET people == DOMAIN weight
             wt     == [u \in people |-> EffectiveWeight(mode, weight[u])]
             shares == CalculateShares(total, weight, mode)
         IN  /\ DOMAIN shares = people /\ \A u \in people : shares[u] \in Nat
             /\ shares = [u \in people |-> shares[u]]
             /\ SumFunction(shares) = total
             /\ SumFunction(wt) \in Nat \ {0}
             /\ \A u \in people :
                  LET excess == shares[u] * SumFunction(wt) - total * wt[u]
                  IN  /\ excess > -SumFunction(wt)
                      /\ u # Max(people) => excess <= 0
                      /\ u = Max(people) =>
                           excess >= 0 /\ excess < SumFunction(wt) * Cardinality(people)
<1> DEFINE people == DOMAIN weight
           wt     == [u \in people |-> EffectiveWeight(mode, weight[u])]
           W      == SumFunction(wt)
           floor  == [u \in people |-> (total * wt[u]) \div W]
           last   == Max(people)
           others == people \ {last}
           rest   == SumFunctionOnSet(floor, others)
           shares == CalculateShares(total, weight, mode)
<1>1. \A u \in people : wt[u] \in Nat \ {0}
  BY EffectiveWeightPositive DEF IsWeights
<1>2. IsFiniteSet(people) /\ last \in people /\ others \in SUBSET people /\ IsFiniteSet(others)
  BY MaxIn, FS_RemoveElement DEF IsWeights
<1>3. shares = [floor EXCEPT ![last] = total - rest]
  BY DEF CalculateShares
<1>4. W = SumFunctionOnSet(wt, people)
  BY DEF SumFunction
<1> HIDE DEF W, last, shares
<1>5. IsSummable(wt, people) /\ W \in Nat \ {0}
  <2> HIDE DEF wt, people
  <2> QED BY <1>1, <1>2, <1>4, SumOfNat
<1>6. \A u \in people : floor[u] \in Nat /\ W * floor[u] <= total * wt[u]
                        /\ total * wt[u] < W * floor[u] + W
  <2> SUFFICES ASSUME NEW u \in people
               PROVE  /\ floor[u] \in Nat /\ W * floor[u] <= total * wt[u]
                      /\ total * wt[u] < W * floor[u] + W
    OBVIOUS
  <2> DEFINE a == total * wt[u]
  <2>1. a \in Nat
    BY <1>1
  <2>2. floor[u] = a \div W
    OBVIOUS
  <2> HIDE DEF a, floor
  <2>3. floor[u] \in Nat /\ a % W \in 0 .. W - 1 /\ W * floor[u] + (a % W) = a
    <3>1. a \div W \in Nat /\ a % W \in 0 .. W - 1 /\ W * (a \div W) + (a % W) = a
      <4>1. a \in Int /\ W \in Nat \ {0}
        BY <1>5, <2>1
      <4> QED BY <2>1, <4>1, Division
    <3> QED BY <2>2, <3>1
  <2>4. W * floor[u] \in Int /\ a % W \in Int
    BY <1>5, <2>3
  <2>5. W * floor[u] <= a /\ a < W * floor[u] + W
    BY <1>5, <2>1, <2>3, <2>4
  <2> QED BY <2>3, <2>5 DEF a
<1> HIDE DEF floor, people, others
\* W * rest lies between total * (W - wt[last]) and one W less for each of the others.
<1> DEFINE scaled == [u \in people |-> W * floor[u]]
           exact  == [u \in people |-> total * wt[u]]
           above  == [u \in people |-> W * floor[u] + W]
           units  == [u \in people |-> W]
           part   == SumFunctionOnSet(wt, others)
<1>7. rest \in Nat /\ IsSummable(floor, others)
  BY <1>2, <1>6, SumOfNat
<1>8. W = wt[last] + part /\ part \in Int /\ IsSummable(wt, others)
  BY <1>2, <1>4, <1>5, SumSplit, SummableSubset, SumInt DEF others
<1>9. IsSummable(scaled, others) /\ SumFunctionOnSet(scaled, others) = W * rest
  <2>1. \A u \in others : scaled[u] = W * floor[u]
    BY <1>2
  <2> HIDE DEF scaled
  <2> QED BY <1>5, <1>7, <2>1, SumScaled
<1>10. IsSummable(exact, others) /\ SumFunctionOnSet(exact, others) = total * part
  <2>1. \A u \in others : exact[u] = total * wt[u]
    BY <1>2
  <2>2. total \in Int /\ IsSummable(wt, others)
    BY <1>8
  <2> HIDE DEF exact, wt, part
  <2>3. IsSummable(exact, others)
        /\ SumFunctionOnSet(exact, others) = total * SumFunctionOnSet(wt, others)
    BY <2>1, <2>2, SumScaled
  <2> QED BY <2>3 DEF part
<1>11. IsSummable(units, others) /\ SumFunctionOnSet(units, others) = W * Cardinality(others)
  BY <1>2, <1>5, SumConstant
<1>12. IsSummable(above, others)
       /\ SumFunctionOnSet(above, others) = W * rest + W * Cardinality(others)
  <2>1. \A u \in others : above[u] = scaled[u] + units[u]
    BY <1>2
  <2> HIDE DEF above, scaled, units
  <2> QED BY <1>9, <1>11, <2>1, SumOfSums
<1>13. W * rest <= total * part
  <2>1. \A u \in others : scaled[u] <= exact[u]
    BY <1>2, <1>6
  <2> HIDE DEF scaled, exact
  <2> QED BY <1>9, <1>10, <2>1, SumMonotone
<1>14. total * part <= W * rest + W * Cardinality(others)
  <2>1. \A u \in others : exact[u] <= above[u]
    <3> SUFFICES ASSUME NEW u \in others PROVE exact[u] <= above[u]
      OBVIOUS
    <3>1. u \in people /\ exact[u] = total * wt[u] /\ above[u] = W * floor[u] + W
      BY <1>2
    <3>2. W * floor[u] \in Int /\ total * wt[u] \in Int
      BY <1>1, <1>5, <1>6, <3>1
    <3> QED BY <1>5, <1>6, <3>1, <3>2
  <2> HIDE DEF above, exact
  <2> QED BY <1>10, <1>12, <2>1, SumMonotone
<1>15. Cardinality(people) \in Nat /\ Cardinality(others) = Cardinality(people) - 1
  BY <1>2, FS_RemoveElement, FS_CardinalityType DEF others
<1> HIDE DEF scaled, exact, above, units, part, rest
<1> DEFINE x == total - rest
<1>16. x * W = total * W - W * rest /\ total * W = total * wt[last] + total * part
  BY <1>1, <1>2, <1>5, <1>7, <1>8
<1>17. x * W - total * wt[last] >= 0
       /\ x * W - total * wt[last] < W * Cardinality(people)
  <2>1. W * Cardinality(others) = W * Cardinality(people) - W
    BY <1>5, <1>15
  <2>2. /\ W * rest \in Int /\ total * part \in Int /\ total * wt[last] \in Int
        /\ W * Cardinality(people) \in Int
    BY <1>1, <1>2, <1>5, <1>7, <1>8, <1>15
  <2> HIDE DEF x
  <2> QED BY <1>5, <1>13, <1>14, <1>16, <2>1, <2>2
<1>18. x \in Nat
  <2>1. x \in Int
    BY <1>7
  <2>2. total * wt[last] \in Nat
    BY <1>1, <1>2
  <2>3. x * W >= 0
    <3>1. x * W \in Int
      BY <1>5, <2>1
    <3> HIDE DEF x
    <3> QED BY <1>17, <2>2, <3>1
  <2> HIDE DEF x
  <2>4. x >= 0
    BY <1>5, <2>1, <2>3
  <2> QED BY <2>1, <2>4
<1>19. /\ DOMAIN shares = people /\ shares[last] = x
       /\ \A u \in others : shares[u] = floor[u]
       /\ shares = [u \in people |-> shares[u]]
  <2>1. DOMAIN floor = people /\ floor = [u \in people |-> floor[u]]
    BY DEF floor
  <2>2. shares = [u \in people |-> IF u = last THEN x ELSE floor[u]]
    BY <1>3, <2>1
  <2> QED BY <1>2, <2>2 DEF others
<1> HIDE DEF x
<1>20. \A u \in people : shares[u] \in Nat
  BY <1>6, <1>18, <1>19 DEF others
<1>21. SumFunction(shares) = total
  <2>1. SumFunction(shares) = SumFunctionOnSet(shares, people)
    BY <1>19 DEF SumFunction
  <2>2. IsSummable(shares, people)
    BY <1>2, <1>20, SumOfNat
  <2>3. SumFunctionOnSet(shares, people) = x + SumFunctionOnSet(shares, others)
    BY <1>2, <1>19, <2>2, SumSplit DEF others
  <2>4. SumFunctionOnSet(shares, others) = rest
    BY <1>7, <1>19, SumEqual DEF rest
  <2> QED BY <1>7, <2>1, <2>3, <2>4 DEF x
<1>22. ASSUME NEW u \in people
       PROVE  LET excess == shares[u] * W - total * wt[u]
              IN  /\ excess > -W
                  /\ u # last => excess <= 0
                  /\ u = last => excess >= 0 /\ excess < W * Cardinality(people)
  <2>1. CASE u = last
    BY <1>1, <1>2, <1>5, <1>17, <1>18, <1>19, <2>1
  <2>2. CASE u # last
    <3>1. shares[u] = floor[u] /\ floor[u] \in Nat
      BY <1>6, <1>19, <2>2 DEF others
    <3>2. W * floor[u] <= total * wt[u] /\ total * wt[u] < W * floor[u] + W
      BY <1>6
    <3>3. W * floor[u] \in Int /\ total * wt[u] \in Int /\ floor[u] * W = W * floor[u]
      BY <1>1, <1>5, <3>1
    <3> QED BY <1>5, <2>2, <3>1, <3>2, <3>3
  <2> QED BY <2>1, <2>2
<1> QED
  BY <1>5, <1>19, <1>20, <1>21, <1>22 DEF shares, W, last, people

-----------------------------------------------------------------------------
(* simplify_debts: the ranked lists *)

\* The entries by rank are the entries, each of them once.
LEMMA RankedLists ==
  ASSUME NEW E, IsFiniteSet(E), E \subseteq [id : Int, amt : Int],
         \A x, y \in E : x.id = y.id => x = y
  PROVE  /\ Ranked(E) \in [1 .. Cardinality(E) -> E]
         /\ \A x \in E : \E k \in 1 .. Cardinality(E) : Ranked(E)[k] = x
         /\ \A k, l \in 1 .. Cardinality(E) : Ranked(E)[k] = Ranked(E)[l] => k = l
<1> DEFINE n == Cardinality(E)
           before(x) == { y \in E : y.amt > x.amt \/ (y.amt = x.amt /\ y.id < x.id) }
           rank == [x \in E |-> Cardinality(before(x)) + 1]
<1>1. n \in Nat
  BY FS_CardinalityType
<1>2. Ranked(E) = [k \in 1 .. n |-> CHOOSE x \in E : Cardinality(before(x)) = k - 1]
  BY DEF Ranked
<1>3. \A x \in E : x.id \in Int /\ x.amt \in Int
  OBVIOUS
<1>4. \A x, y \in E : x # y => x \in before(y) \/ y \in before(x)
  BY <1>3
<1>5. \A x, y \in E : x \in before(y) => before(x) \subseteq before(y) /\ x \notin before(x)
  BY <1>3
<1>6. \A x \in E : before(x) \in SUBSET E /\ x \notin before(x)
  BY <1>3
<1>h. \A x \in E : rank[x] = Cardinality(before(x)) + 1
  OBVIOUS
<1>d. rank = [x \in E |-> rank[x]]
  OBVIOUS
<1> HIDE DEF n, before, rank
<1>7. \A x \in E : IsFiniteSet(before(x)) /\ Cardinality(before(x)) \in 0 .. n - 1
  <2> SUFFICES ASSUME NEW x \in E
               PROVE  IsFiniteSet(before(x)) /\ Cardinality(before(x)) \in 0 .. n - 1
    OBVIOUS
  <2>1. IsFiniteSet(before(x)) /\ Cardinality(before(x)) <= n
        /\ (n = Cardinality(before(x)) => E = before(x))
    BY <1>6, FS_Subset DEF n
  <2>2. Cardinality(before(x)) \in Nat
    BY <2>1, FS_CardinalityType
  <2> QED BY <1>1, <1>6, <2>1, <2>2
<1>8. \A x, y \in E : rank[x] = rank[y] => x = y
  <2>1. ASSUME NEW x \in E, NEW y \in E, x \in before(y) PROVE rank[x] # rank[y]
    <3>1. before(x) \in SUBSET before(y) /\ before(x) # before(y)
      BY <1>5, <2>1
    <3>2. Cardinality(before(x)) # Cardinality(before(y))
      BY <1>7, <3>1, FS_Subset
    <3> QED BY <1>7, <1>h, <3>2
  <2> QED BY <1>4, <2>1
<1>9. \A x \in E : rank[x] \in 1 .. n
  BY <1>1, <1>7, <1>h
<1>10. rank \in Surjection(E, 1 .. n)
  <2>1. rank \in Injection(E, 1 .. n)
    BY <1>8, <1>9, <1>d DEF Injection, IsInjective
  <2>2. IsFiniteSet(1 .. n) /\ Cardinality(1 .. n) = n
    <3>1. /\ IsFiniteSet(1 .. n)
          /\ Cardinality(1 .. n) = IF 1 > n THEN 0 ELSE n - 1 + 1
      BY <1>1, FS_Interval
    <3> QED BY <1>1, <3>1
  <2>3. Cardinality(E) = Cardinality(1 .. n) <=> rank \in Surjection(E, 1 .. n)
    BY <2>1, <2>2, FS_Injection
  <2> QED BY <2>2, <2>3 DEF n
<1>11. \A k \in 1 .. n : Ranked(E)[k] \in E /\ rank[Ranked(E)[k]] = k
  <2> SUFFICES ASSUME NEW k \in 1 .. n
               PROVE  Ranked(E)[k] \in E /\ rank[Ranked(E)[k]] = k
    OBVIOUS
  <2>1. PICK z \in E : rank[z] = k
    BY <1>10 DEF Surjection
  <2>2. Cardinality(before(z)) = k - 1
    BY <1>7, <1>h, <2>1
  <2>3. Ranked(E)[k] = CHOOSE x \in E : Cardinality(before(x)) = k - 1
    BY <1>2
  <2> DEFINE c == CHOOSE x \in E : Cardinality(before(x)) = k - 1
  <2>4. c \in E /\ Cardinality(before(c)) = k - 1
    BY <2>2
  <2> HIDE DEF c
  <2> QED BY <1>1, <1>h, <2>3, <2>4 DEF c
<1>12. \A x \in E : rank[x] \in 1 .. n /\ Ranked(E)[rank[x]] = x
  BY <1>8, <1>9, <1>11
<1>13. Ranked(E) \in [1 .. n -> E]
  BY <1>2, <1>11
<1> QED BY <1>11, <1>12, <1>13 DEF n

\* L holds an entry for each of S and for nobody else, and no amount below 0.
Listed(L, S) ==
    /\ L \in Seq([id : S, amt : Nat])
    /\ \A k, l \in DOMAIN L : L[k].id = L[l].id => k = l
    /\ \A u \in S : \E k \in DOMAIN L : L[k].id = u

Total(L) == SumFunctionOnSet([k \in DOMAIN L |-> L[k].amt], DOMAIN L)

\* What a sequence is, as a function.
LEMMA SeqFunction ==
  ASSUME NEW A, NEW s \in Seq(A)
  PROVE  /\ Len(s) \in Nat /\ DOMAIN s = 1 .. Len(s) /\ \A k \in 1 .. Len(s) : s[k] \in A
         /\ IsFiniteSet(DOMAIN s) /\ s = [k \in 1 .. Len(s) |-> s[k]]
<1>1. Len(s) \in Nat /\ DOMAIN s = 1 .. Len(s) /\ \A k \in 1 .. Len(s) : s[k] \in A
  OBVIOUS
<1>2. IsFiniteSet(1 .. Len(s))
  BY <1>1, FS_Interval
<1> QED BY <1>1, <1>2

LEMMA ToSeq ==
  ASSUME NEW A, NEW n \in Nat, NEW s, s = [k \in 1 .. n |-> s[k]], \A k \in 1 .. n : s[k] \in A
  PROVE  s \in Seq(A) /\ Len(s) = n /\ DOMAIN s = 1 .. n
<1>1. s \in [1 .. n -> A]
  OBVIOUS
<1> QED BY <1>1

LEMMA ListedSize ==
  ASSUME NEW S, NEW L, Listed(L, S)
  PROVE  IsFiniteSet(S) /\ Cardinality(S) = Len(L)
<1> DEFINE n == Len(L)
           ids == [k \in 1 .. n |-> L[k].id]
<1>1. n \in Nat /\ DOMAIN L = 1 .. n /\ \A k \in 1 .. n : L[k] \in [id : S, amt : Nat]
  BY SeqFunction DEF Listed
<1>2. \A k \in 1 .. n : ids[k] = L[k].id
  OBVIOUS
<1>3. ids = [k \in 1 .. n |-> ids[k]]
  OBVIOUS
<1> HIDE DEF n, ids
<1>4. \A k \in 1 .. n : ids[k] \in S
  BY <1>1, <1>2
<1>5. ids \in Injection(1 .. n, S)
  BY <1>1, <1>2, <1>3, <1>4 DEF Injection, IsInjective, Listed
<1>6. ids \in Surjection(1 .. n, S)
  BY <1>1, <1>2, <1>3, <1>4 DEF Surjection, Listed
<1>7. IsFiniteSet(1 .. n) /\ Cardinality(1 .. n) = n
  <2>1. IsFiniteSet(1 .. n) /\ Cardinality(1 .. n) = IF 1 > n THEN 0 ELSE n - 1 + 1
    BY <1>1, FS_Interval
  <2> QED BY <1>1, <2>1
<1>8. IsFiniteSet(S) /\ (Cardinality(S) = Cardinality(1 .. n) <=> ids \in Injection(1 .. n, S))
  BY <1>6, <1>7, FS_Surjection
<1> QED BY <1>5, <1>7, <1>8 DEF n

LEMMA ListedEntries ==
  ASSUME NEW S, NEW L, Listed(L, S)
  PROVE  /\ Len(L) \in Nat /\ DOMAIN L = 1 .. Len(L) /\ L = [k \in 1 .. Len(L) |-> L[k]]
         /\ \A k \in DOMAIN L : /\ L[k].id \in S /\ L[k].amt \in Nat
                                /\ L[k] = [id |-> L[k].id, amt |-> L[k].amt]
<1> DEFINE A == [id : S, amt : Nat]
<1>0. L \in Seq(A)
  BY DEF Listed
<1>f. \A x \in A : x.id \in S /\ x.amt \in Nat /\ x = [id |-> x.id, amt |-> x.amt]
  OBVIOUS
<1> HIDE DEF A
<1>1. /\ Len(L) \in Nat /\ DOMAIN L = 1 .. Len(L) /\ L = [k \in 1 .. Len(L) |-> L[k]]
      /\ \A k \in 1 .. Len(L) : L[k] \in A
  BY <1>0, SeqFunction
<1> QED BY <1>1, <1>f

\* What a set of people have to pay, or to get, as a ranked list.
RankedBy(amount, S) == Ranked({ [id |-> u, amt |-> amount[u]] : u \in S })

LEMMA RankedAmounts ==
  ASSUME NEW S, IsFiniteSet(S), S \subseteq Int, NEW amount, \A u \in S : amount[u] \in Nat
  PROVE  LET L == RankedBy(amount, S)
         IN  /\ Listed(L, S)
             /\ \A k \in DOMAIN L : L[k].amt = amount[L[k].id]
             /\ Total(L) = SumFunctionOnSet(amount, S)
<1> DEFINE E == { [id |-> u, amt |-> amount[u]] : u \in S }
           n == Cardinality(E)
           L == RankedBy(amount, S)
           entry == [u \in S |-> [id |-> u, amt |-> amount[u]]]
<1>1. IsFiniteSet(E)
  <2>1. entry \in Surjection(S, E)
    BY DEF Surjection
  <2> HIDE DEF E, entry
  <2> QED BY <2>1, FS_Surjection
<1>2. E \subseteq [id : Int, amt : Int] /\ \A x, y \in E : x.id = y.id => x = y
  OBVIOUS
<1>3. \A x \in E : x.id \in S /\ x.amt = amount[x.id] /\ x \in [id : S, amt : Nat]
  <2> SUFFICES ASSUME NEW u \in S, NEW x, x = [id |-> u, amt |-> amount[u]]
               PROVE  x.id \in S /\ x.amt = amount[x.id] /\ x \in [id : S, amt : Nat]
    OBVIOUS
  <2>1. x.id = u /\ x.amt = amount[u] /\ amount[u] \in Nat
    OBVIOUS
  <2> QED BY <2>1
<1>4. \A u \in S : \E x \in E : x.id = u
  <2> SUFFICES ASSUME NEW u \in S PROVE \E x \in E : x.id = u
    OBVIOUS
  <2>1. entry[u] \in E /\ entry[u].id = u
    OBVIOUS
  <2> HIDE DEF E, entry
  <2> QED BY <2>1
<1> HIDE DEF E, L, n, entry
<1>5. n \in Nat
  BY <1>1, FS_CardinalityType DEF n
<1>6. /\ L \in [1 .. n -> E] /\ \A x \in E : \E k \in 1 .. n : L[k] = x
      /\ \A k, l \in 1 .. n : L[k] = L[l] => k = l
  <2>1. L = Ranked(E)
    BY DEF RankedBy, L, E
  <2> QED BY <1>1, <1>2, <2>1, RankedLists DEF n
<1>7. DOMAIN L = 1 .. n /\ L \in Seq([id : S, amt : Nat])
  <2> DEFINE R == [id : S, amt : Nat]
  <2>1. \A k \in 1 .. n : L[k] \in R
    BY <1>3, <1>6
  <2>2. L = [k \in 1 .. n |-> L[k]]
    BY <1>6
  <2> HIDE DEF R
  <2>3. DOMAIN L = 1 .. n /\ L \in Seq(R)
    BY <1>5, <2>1, <2>2, ToSeq
  <2> QED BY <2>3 DEF R
<1>8. Listed(L, S)
  BY <1>2, <1>4, <1>6, <1>7 DEF Listed
<1>9. \A k \in DOMAIN L : L[k].amt = amount[L[k].id] /\ L[k].amt \in Nat /\ L[k].id \in S
  BY <1>3, <1>6, <1>7
<1>10. Total(L) = SumFunctionOnSet(amount, S)
  <2> DEFINE amts == [k \in DOMAIN L |-> L[k].amt]
             ids  == [k \in DOMAIN L |-> L[k].id]
  <2>1. IsFiniteSet(DOMAIN L)
    BY <1>5, <1>7, FS_Interval
  <2>2. \A k \in DOMAIN L : amts[k] = L[k].amt /\ ids[k] = L[k].id
    OBVIOUS
  <2> HIDE DEF amts, ids
  <2>3. { ids[k] : k \in DOMAIN L } = S
    <3>1. \A k \in DOMAIN L : ids[k] \in S
      BY <1>9, <2>2
    <3>2. \A u \in S : \E k \in DOMAIN L : ids[k] = u
      BY <1>8, <2>2 DEF Listed
    <3> QED BY <3>1, <3>2
  <2>4. IsSummable(amts, DOMAIN L)
    BY <1>9, <2>1, <2>2 DEF IsSummable
  <2>5. \A k \in DOMAIN L : amount[ids[k]] = amts[k]
    BY <1>9, <2>2
  <2>6. \A k, l \in DOMAIN L : ids[k] = ids[l] => k = l
    BY <1>8, <2>2 DEF Listed
  <2>7. SumFunctionOnSet(amount, { ids[k] : k \in DOMAIN L }) = SumFunctionOnSet(amts, DOMAIN L)
    BY <2>4, <2>5, <2>6, SumImage
  <2>8. SumFunctionOnSet(amount, S) = SumFunctionOnSet(amts, DOMAIN L)
    BY <2>3, <2>7, Zenon
  <2> QED BY <2>8 DEF Total, amts
<1> QED BY <1>8, <1>9, <1>10 DEF L

\* The list is dealt with up to the cursor c, and not from there on.
UsedUp(L, c) ==
    /\ c \in 1 .. Len(L) + 1
    /\ \A k \in DOMAIN L : (k < c => L[k].amt = 0) /\ (k >= c => L[k].amt > 0)

\* Taking x from the entry under the cursor, which moves on when nothing is left.
Take(L, c, x)  == [L EXCEPT ![c].amt = @ - x]
After(L, c, x) == IF L[c].amt = x THEN c + 1 ELSE c

LEMMA Taking ==
  ASSUME NEW S, NEW L, Listed(L, S), NEW c, UsedUp(L, c), c <= Len(L),
         NEW x \in Nat, x <= L[c].amt
  PROVE  LET rest == Take(L, c, x)
             next == After(L, c, x)
         IN  /\ Listed(rest, S) /\ UsedUp(rest, next) /\ Len(rest) = Len(L)
             /\ c \in DOMAIN L /\ DOMAIN rest = DOMAIN L
             /\ \A k \in DOMAIN L : rest[k].id = L[k].id
             /\ rest[c].amt = L[c].amt - x
             /\ \A k \in DOMAIN L \ {c} : rest[k].amt = L[k].amt
             /\ Total(rest) = Total(L) - x /\ Total(L) \in Int
<1> DEFINE n == Len(L)
           rest == Take(L, c, x)
           next == After(L, c, x)
<1>1. /\ n \in Nat /\ DOMAIN L = 1 .. n /\ L = [k \in 1 .. n |-> L[k]] /\ IsFiniteSet(1 .. n)
      /\ \A k \in 1 .. n : L[k] \in [id : S, amt : Nat]
  BY SeqFunction DEF Listed
<1>2. \A k \in 1 .. n : L[k].id \in S /\ L[k].amt \in Nat
  BY <1>1
<1>3. c \in 1 .. n
  BY <1>1 DEF UsedUp
<1>4. rest = [k \in 1 .. n |-> IF k = c THEN [L[c] EXCEPT !.amt = L[c].amt - x] ELSE L[k]]
  BY <1>1, <1>3 DEF Take
<1>5. [L[c] EXCEPT !.amt = L[c].amt - x] = [id |-> L[c].id, amt |-> L[c].amt - x]
  BY <1>1, <1>3
<1>6. rest = [k \in 1 .. n |-> IF k = c THEN [id |-> L[c].id, amt |-> L[c].amt - x] ELSE L[k]]
  BY <1>4, <1>5
<1>n. next = IF L[c].amt = x THEN c + 1 ELSE c
  BY DEF After
<1>c. UsedUp(L, c) /\ c <= n
  OBVIOUS
<1> HIDE DEF rest, n, next
<1>7. DOMAIN rest = 1 .. n /\ rest[c] = [id |-> L[c].id, amt |-> L[c].amt - x]
      /\ \A k \in 1 .. n : k # c => rest[k] = L[k]
  BY <1>3, <1>6
<1>8. L[c].amt - x \in Nat
  BY <1>2, <1>3
<1>9. rest \in Seq([id : S, amt : Nat]) /\ Len(rest) = n
  <2> DEFINE R == [id : S, amt : Nat]
  <2>1. \A k \in 1 .. n : rest[k] \in R
    BY <1>1, <1>2, <1>3, <1>7, <1>8
  <2>2. rest = [k \in 1 .. n |-> rest[k]]
    BY <1>6, <1>7
  <2> HIDE DEF R
  <2>3. rest \in Seq(R) /\ Len(rest) = n
    BY <1>1, <2>1, <2>2, ToSeq
  <2> QED BY <2>3 DEF R
<1>10. (\A k \in 1 .. n : rest[k].id = L[k].id) /\ rest[c].amt = L[c].amt - x
       /\ \A k \in (1 .. n) \ {c} : rest[k].amt = L[k].amt
  BY <1>7
<1>11. Listed(rest, S)
  <2>1. \A k, l \in 1 .. n : rest[k].id = rest[l].id => k = l
    BY <1>1, <1>10 DEF Listed
  <2>2. \A u \in S : \E k \in 1 .. n : rest[k].id = u
    BY <1>1, <1>10 DEF Listed
  <2> QED BY <1>7, <1>9, <2>1, <2>2 DEF Listed
<1>12. UsedUp(rest, next)
  <2>1. \A k \in 1 .. n : (k < c => L[k].amt = 0) /\ (k >= c => L[k].amt > 0)
    BY <1>1, <1>c DEF UsedUp
  <2>2. next \in 1 .. n + 1
    BY <1>1, <1>3, <1>n
  <2>3. \A k \in 1 .. n : (k < next => rest[k].amt = 0) /\ (k >= next => rest[k].amt > 0)
    <3> SUFFICES ASSUME NEW k \in 1 .. n
                 PROVE  (k < next => rest[k].amt = 0) /\ (k >= next => rest[k].amt > 0)
      OBVIOUS
    <3>1. CASE k = c
      BY <1>1, <1>2, <1>3, <1>8, <1>10, <1>n, <3>1
    <3>2. CASE k # c
      BY <1>1, <1>3, <1>10, <1>n, <2>1, <3>2
    <3> QED BY <3>1, <3>2
  <2> QED BY <1>7, <1>9, <2>2, <2>3 DEF UsedUp
<1>13. Total(rest) = Total(L) - x /\ Total(L) \in Int
  <2> DEFINE f == [k \in DOMAIN L |-> L[k].amt]
             g == [k \in DOMAIN rest |-> rest[k].amt]
  <2>1. /\ \A k \in 1 .. n : f[k] = L[k].amt
        /\ \A k \in 1 .. n : g[k] = rest[k].amt
    BY <1>1, <1>7
  <2>2. Total(L) = SumFunctionOnSet(f, 1 .. n) /\ Total(rest) = SumFunctionOnSet(g, 1 .. n)
    BY <1>1, <1>7 DEF Total
  <2> HIDE DEF f, g
  <2>3. IsSummable(f, 1 .. n)
    BY <1>1, <1>2, <2>1 DEF IsSummable
  <2>4. g[c] = f[c] - x /\ f[c] \in Int /\ \A k \in (1 .. n) \ {c} : g[k] = f[k]
    BY <1>2, <1>3, <1>10, <2>1
  <2>5. SumFunctionOnSet(g, 1 .. n) = SumFunctionOnSet(f, 1 .. n) + (g[c] - f[c])
    <3> DEFINE I == 1 .. n
    <3>1. IsSummable(f, I) /\ IsSummable(g, I) /\ c \in I /\ \A k \in I : k # c => g[k] = f[k]
      BY <1>1, <1>2, <1>3, <1>8, <1>10, <2>1, <2>3, <2>4 DEF IsSummable
    <3> HIDE DEF I
    <3>2. SumFunctionOnSet(g, I) = SumFunctionOnSet(f, I) + (g[c] - f[c])
      BY <3>1, SumUpdate
    <3> QED BY <3>2 DEF I
  <2>6. SumFunctionOnSet(f, 1 .. n) \in Int
    BY <2>3, SumInt
  <2> QED BY <2>2, <2>4, <2>5, <2>6
<1> QED BY <1>1, <1>3, <1>7, <1>9, <1>10, <1>11, <1>12, <1>13 DEF n, rest, next

\* A list is all dealt with when nothing is left in it, and only then.
LEMMA NothingLeft ==
  ASSUME NEW S, NEW L, Listed(L, S), NEW c, UsedUp(L, c)
  PROVE  Total(L) \in Nat /\ (Total(L) = 0 <=> c > Len(L))
<1> DEFINE n == Len(L)
           f == [k \in DOMAIN L |-> L[k].amt]
<1>1. /\ n \in Nat /\ DOMAIN L = 1 .. n /\ IsFiniteSet(1 .. n)
      /\ \A k \in 1 .. n : L[k] \in [id : S, amt : Nat]
  BY SeqFunction DEF Listed
<1>2. \A k \in 1 .. n : f[k] = L[k].amt /\ f[k] \in Nat
  BY <1>1
<1>3. Total(L) = SumFunctionOnSet(f, 1 .. n)
  BY <1>1 DEF Total
<1>4. c \in 1 .. n + 1 /\ \A k \in 1 .. n : (k < c => f[k] = 0) /\ (k >= c => f[k] > 0)
  BY <1>1, <1>2 DEF UsedUp
<1> HIDE DEF n, f
<1>5. IsSummable(f, 1 .. n) /\ Total(L) \in Nat
  BY <1>1, <1>2, <1>3, SumOfNat
<1>6. CASE c > n
  <2>1. \A k \in 1 .. n : f[k] = 0
    BY <1>1, <1>4, <1>6
  <2>2. Total(L) = 0 * Cardinality(1 .. n)
    BY <1>1, <1>3, <2>1, SumConstant
  <2>3. Total(L) = 0
    BY <1>1, <2>2, FS_CardinalityType
  <2> QED BY <1>5, <1>6, <2>3 DEF n
<1>7. CASE ~(c > n)
  <2>1. c \in 1 .. n /\ f[c] > 0 /\ f[c] \in Nat
    BY <1>1, <1>2, <1>4, <1>7
  <2>2. Total(L) = f[c] + SumFunctionOnSet(f, (1 .. n) \ {c})
    <3> DEFINE I == 1 .. n
    <3>1. IsSummable(f, I) /\ c \in I /\ Total(L) = SumFunctionOnSet(f, I)
      BY <1>3, <1>5, <2>1
    <3> HIDE DEF I
    <3>2. Total(L) = f[c] + SumFunctionOnSet(f, I \ {c})
      BY <3>1, SumSplit
    <3> QED BY <3>2 DEF I
  <2>3. SumFunctionOnSet(f, (1 .. n) \ {c}) \in Nat
    <3>1. IsFiniteSet((1 .. n) \ {c}) /\ \A k \in (1 .. n) \ {c} : f[k] \in Nat
      BY <1>1, <1>2, FS_Subset
    <3> QED BY <3>1, SumOfNat
  <2>4. Total(L) # 0
    BY <2>1, <2>2, <2>3
  <2> QED BY <1>5, <1>7, <2>4 DEF n
<1> QED BY <1>6, <1>7

-----------------------------------------------------------------------------
(* simplify_debts: the invariant of the loop *)

Owing(P) == { v \in DOMAIN P : P[v] < 0 }
Owed(P)  == { v \in DOMAIN P : P[v] > 0 }

\* The net positions of a group.
IsPositions(P) ==
    /\ IsFiniteSet(DOMAIN P) /\ DOMAIN P \subseteq Int
    /\ \A u \in DOMAIN P : P[u] \in Int
    /\ SumFunction(P) = 0

\* What p has paid, less what p has got, by the transactions T.
Signed(t, p) == IF t.from = p THEN t.amt ELSE IF t.to = p THEN -t.amt ELSE 0
FlowOf(T, p) == SumFunctionOnSet([k \in DOMAIN T |-> Signed(T[k], p)], DOMAIN T)

Greedies(P) == [ debtors      : Seq([id : Owing(P), amt : Nat]),
                 creditors    : Seq([id : Owed(P), amt : Nat]),
                 i            : Nat,
                 j            : Nat,
                 transactions : Seq([from : Owing(P), to : Owed(P), amt : Nat \ {0}]) ]

\* Both sides have the same amount left, before the cursors nothing, after them
\* something; an entry is never more than it was at the start.
GreedyLists(P, g) ==
    /\ Listed(g.debtors, Owing(P)) /\ Listed(g.creditors, Owed(P))
    /\ UsedUp(g.debtors, g.i) /\ UsedUp(g.creditors, g.j)
    /\ Total(g.debtors) = Total(g.creditors)
    /\ \A k \in DOMAIN g.debtors : g.debtors[k].amt <= -P[g.debtors[k].id]
    /\ \A k \in DOMAIN g.creditors : g.creditors[k].amt <= P[g.creditors[k].id]
    /\ \A k \in DOMAIN g.transactions : g.transactions[k].amt <= P[g.transactions[k].to]

\* What the lists still hold is what the transactions leave of the positions.
GreedyFlow(P, g) ==
    /\ \A k \in DOMAIN g.debtors :
          P[g.debtors[k].id] + FlowOf(g.transactions, g.debtors[k].id) = -g.debtors[k].amt
    /\ \A k \in DOMAIN g.creditors :
          P[g.creditors[k].id] + FlowOf(g.transactions, g.creditors[k].id) = g.creditors[k].amt
    /\ \A p \in DOMAIN P : P[p] = 0 => FlowOf(g.transactions, p) = 0

\* Every pair met at most once, at cursors before the present ones.
GreedyMet(g) ==
    /\ \A k \in DOMAIN g.transactions :
          \E a \in DOMAIN g.debtors, b \in DOMAIN g.creditors :
              /\ a <= g.i /\ b <= g.j /\ a + b < g.i + g.j
              /\ g.transactions[k].from = g.debtors[a].id
              /\ g.transactions[k].to = g.creditors[b].id
    /\ \A k, l \in DOMAIN g.transactions :
          g.transactions[k].from = g.transactions[l].from /\ g.transactions[k].to = g.transactions[l].to
              => k = l

\* At most one transaction for each move of a cursor, and the last pass moves both.
GreedyShort(g) ==
    /\ Len(g.transactions) <= g.i + g.j - 2
    /\ ~GreedyRunning(g) /\ g.transactions # <<>> => Len(g.transactions) <= g.i + g.j - 3

GreedyInv(P, g) ==
    g \in Greedies(P) /\ GreedyLists(P, g) /\ GreedyFlow(P, g) /\ GreedyMet(g) /\ GreedyShort(g)

\* What those who owe owe is what those who are owed are owed.
LEMMA OwedIsOwing ==
  ASSUME NEW P, IsPositions(P), NEW minus, \A u \in Owing(P) : minus[u] = -P[u]
  PROVE  /\ IsFiniteSet(Owing(P)) /\ IsFiniteSet(Owed(P))
         /\ SumFunctionOnSet(minus, Owing(P)) = SumFunctionOnSet(P, Owed(P))
<1> DEFINE D == DOMAIN P
           S == Owing(P)
           R == Owed(P)
<1>1. IsSummable(P, D) /\ SumFunctionOnSet(P, D) = 0 /\ \A u \in D : P[u] \in Int
  BY DEF IsPositions, IsSummable, SumFunction
<1>2. /\ S \in SUBSET D /\ R \in SUBSET D /\ S \cap R = {}
      /\ \A u \in D \ (S \cup R) : P[u] = 0
  BY <1>1 DEF Owing, Owed
<1>m. \A u \in S : minus[u] = -P[u]
  OBVIOUS
<1> HIDE DEF D, S, R
<1>3. IsSummable(P, S) /\ IsSummable(P, R)
  BY <1>1, <1>2, SummableSubset
<1>4. SumFunctionOnSet(P, D) = SumFunctionOnSet(P, S \cup R)
  <2>1. S \cup R \in SUBSET D
    BY <1>2
  <2> QED BY <1>1, <1>2, <2>1, SumSupport
<1>5. SumFunctionOnSet(P, S \cup R) = SumFunctionOnSet(P, S) + SumFunctionOnSet(P, R)
  BY <1>2, <1>3, SumUnion
<1>6. SumFunctionOnSet(minus, S) = (-1) * SumFunctionOnSet(P, S)
  <2>1. \A u \in S : minus[u] = (-1) * P[u]
    BY <1>1, <1>2, <1>m
  <2> DEFINE c == -1
  <2>2. c \in Int /\ \A u \in S : minus[u] = c * P[u]
    BY <2>1
  <2> HIDE DEF c
  <2>3. SumFunctionOnSet(minus, S) = c * SumFunctionOnSet(P, S)
    BY <1>3, <2>2, SumScaled
  <2> QED BY <2>3 DEF c
<1>7. SumFunctionOnSet(P, S) \in Int /\ SumFunctionOnSet(P, R) \in Int
  BY <1>3, SumInt
<1>8. SumFunctionOnSet(minus, S) = SumFunctionOnSet(P, R)
  BY <1>1, <1>4, <1>5, <1>6, <1>7
<1>9. IsFiniteSet(S) /\ IsFiniteSet(R)
  BY <1>3 DEF IsSummable
<1> QED BY <1>8, <1>9 DEF S, R

LEMMA FlowEmpty == \A p : FlowOf(<<>>, p) = 0
<1> SUFFICES ASSUME NEW p PROVE FlowOf(<<>>, p) = 0
  OBVIOUS
<1> DEFINE T == <<>>
           f == [k \in DOMAIN T |-> Signed(T[k], p)]
<1>1. FlowOf(T, p) = SumFunctionOnSet(f, DOMAIN T)
  BY DEF FlowOf
<1>2. DOMAIN T = {}
  OBVIOUS
<1> HIDE DEF f, T
<1>3. SumFunctionOnSet(f, DOMAIN T) = SumFunctionOnSet(f, {})
  BY <1>2, Zenon
<1>4. FlowOf(T, p) = 0
  BY <1>1, <1>3, SumEmpty
<1> QED BY <1>4 DEF T

LEMMA GreedyStarts ==
  ASSUME NEW P, IsPositions(P)
  PROVE  GreedyInv(P, GreedyStart(P))
<1> DEFINE S == Owing(P)
           R == Owed(P)
           minus == [u \in S |-> -P[u]]
           D == RankedBy(minus, S)
           C == RankedBy(P, R)
           g == GreedyStart(P)
<1>1. /\ DOMAIN P \subseteq Int /\ \A u \in DOMAIN P : P[u] \in Int
  BY DEF IsPositions
<1>2. /\ IsFiniteSet(S) /\ IsFiniteSet(R)
      /\ SumFunctionOnSet(minus, S) = SumFunctionOnSet(P, R)
  <2>1. \A u \in S : minus[u] = -P[u]
    OBVIOUS
  <2> HIDE DEF minus
  <2> QED BY <2>1, OwedIsOwing
<1>3. /\ S \subseteq Int /\ R \subseteq Int
      /\ \A u \in S : minus[u] = -P[u] /\ minus[u] \in Nat \ {0} /\ P[u] \in Int
      /\ \A u \in R : P[u] \in Nat \ {0}
  BY <1>1 DEF Owing, Owed
<1>4. { [id |-> u, amt |-> -P[u]] : u \in { v \in DOMAIN P : P[v] < 0 } }
        = { [id |-> u, amt |-> minus[u]] : u \in S }
  BY DEF Owing
<1>5. { [id |-> u, amt |-> P[u]] : u \in { v \in DOMAIN P : P[v] > 0 } }
        = { [id |-> u, amt |-> P[u]] : u \in R }
  BY DEF Owed
<1>6. g = [debtors |-> D, creditors |-> C, i |-> 1, j |-> 1, transactions |-> <<>>]
  BY <1>4, <1>5, Zenon DEF GreedyStart, RankedBy
<1> HIDE DEF g, minus, S, R
<1>7. Listed(D, S) /\ (\A k \in DOMAIN D : D[k].amt = minus[D[k].id])
      /\ Total(D) = SumFunctionOnSet(minus, S)
  <2>1. \A u \in S : minus[u] \in Nat
    BY <1>3
  <2> QED BY <1>2, <1>3, <2>1, RankedAmounts
<1>8. Listed(C, R) /\ (\A k \in DOMAIN C : C[k].amt = P[C[k].id])
      /\ Total(C) = SumFunctionOnSet(P, R)
  <2>1. \A u \in R : P[u] \in Nat
    BY <1>3
  <2> QED BY <1>2, <1>3, <2>1, RankedAmounts
<1> HIDE DEF D, C
<1>9. g.debtors = D /\ g.creditors = C /\ g.i = 1 /\ g.j = 1 /\ g.transactions = <<>>
  BY <1>6
<1>10. /\ Len(D) \in Nat /\ DOMAIN D = 1 .. Len(D)
       /\ \A k \in DOMAIN D : D[k] \in [id : S, amt : Nat]
  BY <1>7, SeqFunction DEF Listed
<1>11. /\ Len(C) \in Nat /\ DOMAIN C = 1 .. Len(C)
       /\ \A k \in DOMAIN C : C[k] \in [id : R, amt : Nat]
  BY <1>8, SeqFunction DEF Listed
<1>12. \A k \in DOMAIN D : D[k].id \in S /\ D[k].amt = -P[D[k].id] /\ D[k].amt \in Nat \ {0}
                           /\ P[D[k].id] \in Int
  BY <1>3, <1>7, <1>10
<1>13. \A k \in DOMAIN C : C[k].id \in R /\ C[k].amt = P[C[k].id] /\ C[k].amt \in Nat \ {0}
  BY <1>3, <1>8, <1>11
<1>14. UsedUp(D, 1) /\ UsedUp(C, 1)
  BY <1>10, <1>11, <1>12, <1>13 DEF UsedUp
<1>15. g.transactions = <<>> /\ Len(g.transactions) = 0 /\ DOMAIN g.transactions = {}
  BY <1>9
<1>16. \A p : FlowOf(g.transactions, p) = 0
  BY <1>9, FlowEmpty
<1>17. g \in Greedies(P)
  <2>1. D \in Seq([id : S, amt : Nat]) /\ C \in Seq([id : R, amt : Nat])
    BY <1>7, <1>8 DEF Listed
  <2>2. <<>> \in Seq([from : S, to : R, amt : Nat \ {0}])
    OBVIOUS
  <2> QED BY <1>6, <2>1, <2>2 DEF Greedies, S, R
<1>18. GreedyLists(P, g)
  <2>1. Total(D) = Total(C)
    BY <1>2, <1>7, <1>8
  <2>2. /\ \A k \in DOMAIN D : D[k].amt <= -P[D[k].id]
        /\ \A k \in DOMAIN C : C[k].amt <= P[C[k].id]
    BY <1>12, <1>13
  <2> QED BY <1>7, <1>8, <1>9, <1>14, <1>15, <2>1, <2>2 DEF GreedyLists, S, R
<1>19. GreedyFlow(P, g)
  <2>1. /\ \A k \in DOMAIN D : P[D[k].id] + 0 = -D[k].amt
        /\ \A k \in DOMAIN C : P[C[k].id] + 0 = C[k].amt
    BY <1>12, <1>13
  <2> QED BY <1>9, <1>16, <2>1 DEF GreedyFlow
<1>20. GreedyMet(g)
  BY <1>15 DEF GreedyMet
<1>21. GreedyShort(g)
  BY <1>9, <1>15 DEF GreedyShort
<1> QED BY <1>17, <1>18, <1>19, <1>20, <1>21 DEF GreedyInv, g

LEMMA FlowAppend ==
  ASSUME NEW S, NEW R, NEW T \in Seq([from : S, to : R, amt : Nat \ {0}]),
         NEW t \in [from : S, to : R, amt : Nat \ {0}], NEW p
  PROVE  /\ FlowOf(T, p) \in Int
         /\ FlowOf(Append(T, t), p) = FlowOf(T, p) + Signed(t, p)
<1> DEFINE A == [from : S, to : R, amt : Nat \ {0}]
           n == Len(T)
           U == Append(T, t)
           f == [k \in DOMAIN T |-> Signed(T[k], p)]
           h == [k \in DOMAIN U |-> Signed(U[k], p)]
           I == 1 .. n
           J == 1 .. n + 1
<1>1. \A x \in A : Signed(x, p) \in Int
  BY DEF Signed
<1>2. /\ n \in Nat /\ DOMAIN T = I /\ IsFiniteSet(I) /\ \A k \in I : T[k] \in A
  BY SeqFunction
<1>3. U \in Seq(A) /\ Len(U) = n + 1 /\ U[n + 1] = t /\ \A k \in I : U[k] = T[k]
  OBVIOUS
<1>t. t \in A
  OBVIOUS
<1> HIDE DEF A, n, U
<1>4. /\ DOMAIN U = J /\ IsFiniteSet(J) /\ \A k \in J : U[k] \in A
  BY <1>2, <1>3, SeqFunction
<1>5. I = J \ {n + 1} /\ n + 1 \in J
  BY <1>2
<1>6. /\ FlowOf(T, p) = SumFunctionOnSet(f, I) /\ FlowOf(U, p) = SumFunctionOnSet(h, J)
  BY <1>2, <1>4 DEF FlowOf
<1>7. /\ \A k \in I : f[k] = Signed(T[k], p)
      /\ \A k \in J : h[k] = Signed(U[k], p)
  BY <1>2, <1>4
<1> HIDE DEF f, h, I, J
<1>8. IsSummable(f, I) /\ IsSummable(h, J)
  BY <1>1, <1>2, <1>4, <1>7 DEF IsSummable
<1> DEFINE m == n + 1
<1>9. SumFunctionOnSet(h, J) = h[m] + SumFunctionOnSet(h, J \ {m})
  <2>1. m \in J
    BY <1>5
  <2> HIDE DEF m
  <2> QED BY <1>8, <2>1, SumSplit
<1>10. SumFunctionOnSet(h, J \ {m}) = SumFunctionOnSet(h, I)
  BY <1>5, Zenon
<1>11. SumFunctionOnSet(h, I) = SumFunctionOnSet(f, I)
  <2>1. \A k \in I : h[k] = f[k]
    BY <1>3, <1>5, <1>7
  <2> QED BY <1>8, <2>1, SumEqual
<1>12. h[m] = Signed(t, p) /\ Signed(t, p) \in Int
  BY <1>1, <1>3, <1>5, <1>7, <1>t
<1>13. SumFunctionOnSet(f, I) \in Int
  BY <1>8, SumInt
<1> HIDE DEF m
<1> QED BY <1>6, <1>9, <1>10, <1>11, <1>12, <1>13 DEF U

\* One pass, spelt out: what is paid is not 0, and is all of one side.
LEMMA GreedyPass ==
  ASSUME NEW P, IsPositions(P), NEW g, GreedyInv(P, g), GreedyRunning(g)
  PROVE  LET D    == g.debtors
             C    == g.creditors
             owed == D[g.i].amt
             due  == C[g.j].amt
             pay  == Min({owed, due})
         IN  /\ g.i \in DOMAIN D /\ g.j \in DOMAIN C
             /\ D[g.i].id \in Owing(P) /\ C[g.j].id \in Owed(P)
             /\ owed \in Nat \ {0} /\ due \in Nat \ {0} /\ pay \in Nat \ {0}
             /\ pay <= owed /\ pay <= due /\ (pay = owed \/ pay = due)
             /\ GreedyBody(g) =
                  [ debtors      |-> Take(D, g.i, pay),
                    creditors    |-> Take(C, g.j, pay),
                    i            |-> After(D, g.i, pay),
                    j            |-> After(C, g.j, pay),
                    transactions |-> Append(g.transactions,
                                            [from |-> D[g.i].id, to |-> C[g.j].id, amt |-> pay]) ]
<1> DEFINE D    == g.debtors
           C    == g.creditors
           owed == D[g.i].amt
           due  == C[g.j].amt
           pay  == Min({owed, due})
<1>1. /\ Listed(D, Owing(P)) /\ Listed(C, Owed(P)) /\ UsedUp(D, g.i) /\ UsedUp(C, g.j)
      /\ g.i <= Len(D) /\ g.j <= Len(C)
  BY DEF GreedyInv, GreedyLists, GreedyRunning
<1>2. /\ Len(D) \in Nat /\ DOMAIN D = 1 .. Len(D)
      /\ \A k \in DOMAIN D : D[k].id \in Owing(P) /\ D[k].amt \in Nat
  BY <1>1, ListedEntries
<1>3. /\ Len(C) \in Nat /\ DOMAIN C = 1 .. Len(C)
      /\ \A k \in DOMAIN C : C[k].id \in Owed(P) /\ C[k].amt \in Nat
  BY <1>1, ListedEntries
<1>4. g.i \in DOMAIN D /\ g.j \in DOMAIN C
  BY <1>1, <1>2, <1>3 DEF UsedUp
<1>5. D[g.i].id \in Owing(P) /\ C[g.j].id \in Owed(P) /\ owed \in Nat \ {0} /\ due \in Nat \ {0}
  BY <1>1, <1>2, <1>3, <1>4 DEF UsedUp
<1>6. pay = IF owed <= due THEN owed ELSE due
  <2> HIDE DEF owed, due
  <2> QED BY <1>5, MinOfTwo
<1>7. pay \in Nat \ {0} /\ pay <= owed /\ pay <= due /\ (pay = owed \/ pay = due)
  <2> HIDE DEF owed, due, pay
  <2> QED BY <1>5, <1>6
<1>8. pay > 0
  <2> HIDE DEF pay
  <2> QED BY <1>7
<1>9. GreedyBody(g) = [ debtors      |-> Take(D, g.i, pay),
                        creditors    |-> Take(C, g.j, pay),
                        i            |-> After(D, g.i, pay),
                        j            |-> After(C, g.j, pay),
                        transactions |-> Append(g.transactions,
                                                [from |-> D[g.i].id, to |-> C[g.j].id, amt |-> pay]) ]
  BY <1>8 DEF GreedyBody, Pass, Take, After
<1> QED BY <1>4, <1>5, <1>7, <1>9

LEMMA GreedySteps ==
  ASSUME NEW P, IsPositions(P), NEW g, GreedyInv(P, g), GreedyRunning(g)
  PROVE  LET h == GreedyBody(g)
         IN  GreedyInv(P, h) /\ h.i + h.j > g.i + g.j
<1> DEFINE D    == g.debtors
           C    == g.creditors
           i    == g.i
           j    == g.j
           T    == g.transactions
           S    == Owing(P)
           R    == Owed(P)
           owed == D[i].amt
           due  == C[j].amt
           pay  == Min({owed, due})
           t    == [from |-> D[i].id, to |-> C[j].id, amt |-> pay]
           h    == GreedyBody(g)
           D2   == Take(D, i, pay)
           C2   == Take(C, j, pay)
           i2   == After(D, i, pay)
           j2   == After(C, j, pay)
           T2   == Append(T, t)
<1>1. /\ i \in DOMAIN D /\ j \in DOMAIN C /\ D[i].id \in S /\ C[j].id \in R
      /\ owed \in Nat \ {0} /\ due \in Nat \ {0} /\ pay \in Nat \ {0}
      /\ pay <= owed /\ pay <= due /\ (pay = owed \/ pay = due)
      /\ h = [debtors |-> D2, creditors |-> C2, i |-> i2, j |-> j2, transactions |-> T2]
  BY GreedyPass, Zenon
<1>2. /\ Listed(D, S) /\ Listed(C, R) /\ UsedUp(D, i) /\ UsedUp(C, j)
      /\ Total(D) = Total(C) /\ i <= Len(D) /\ j <= Len(C)
      /\ T \in Seq([from : S, to : R, amt : Nat \ {0}])
      /\ \A k \in DOMAIN D : D[k].amt <= -P[D[k].id]
      /\ \A k \in DOMAIN C : C[k].amt <= P[C[k].id]
      /\ \A k \in DOMAIN T : T[k].amt <= P[T[k].to]
  BY DEF GreedyInv, GreedyLists, GreedyRunning, Greedies
<1>3. /\ \A k \in DOMAIN D : P[D[k].id] + FlowOf(T, D[k].id) = -D[k].amt
      /\ \A k \in DOMAIN C : P[C[k].id] + FlowOf(T, C[k].id) = C[k].amt
      /\ \A p \in DOMAIN P : P[p] = 0 => FlowOf(T, p) = 0
  BY DEF GreedyInv, GreedyFlow
<1>4. /\ \A k \in DOMAIN T : \E a \in DOMAIN D, b \in DOMAIN C :
             a <= i /\ b <= j /\ a + b < i + j /\ T[k].from = D[a].id /\ T[k].to = C[b].id
      /\ \A k, l \in DOMAIN T : T[k].from = T[l].from /\ T[k].to = T[l].to => k = l
  BY DEF GreedyInv, GreedyMet
<1>5. Len(T) <= i + j - 2
  BY DEF GreedyInv, GreedyShort
<1> HIDE DEF h, D2, C2, i2, j2, T2, t
<1>6. h.debtors = D2 /\ h.creditors = C2 /\ h.i = i2 /\ h.j = j2 /\ h.transactions = T2
  BY <1>1
<1> HIDE DEF D, C, i, j, T, pay, owed, due, S, R
<1>7. /\ Listed(D2, S) /\ UsedUp(D2, i2) /\ Len(D2) = Len(D) /\ DOMAIN D2 = DOMAIN D
      /\ \A k \in DOMAIN D : D2[k].id = D[k].id
      /\ D2[i].amt = owed - pay
      /\ \A k \in DOMAIN D \ {i} : D2[k].amt = D[k].amt
      /\ Total(D2) = Total(D) - pay /\ Total(D) \in Int
  <2>1. pay \in Nat /\ pay <= D[i].amt
    BY <1>1 DEF owed
  <2> QED BY <1>2, <2>1, Taking DEF D2, i2, owed
<1>8. /\ Listed(C2, R) /\ UsedUp(C2, j2) /\ Len(C2) = Len(C) /\ DOMAIN C2 = DOMAIN C
      /\ \A k \in DOMAIN C : C2[k].id = C[k].id
      /\ C2[j].amt = due - pay
      /\ \A k \in DOMAIN C \ {j} : C2[k].amt = C[k].amt
      /\ Total(C2) = Total(C) - pay
  <2>1. pay \in Nat /\ pay <= C[j].amt
    BY <1>1 DEF due
  <2> QED BY <1>2, <2>1, Taking DEF C2, j2, due
<1>9. /\ Len(D) \in Nat /\ DOMAIN D = 1 .. Len(D)
      /\ \A k \in DOMAIN D : D[k].id \in S /\ D[k].amt \in Nat
  BY <1>2, ListedEntries
<1>10. /\ Len(C) \in Nat /\ DOMAIN C = 1 .. Len(C)
       /\ \A k \in DOMAIN C : C[k].id \in R /\ C[k].amt \in Nat
  BY <1>2, ListedEntries
<1>11. i \in Nat /\ j \in Nat /\ i2 \in {i, i + 1} /\ j2 \in {j, j + 1} /\ i2 + j2 > i + j
  <2>1. i \in Nat /\ j \in Nat
    BY <1>1, <1>9, <1>10
  <2> QED BY <1>1, <2>1 DEF i2, j2, After, owed, due
<1>12. t \in [from : S, to : R, amt : Nat \ {0}]
       /\ t.from = D[i].id /\ t.to = C[j].id /\ t.amt = pay
  BY <1>1 DEF t
<1>13. /\ T2 \in Seq([from : S, to : R, amt : Nat \ {0}])
       /\ Len(T) \in Nat /\ Len(T2) = Len(T) + 1
       /\ DOMAIN T = 1 .. Len(T) /\ DOMAIN T2 = 1 .. Len(T) + 1
       /\ T2[Len(T) + 1] = t /\ \A k \in DOMAIN T : T2[k] = T[k]
  <2> DEFINE A == [from : S, to : R, amt : Nat \ {0}]
  <2>1. T \in Seq(A) /\ t \in A
    BY <1>2, <1>12
  <2> HIDE DEF A
  <2>2. /\ T2 \in Seq(A) /\ Len(T) \in Nat /\ Len(T2) = Len(T) + 1
        /\ DOMAIN T = 1 .. Len(T) /\ DOMAIN T2 = 1 .. Len(T) + 1
        /\ T2[Len(T) + 1] = t /\ \A k \in DOMAIN T : T2[k] = T[k]
    BY <2>1 DEF T2
  <2> QED BY <2>2 DEF A
<1>14. h \in Greedies(P)
  <2>1. i2 \in Nat /\ j2 \in Nat
    BY <1>11
  <2>2. D2 \in Seq([id : S, amt : Nat]) /\ C2 \in Seq([id : R, amt : Nat])
    BY <1>7, <1>8 DEF Listed
  <2>3. h = [debtors |-> D2, creditors |-> C2, i |-> i2, j |-> j2, transactions |-> T2]
    BY <1>1
  <2> QED BY <1>13, <2>1, <2>2, <2>3 DEF Greedies, S, R
<1>15. \A k \in DOMAIN D : /\ D[k].id \in S /\ D[k].amt \in Nat /\ D[k].id \in DOMAIN P
                           /\ P[D[k].id] \in Int /\ P[D[k].id] < 0
  BY <1>9 DEF S, Owing, IsPositions
<1>16. \A k \in DOMAIN C : /\ C[k].id \in R /\ C[k].amt \in Nat /\ C[k].id \in DOMAIN P
                           /\ P[C[k].id] \in Int /\ P[C[k].id] > 0
  BY <1>10 DEF R, Owed, IsPositions
<1>17. GreedyLists(P, h)
  <2>1. Total(D2) = Total(C2)
    BY <1>2, <1>7, <1>8
  <2>2. \A k \in DOMAIN D2 : D2[k].amt <= -P[D2[k].id]
    <3> SUFFICES ASSUME NEW k \in DOMAIN D PROVE D2[k].amt <= -P[D[k].id]
      BY <1>7
    <3>1. D[k].amt <= -P[D[k].id] /\ D[k].amt \in Nat /\ -P[D[k].id] \in Int
      BY <1>2, <1>15
    <3>2. D2[k].amt <= D[k].amt /\ D2[k].amt \in Int
      BY <1>1, <1>7, <3>1 DEF owed
    <3> QED BY <3>1, <3>2
  <2>3. \A k \in DOMAIN C2 : C2[k].amt <= P[C2[k].id]
    <3> SUFFICES ASSUME NEW k \in DOMAIN C PROVE C2[k].amt <= P[C[k].id]
      BY <1>8
    <3>1. C[k].amt <= P[C[k].id] /\ C[k].amt \in Nat /\ P[C[k].id] \in Int
      BY <1>2, <1>16
    <3>2. C2[k].amt <= C[k].amt /\ C2[k].amt \in Int
      BY <1>1, <1>8, <3>1 DEF due
    <3> QED BY <3>1, <3>2
  <2>4. \A k \in DOMAIN T2 : T2[k].amt <= P[T2[k].to]
    <3>1. pay <= P[C[j].id]
      BY <1>1, <1>2, <1>16 DEF due
    <3>2. t.amt <= P[t.to]
      BY <1>12, <3>1
    <3> QED BY <1>2, <1>13, <3>2
  <2> QED BY <1>6, <1>7, <1>8, <2>1, <2>2, <2>3, <2>4 DEF GreedyLists, S, R
<1>18. \A p : FlowOf(T2, p) = FlowOf(T, p) + Signed(t, p) /\ FlowOf(T, p) \in Int
  BY <1>2, <1>12, FlowAppend DEF T2
<1>19. /\ S \cap R = {}
       /\ \A u \in S : u \in DOMAIN P /\ P[u] < 0
       /\ \A u \in R : u \in DOMAIN P /\ P[u] > 0 /\ P[u] \in Int
  BY DEF S, R, Owing, Owed, IsPositions
<1>20. /\ \A k \in DOMAIN D : Signed(t, D[k].id) = IF k = i THEN pay ELSE 0
       /\ \A k \in DOMAIN C : Signed(t, C[k].id) = IF k = j THEN -pay ELSE 0
       /\ \A p \in DOMAIN P : P[p] = 0 => Signed(t, p) = 0
  <2>1. ASSUME NEW k \in DOMAIN D PROVE Signed(t, D[k].id) = IF k = i THEN pay ELSE 0
    <3>1. D[k].id # C[j].id
      BY <1>1, <1>15, <1>16, <1>19
    <3>2. D[k].id = D[i].id <=> k = i
      BY <1>1, <1>2 DEF Listed
    <3> QED BY <1>12, <3>1, <3>2 DEF Signed
  <2>2. ASSUME NEW k \in DOMAIN C PROVE Signed(t, C[k].id) = IF k = j THEN -pay ELSE 0
    <3>1. C[k].id # D[i].id
      BY <1>1, <1>15, <1>16, <1>19
    <3>2. C[k].id = C[j].id <=> k = j
      BY <1>1, <1>2 DEF Listed
    <3> QED BY <1>12, <3>1, <3>2 DEF Signed
  <2>3. ASSUME NEW p \in DOMAIN P, P[p] = 0 PROVE Signed(t, p) = 0
    <3>1. p # D[i].id /\ p # C[j].id
      BY <1>1, <1>15, <1>16, <2>3
    <3> QED BY <1>12, <3>1 DEF Signed
  <2> QED BY <2>1, <2>2, <2>3
<1>21. GreedyFlow(P, h)
  <2>1. ASSUME NEW k \in DOMAIN D PROVE P[D[k].id] + FlowOf(T2, D[k].id) = -D2[k].amt
    <3>1. /\ P[D[k].id] + FlowOf(T, D[k].id) = -D[k].amt
          /\ FlowOf(T2, D[k].id) = FlowOf(T, D[k].id) + Signed(t, D[k].id)
          /\ FlowOf(T, D[k].id) \in Int /\ P[D[k].id] \in Int /\ D[k].amt \in Int /\ pay \in Int
      BY <1>1, <1>3, <1>15, <1>18
    <3>2. CASE k = i
      <4>1. D2[k].amt = D[k].amt - pay /\ Signed(t, D[k].id) = pay
        BY <1>7, <1>20, <3>2 DEF owed
      <4> QED BY <3>1, <4>1
    <3>3. CASE k # i
      BY <1>7, <1>20, <3>1, <3>3
    <3> QED BY <3>2, <3>3
  <2>2. ASSUME NEW k \in DOMAIN C PROVE P[C[k].id] + FlowOf(T2, C[k].id) = C2[k].amt
    <3>1. /\ P[C[k].id] + FlowOf(T, C[k].id) = C[k].amt
          /\ FlowOf(T2, C[k].id) = FlowOf(T, C[k].id) + Signed(t, C[k].id)
          /\ FlowOf(T, C[k].id) \in Int /\ P[C[k].id] \in Int /\ C[k].amt \in Int /\ pay \in Int
      BY <1>1, <1>3, <1>16, <1>18
    <3>2. CASE k = j
      <4>1. C2[k].amt = C[k].amt - pay /\ Signed(t, C[k].id) = -pay
        BY <1>8, <1>20, <3>2 DEF due
      <4> QED BY <3>1, <4>1
    <3>3. CASE k # j
      BY <1>8, <1>20, <3>1, <3>3
    <3> QED BY <3>2, <3>3
  <2>3. \A p \in DOMAIN P : P[p] = 0 => FlowOf(T2, p) = 0
    BY <1>3, <1>18, <1>20
  <2> QED BY <1>6, <1>7, <1>8, <2>1, <2>2, <2>3 DEF GreedyFlow
<1>22. GreedyMet(h)
  <2>1. ASSUME NEW k \in DOMAIN T2
        PROVE  \E a \in DOMAIN D, b \in DOMAIN C :
                 /\ a <= i2 /\ b <= j2 /\ a + b < i2 + j2
                 /\ T2[k].from = D[a].id /\ T2[k].to = C[b].id
    <3>1. CASE k \in DOMAIN T
      <4>1. PICK a \in DOMAIN D, b \in DOMAIN C :
                 a <= i /\ b <= j /\ a + b < i + j /\ T[k].from = D[a].id /\ T[k].to = C[b].id
        BY <1>4, <3>1
      <4>2. a \in Nat /\ b \in Nat
        BY <1>9, <1>10
      <4>3. a <= i2 /\ b <= j2 /\ a + b < i2 + j2
        BY <1>11, <4>1, <4>2
      <4> QED BY <1>13, <3>1, <4>1, <4>3
    <3>2. CASE k = Len(T) + 1
      <4>1. i <= i2 /\ j <= j2 /\ i + j < i2 + j2
        BY <1>11
      <4>2. T2[k].from = D[i].id /\ T2[k].to = C[j].id
        BY <1>12, <1>13, <3>2
      <4> QED BY <1>1, <4>1, <4>2
    <3> QED BY <1>13, <3>1, <3>2
  <2>2. ASSUME NEW k \in DOMAIN T PROVE ~(T[k].from = t.from /\ T[k].to = t.to)
    <3>1. PICK a \in DOMAIN D, b \in DOMAIN C :
               a <= i /\ b <= j /\ a + b < i + j /\ T[k].from = D[a].id /\ T[k].to = C[b].id
      BY <1>4
    <3>2. a \in Nat /\ b \in Nat
      BY <1>9, <1>10
    <3>3. a # i \/ b # j
      BY <1>11, <3>1, <3>2
    <3>4. D[a].id = D[i].id => a = i
      BY <1>1, <1>2 DEF Listed
    <3>5. C[b].id = C[j].id => b = j
      BY <1>1, <1>2 DEF Listed
    <3> QED BY <1>12, <3>1, <3>3, <3>4, <3>5
  <2>3. ASSUME NEW k \in DOMAIN T2, NEW l \in DOMAIN T2,
               T2[k].from = T2[l].from, T2[k].to = T2[l].to
        PROVE  k = l
    <3>1. CASE k \in DOMAIN T /\ l \in DOMAIN T
      BY <1>4, <1>13, <2>3, <3>1
    <3>2. CASE k = Len(T) + 1 /\ l \in DOMAIN T
      BY <1>13, <2>2, <2>3, <3>2
    <3>3. CASE k \in DOMAIN T /\ l = Len(T) + 1
      BY <1>13, <2>2, <2>3, <3>3
    <3> QED BY <1>13, <3>1, <3>2, <3>3
  <2> QED BY <1>6, <1>7, <1>8, <2>1, <2>3 DEF GreedyMet
<1>23. GreedyShort(h)
  <2>1. Len(T2) <= i2 + j2 - 2
    BY <1>5, <1>11, <1>13
  <2>2. ASSUME ~GreedyRunning(h) PROVE Len(T2) <= i2 + j2 - 3
    <3>1. i2 > Len(D2) \/ j2 > Len(C2)
      BY <1>6, <1>7, <1>8, <1>9, <1>10, <1>11, <2>2 DEF GreedyRunning
    <3>2. i2 > Len(D2) <=> j2 > Len(C2)
      BY <1>2, <1>7, <1>8, NothingLeft
    <3>3. i2 = i + 1 /\ j2 = j + 1
      BY <1>2, <1>7, <1>8, <1>9, <1>10, <1>11, <3>1, <3>2
    <3> QED BY <1>5, <1>11, <1>13, <3>3
  <2> QED BY <1>6, <2>1, <2>2 DEF GreedyShort
<1> QED BY <1>6, <1>11, <1>14, <1>17, <1>21, <1>22, <1>23 DEF GreedyInv, h, i, j

\* Those who take part: no more than there are people.
LEMMA TakingPart ==
  ASSUME NEW P, IsPositions(P), NEW involved, involved = { p \in DOMAIN P : P[p] # 0 }
  PROVE  /\ Cardinality(Owing(P)) \in Nat /\ Cardinality(Owed(P)) \in Nat
         /\ Cardinality(involved) = Cardinality(Owing(P)) + Cardinality(Owed(P))
         /\ Cardinality(involved) <= Cardinality(DOMAIN P)
<1>1. /\ IsFiniteSet(DOMAIN P) /\ \A u \in DOMAIN P : P[u] \in Int
  BY DEF IsPositions
<1>2. /\ Owing(P) \in SUBSET DOMAIN P /\ Owed(P) \in SUBSET DOMAIN P
      /\ Owing(P) \cap Owed(P) = {} /\ Owing(P) \cup Owed(P) = involved
      /\ involved \in SUBSET DOMAIN P
  BY <1>1 DEF Owing, Owed
<1>3. IsFiniteSet(Owing(P)) /\ IsFiniteSet(Owed(P))
  BY <1>1, <1>2, FS_Subset
<1>4. Cardinality(Owing(P) \cap Owed(P)) = 0
  BY <1>2, FS_EmptySet
<1>5. Cardinality(Owing(P)) \in Nat /\ Cardinality(Owed(P)) \in Nat
  BY <1>3, FS_CardinalityType
<1>6. Cardinality(Owing(P) \cup Owed(P))
        = Cardinality(Owing(P)) + Cardinality(Owed(P)) - Cardinality(Owing(P) \cap Owed(P))
  BY <1>3, FS_Union
<1>7. Cardinality(involved) = Cardinality(Owing(P)) + Cardinality(Owed(P))
  <2>1. Cardinality(Owing(P) \cup Owed(P)) = Cardinality(involved)
    BY <1>2, Zenon
  <2> QED BY <1>4, <1>5, <1>6, <2>1
<1>8. Cardinality(involved) <= Cardinality(DOMAIN P)
  BY <1>1, <1>2, FS_Subset
<1> QED BY <1>5, <1>7, <1>8

\* While the loop runs it has cursors to move; what it hands back is short.
LEMMA GreedyBounds ==
  ASSUME NEW P, IsPositions(P), NEW g, GreedyInv(P, g),
         NEW involved, involved = { p \in DOMAIN P : P[p] # 0 }
  PROVE  /\ GreedyRunning(g) => g.i + g.j <= Cardinality(involved)
         /\ g.transactions # <<>> => Len(g.transactions) <= Cardinality(involved) - 1
<1> DEFINE D == g.debtors
           C == g.creditors
           m == Len(D)
           n == Len(C)
           l == Len(g.transactions)
<1>1. /\ Listed(D, Owing(P)) /\ Listed(C, Owed(P)) /\ UsedUp(D, g.i) /\ UsedUp(C, g.j)
      /\ Total(D) = Total(C) /\ l <= g.i + g.j - 2
      /\ g.transactions \in Seq([from : Owing(P), to : Owed(P), amt : Nat \ {0}])
      /\ (~GreedyRunning(g) /\ g.transactions # <<>> => l <= g.i + g.j - 3)
  BY DEF GreedyInv, GreedyLists, GreedyShort, Greedies
<1>2. Cardinality(Owing(P)) = m /\ Cardinality(Owed(P)) = n
  BY <1>1, ListedSize
<1>3. Cardinality(involved) = m + n /\ m \in Nat /\ n \in Nat
  BY <1>2, TakingPart
<1>4. g.i \in 1 .. m + 1 /\ g.j \in 1 .. n + 1 /\ (GreedyRunning(g) <=> g.i <= m /\ g.j <= n)
  BY <1>1 DEF UsedUp, GreedyRunning
<1>5. g.i > m <=> g.j > n
  BY <1>1, NothingLeft
<1>6. l \in Nat
  BY <1>1, SeqFunction
<1> HIDE DEF D, C, m, n, l
<1>7. GreedyRunning(g) => g.i + g.j <= m + n
  BY <1>3, <1>4
<1>8. GreedyRunning(g) => l <= m + n - 1
  BY <1>1, <1>3, <1>4, <1>6
<1>9. ~GreedyRunning(g) /\ g.transactions # <<>> => l <= m + n - 1
  BY <1>1, <1>3, <1>4, <1>5, <1>6
<1> QED BY <1>3, <1>7, <1>8, <1>9 DEF l

\* When the loop has ended, the transactions make up for every position.
LEMMA GreedyEnds ==
  ASSUME NEW P, IsPositions(P), NEW g, GreedyInv(P, g), ~GreedyRunning(g), NEW p \in DOMAIN P
  PROVE  P[p] + FlowOf(g.transactions, p) = 0
<1> DEFINE D == g.debtors
           C == g.creditors
<1>1. /\ Listed(D, Owing(P)) /\ Listed(C, Owed(P)) /\ UsedUp(D, g.i) /\ UsedUp(C, g.j)
      /\ Total(D) = Total(C)
  BY DEF GreedyInv, GreedyLists
<1>2. g.i > Len(D) <=> g.j > Len(C)
  BY <1>1, NothingLeft
<1>3. Len(D) \in Nat /\ DOMAIN D = 1 .. Len(D) /\ Len(C) \in Nat /\ DOMAIN C = 1 .. Len(C)
  BY <1>1, ListedEntries
<1>4. g.i \in 1 .. Len(D) + 1 /\ g.j \in 1 .. Len(C) + 1
  BY <1>1 DEF UsedUp
<1>5. g.i > Len(D) /\ g.j > Len(C)
  BY <1>2, <1>3, <1>4 DEF GreedyRunning
<1>6. (\A k \in DOMAIN D : D[k].amt = 0) /\ (\A k \in DOMAIN C : C[k].amt = 0)
  BY <1>1, <1>3, <1>4, <1>5 DEF UsedUp
<1>7. P[p] \in Int
  BY DEF IsPositions
<1>8. CASE P[p] < 0
  <2>1. PICK k \in DOMAIN D : D[k].id = p
    BY <1>1, <1>8 DEF Listed, Owing
  <2>2. P[p] + FlowOf(g.transactions, p) = -D[k].amt
    BY <2>1 DEF GreedyInv, GreedyFlow
  <2> QED BY <1>6, <2>2
<1>9. CASE P[p] > 0
  <2>1. PICK k \in DOMAIN C : C[k].id = p
    BY <1>1, <1>9 DEF Listed, Owed
  <2>2. P[p] + FlowOf(g.transactions, p) = C[k].amt
    BY <2>1 DEF GreedyInv, GreedyFlow
  <2> QED BY <1>6, <2>2
<1>10. CASE P[p] = 0
  <2>1. FlowOf(g.transactions, p) = 0
    BY <1>10 DEF GreedyInv, GreedyFlow
  <2> QED BY <1>10, <2>1
<1> QED BY <1>7, <1>8, <1>9, <1>10

-----------------------------------------------------------------------------
(* simplify_debts: the whole loop *)

\* Counting up to N.
LEMMA IntervalInduction ==
  ASSUME NEW N \in Nat, NEW G, 0 \in G, \A n \in 1 .. N : n - 1 \in G => n \in G
  PROVE  \A n \in 0 .. N : n \in G
<1> DEFINE bad == (0 .. N) \ G
<1> SUFFICES ASSUME bad # {} PROVE FALSE
  OBVIOUS
<1>1. IsFiniteSet(bad)
  <2>1. IsFiniteSet(0 .. N) /\ bad \in SUBSET (0 .. N)
    BY FS_Interval
  <2> HIDE DEF bad
  <2> QED BY <2>1, FS_Subset
<1>2. bad \subseteq Int
  OBVIOUS
<1> DEFINE m == Min(bad)
<1>3. m \in bad /\ \A y \in bad : m <= y
  <2> HIDE DEF bad
  <2> QED BY <1>1, <1>2, MinIn
<1> HIDE DEF m
<1>4. m \in 1 .. N
  BY <1>3
<1>5. m - 1 \notin bad
  BY <1>3, <1>4
<1> QED BY <1>3, <1>4, <1>5

\* r repeats a step N times from base.
Iterates(r, A, base, step, N) ==
    r \in [0 .. N -> A] /\ r[0] = base /\ \A n \in 1 .. N : r[n] = step[r[n - 1]]

LEMMA IterationsExist ==
  ASSUME NEW A, NEW base \in A, NEW step, \A a \in A : step[a] \in A, NEW N \in Nat
  PROVE  \E r : Iterates(r, A, base, step, N)
<1> DEFINE G == { m \in 0 .. N : \E r : Iterates(r, A, base, step, m) }
<1>1. 0 \in G
  <2>1. [n \in 0 .. 0 |-> base] \in [0 .. 0 -> A] /\ [n \in 0 .. 0 |-> base][0] = base
    OBVIOUS
  <2>2. Iterates([n \in 0 .. 0 |-> base], A, base, step, 0)
    BY <2>1 DEF Iterates
  <2> QED BY <2>2
<1>2. ASSUME NEW m \in 1 .. N, m - 1 \in G PROVE m \in G
  <2>0. PICK r : Iterates(r, A, base, step, m - 1)
    BY <1>2
  <2>1. r \in [0 .. m - 1 -> A] /\ r[0] = base /\ \A n \in 1 .. m - 1 : r[n] = step[r[n - 1]]
    BY <2>0 DEF Iterates
  <2> DEFINE s == [n \in 0 .. m |-> IF n = m THEN step[r[m - 1]] ELSE r[n]]
  <2>2. r[m - 1] \in A /\ \A n \in 0 .. m - 1 : r[n] \in A
    BY <2>1
  <2>3. s \in [0 .. m -> A]
    BY <2>2
  <2>4. s[0] = base
    BY <2>1
  <2>5. \A n \in 1 .. m : s[n] = step[s[n - 1]]
    <3> SUFFICES ASSUME NEW n \in 1 .. m PROVE s[n] = step[s[n - 1]]
      OBVIOUS
    <3>1. s[n - 1] = r[n - 1]
      OBVIOUS
    <3>2. CASE n = m
      BY <3>1, <3>2
    <3>3. CASE n # m
      <4>1. n \in 1 .. m - 1 /\ s[n] = r[n]
        BY <3>3
      <4>2. r[n] = step[r[n - 1]]
        BY <2>1, <4>1
      <4> QED BY <3>1, <4>1, <4>2
    <3> QED BY <3>2, <3>3
  <2>6. Iterates(s, A, base, step, m)
    BY <2>3, <2>4, <2>5 DEF Iterates
  <2> HIDE DEF s
  <2> QED BY <2>6
<1>3. N \in G
  <2> HIDE DEF G
  <2>1. \A n \in 0 .. N : n \in G
    BY <1>1, <1>2, IntervalInduction
  <2> QED BY <2>1
<1> QED BY <1>3

\* simplify_debts ends after at most as many passes as there are people, and hands
\* back transactions that settle the positions and are short (GreedyInv).
THEOREM SimplifyDebtsEnds ==
  ASSUME NEW P, IsPositions(P)
  PROVE  \E g : GreedyInv(P, g) /\ ~GreedyRunning(g) /\ SimplifyDebts(P) = g.transactions
<1> DEFINE N == Cardinality(DOMAIN P)
           A == { g \in Greedies(P) : GreedyInv(P, g) }
           step == [g \in A |-> IF GreedyRunning(g) THEN GreedyBody(g) ELSE g]
           Def(r) == [n \in 0 .. N |->
                        IF n = 0 THEN GreedyStart(P)
                        ELSE IF GreedyRunning(r[n - 1]) THEN GreedyBody(r[n - 1])
                        ELSE r[n - 1]]
           run == CHOOSE r : r = Def(r)
<1>1. N \in Nat
  BY FS_CardinalityType DEF IsPositions
<1>2. SimplifyDebts(P) = run[N].transactions
  BY DEF SimplifyDebts
<1>3. \A g : g \in A <=> GreedyInv(P, g)
  BY DEF GreedyInv
<1>4. \A g \in A : step[g] = IF GreedyRunning(g) THEN GreedyBody(g) ELSE g
  OBVIOUS
<1> HIDE DEF N, A, step
<1>5. \A g \in A : step[g] \in A
  BY <1>3, <1>4, GreedySteps
<1>6. GreedyStart(P) \in A
  BY <1>3, GreedyStarts
<1>7. \E r : r = Def(r)
  <2>1. PICK r \in [0 .. N -> A] : r[0] = GreedyStart(P) /\ \A n \in 1 .. N : r[n] = step[r[n - 1]]
    <3> DEFINE base == GreedyStart(P)
    <3>1. base \in A /\ N \in Nat /\ \A g \in A : step[g] \in A
      BY <1>1, <1>5, <1>6
    <3> HIDE DEF base
    <3>2. \E r : Iterates(r, A, base, step, N)
      BY <3>1, IterationsExist
    <3> QED BY <3>2 DEF base, Iterates
  <2>2. ASSUME NEW n \in 0 .. N
        PROVE  r[n] = IF n = 0 THEN GreedyStart(P)
                      ELSE IF GreedyRunning(r[n - 1]) THEN GreedyBody(r[n - 1]) ELSE r[n - 1]
    <3>1. CASE n = 0
      BY <2>1, <3>1
    <3>2. CASE n # 0
      <4>1. n \in 1 .. N /\ n - 1 \in 0 .. N
        BY <1>1, <3>2
      <4>2. r[n - 1] \in A /\ r[n] = step[r[n - 1]]
        BY <2>1, <4>1
      <4> QED BY <1>4, <3>2, <4>2
    <3> QED BY <3>1, <3>2
  <2>3. r = [n \in 0 .. N |-> r[n]]
    BY <2>1
  <2>4. r = Def(r)
    BY <2>2, <2>3
  <2> QED BY <2>4
<1>8. run = Def(run)
  BY <1>7
<1> HIDE DEF run
<1>9. /\ run[0] = GreedyStart(P)
      /\ \A n \in 1 .. N : run[n] = IF GreedyRunning(run[n - 1]) THEN GreedyBody(run[n - 1])
                                    ELSE run[n - 1]
  <2>1. \A n \in 0 .. N : run[n] = IF n = 0 THEN GreedyStart(P)
                        ELSE IF GreedyRunning(run[n - 1]) THEN GreedyBody(run[n - 1])
                        ELSE run[n - 1]
    BY <1>8
  <2> HIDE DEF Def
  <2> QED BY <1>1, <2>1
\* Every pass moves a cursor.
<1> DEFINE G == { n \in 0 .. N : /\ GreedyInv(P, run[n])
                                 /\ GreedyRunning(run[n]) => run[n].i + run[n].j >= n + 2 }
<1>10. 0 \in G
  <2>1. GreedyInv(P, run[0])
    BY <1>9, GreedyStarts
  <2>2. run[0].i = 1 /\ run[0].j = 1
    BY <1>9 DEF GreedyStart
  <2> QED BY <1>1, <2>1, <2>2
<1>11. ASSUME NEW n \in 1 .. N, n - 1 \in G PROVE n \in G
  <2> DEFINE g == run[n - 1]
             h == run[n]
  <2>1. GreedyInv(P, g) /\ (GreedyRunning(g) => g.i + g.j >= (n - 1) + 2)
    BY <1>11
  <2>2. h = IF GreedyRunning(g) THEN GreedyBody(g) ELSE g
    BY <1>9
  <2> HIDE DEF g, h
  <2>3. CASE GreedyRunning(g)
    <3>1. GreedyInv(P, h) /\ h.i + h.j > g.i + g.j
      BY <2>1, <2>2, <2>3, GreedySteps
    <3>2. g.i \in Nat /\ g.j \in Nat /\ h.i \in Nat /\ h.j \in Nat
      BY <2>1, <3>1 DEF GreedyInv, Greedies
    <3>3. h.i + h.j >= n + 2
      BY <1>1, <2>1, <2>3, <3>1, <3>2
    <3> QED BY <1>1, <3>1, <3>3 DEF h
  <2>4. CASE ~GreedyRunning(g)
    BY <1>1, <2>1, <2>2, <2>4 DEF h
  <2> QED BY <2>3, <2>4
<1>12. N \in G
  <2> HIDE DEF G
  <2>1. \A n \in 0 .. N : n \in G
    BY <1>1, <1>10, <1>11, IntervalInduction
  <2> QED BY <1>1, <2>1
<1>13. GreedyInv(P, run[N]) /\ (GreedyRunning(run[N]) => run[N].i + run[N].j >= N + 2)
  BY <1>12
<1>14. ~GreedyRunning(run[N])
  <2> DEFINE involved == { p \in DOMAIN P : P[p] # 0 }
             c == Cardinality(involved)
             g == run[N]
  <2>1. c \in Nat /\ c <= N
    <3> HIDE DEF involved
    <3>1. involved = { p \in DOMAIN P : P[p] # 0 }
      BY DEF involved
    <3>2. /\ Cardinality(Owing(P)) \in Nat /\ Cardinality(Owed(P)) \in Nat
          /\ c = Cardinality(Owing(P)) + Cardinality(Owed(P)) /\ c <= N
      BY <3>1, TakingPart DEF N
    <3> QED BY <3>2
  <2>2. GreedyRunning(g) => g.i + g.j <= c
    BY <1>13, GreedyBounds
  <2>3. g.i \in Nat /\ g.j \in Nat
    BY <1>13 DEF GreedyInv, Greedies
  <2> HIDE DEF c, g
  <2>4. GreedyRunning(g) => g.i + g.j >= N + 2
    BY <1>13 DEF g
  <2>5. ~GreedyRunning(g)
    BY <1>1, <2>1, <2>2, <2>3, <2>4
  <2> QED BY <2>5 DEF g
<1> QED BY <1>2, <1>13, <1>14

-----------------------------------------------------------------------------
(* Tables that a fold adds to *)

\* What obeys the recursion of a fold while it stays in A is that fold.
LEMMA FoldStays ==
  ASSUME NEW S, IsFiniteSet(S), NEW A, NEW base \in A, NEW step \in [S -> [A -> A]],
         NEW it, it = [s \in SUBSET S |-> it[s]], it[{}] = base,
         \A s \in SUBSET S : s # {} /\ it[s \ {Pick(s)}] \in A
                               => it[s] = step[Pick(s)][it[s \ {Pick(s)}]]
  PROVE  IsFold(it, S, A, base, step)
<1> DEFINE G == { s \in SUBSET S : it[s] \in A }
<1>1. ASSUME NEW s \in SUBSET S, \A r \in SUBSET s : r # s => r \in G PROVE s \in G
  <2>1. CASE s = {}
    BY <2>1
  <2>2. CASE s # {}
    <3>1. Pick(s) \in s
      BY <2>2, PickIn
    <3>2. it[s \ {Pick(s)}] \in A
      BY <1>1, <3>1
    <3>3. it[s] = step[Pick(s)][it[s \ {Pick(s)}]] /\ step[Pick(s)] \in [A -> A]
      BY <2>2, <3>1, <3>2
    <3> QED BY <3>2, <3>3
  <2> QED BY <2>1, <2>2
<1>2. \A s \in SUBSET S : s \in G
  <2> HIDE DEF G
  <2> QED BY <1>1, StrongSetInduction
<1>3. it \in [SUBSET S -> A]
  BY <1>2
<1>4. ASSUME NEW s \in SUBSET S, s # {} PROVE it[s] = step[Pick(s)][it[s \ {Pick(s)}]]
  <2>1. s \ {Pick(s)} \in SUBSET S
    OBVIOUS
  <2>2. it[s \ {Pick(s)}] \in A
    BY <1>3, <2>1
  <2> QED BY <1>4, <2>2
<1> QED BY <1>3, <1>4 DEF IsFold

Tables(P) == [P -> Int]

\* Each e adds eff[e][p] to the entry at p.
Adding(P, S, eff) == [e \in S |-> [l \in Tables(P) |-> [p \in P |-> l[p] + eff[e][p]]]]

EffectAt(S, eff, p) == [e \in S |-> eff[e][p]]

LEMMA AddingTypes ==
  ASSUME NEW P, NEW S, NEW eff, \A e \in S : eff[e] \in Tables(P)
  PROVE  Adding(P, S, eff) \in [S -> [Tables(P) -> Tables(P)]]
BY DEF Adding, Tables

\* All of them together add the sum.
LEMMA AddingAdds ==
  ASSUME NEW P, NEW S, IsFiniteSet(S), NEW eff, \A e \in S : eff[e] \in Tables(P),
         NEW base \in Tables(P),
         NEW it, IsFold(it, S, Tables(P), base, Adding(P, S, eff)), NEW p \in P
  PROVE  /\ IsSummable(EffectAt(S, eff, p), S)
         /\ it[S] \in Tables(P)
         /\ it[S][p] = base[p] + SumFunctionOnSet(EffectAt(S, eff, p), S)
<1> DEFINE f == EffectAt(S, eff, p)
           G == { s \in SUBSET S : it[s][p] = base[p] + SumFunctionOnSet(f, s) }
<1>1. \A e \in S : f[e] = eff[e][p] /\ f[e] \in Int
  BY DEF EffectAt, Tables
<1> HIDE DEF f
<1>2. IsSummable(f, S)
  BY <1>1 DEF IsSummable
<1>3. ASSUME NEW s \in SUBSET S, \A r \in SUBSET s : r # s => r \in G PROVE s \in G
  <2>1. CASE s = {}
    <3>1. it[s][p] = base[p] /\ base[p] \in Int /\ SumFunctionOnSet(f, s) = 0
      BY <2>1, SumEmpty DEF IsFold, Tables
    <3> QED BY <3>1
  <2>2. CASE s # {}
    <3> DEFINE x == Pick(s)
               r == s \ {x}
    <3>1. x \in s /\ x \in S /\ r \in SUBSET S /\ r \in SUBSET s /\ r # s
      BY <2>2, PickIn
    <3>2. it[s] = Adding(P, S, eff)[x][it[r]] /\ it[r] \in Tables(P)
      BY <2>2, <3>1 DEF IsFold
    <3>3. it[s][p] = it[r][p] + f[x]
      BY <1>1, <3>1, <3>2 DEF Adding, Tables
    <3>4. it[r][p] = base[p] + SumFunctionOnSet(f, r)
      BY <1>3, <3>1
    <3>5. IsSummable(f, s) /\ IsSummable(f, r)
      BY <1>2, <3>1, SummableSubset
    <3>6. SumFunctionOnSet(f, s) = f[x] + SumFunctionOnSet(f, r)
      BY <3>1, <3>5, SumSplit
    <3>7. SumFunctionOnSet(f, r) \in Int /\ f[x] \in Int /\ base[p] \in Int
      BY <1>1, <3>1, <3>5, SumInt DEF Tables
    <3> HIDE DEF x, r
    <3>8. it[s][p] = base[p] + SumFunctionOnSet(f, s)
      BY <3>3, <3>4, <3>6, <3>7
    <3> QED BY <3>8
  <2> QED BY <2>1, <2>2
<1>4. S \in G
  <2> HIDE DEF G
  <2> QED BY <1>3, StrongSetInduction
<1>5. it[S] \in Tables(P)
  BY DEF IsFold
<1> QED BY <1>2, <1>4, <1>5 DEF f

\* What somebody's share adds to the ledger.
Owes(I, shares, creditor) ==
    [u \in DOMAIN shares |->
        [p \in I \X I |-> IF p = <<u, creditor>> /\ u # creditor THEN shares[u] ELSE 0]]

ShareAt(shares, creditor, p) ==
    IF p[2] = creditor /\ p[1] # p[2] /\ p[1] \in DOMAIN shares THEN shares[p[1]] ELSE 0
SharesAdded(pw, creditor, shares) ==
    [p \in DOMAIN pw |-> pw[p] + ShareAt(shares, creditor, p)]

\* An expense adds each share to what is owed to the creditor, and nothing else.
LEMMA AddSharesAdds ==
  ASSUME NEW I, NEW pw \in Tables(I \X I), NEW creditor \in I, NEW shares,
         DOMAIN shares \in SUBSET I, IsFiniteSet(DOMAIN shares),
         \A u \in DOMAIN shares : shares[u] \in Nat
  PROVE  /\ AddShares(pw, creditor, shares) \in Tables(I \X I)
         /\ AddShares(pw, creditor, shares) = SharesAdded(pw, creditor, shares)
<1> DEFINE S == DOMAIN shares
           P == I \X I
           eff == Owes(I, shares, creditor)
           step == Adding(P, S, eff)
           Def(g) == [s \in SUBSET S |->
                        IF s = {} THEN pw
                        ELSE AddExpenseDebt(g[s \ {CHOOSE x \in s : TRUE}], CHOOSE x \in s : TRUE,
                                            creditor, shares[CHOOSE x \in s : TRUE])]
           it == CHOOSE g : g = Def(g)
<1>1. \A u \in S : \A p \in P :
         eff[u][p] = IF p = <<u, creditor>> /\ u # creditor THEN shares[u] ELSE 0
  BY DEF Owes
<1>2. \A u \in S : eff[u] \in Tables(P)
  BY DEF Owes, Tables
<1>3. ASSUME NEW u \in S, NEW l \in Tables(P)
      PROVE  AddExpenseDebt(l, u, creditor, shares[u]) = step[u][l]
  <2> DEFINE q == <<u, creditor>>
             new == AddExpenseDebt(l, u, creditor, shares[u])
  <2>1. step[u][l] = [p \in P |-> l[p] + eff[u][p]]
    BY DEF Adding
  <2>2. /\ q \in P /\ shares[u] \in Nat /\ l[q] \in Int
        /\ l = [p \in P |-> l[p]] /\ \A p \in P : l[p] \in Int
    BY DEF Tables
  <2>3. CASE shares[u] <= 0 \/ u = creditor
    <3>1. new = l
      BY <2>3 DEF AddExpenseDebt
    <3>2. \A p \in P : l[p] + eff[u][p] = l[p]
      BY <1>1, <2>2, <2>3
    <3> HIDE DEF eff, step, new, P
    <3>4. [p \in P |-> l[p] + eff[u][p]] = [p \in P |-> l[p]]
      BY <3>2
    <3> QED BY <2>1, <2>2, <3>1, <3>4 DEF new
  <2>4. CASE ~(shares[u] <= 0 \/ u = creditor)
    <3>1. new = [l EXCEPT ![q] = @ + shares[u]]
      BY <2>4 DEF AddExpenseDebt
    <3>2. new = [p \in P |-> IF p = q THEN l[q] + shares[u] ELSE l[p]]
      BY <2>2, <3>1
    <3>3. \A p \in P : l[p] + eff[u][p] = IF p = q THEN l[q] + shares[u] ELSE l[p]
      BY <1>1, <2>2, <2>4
    <3> HIDE DEF eff, step, new, P
    <3>4. [p \in P |-> l[p] + eff[u][p]] = [p \in P |-> IF p = q THEN l[q] + shares[u] ELSE l[p]]
      BY <3>3
    <3> QED BY <2>1, <3>2, <3>4 DEF new
  <2> QED BY <2>3, <2>4
<1> HIDE DEF eff, P
<1>4. step \in [S -> [Tables(P) -> Tables(P)]]
  BY <1>2, AddingTypes
<1>5. PICK jt : IsFold(jt, S, Tables(P), pw, step)
  <2> HIDE DEF step
  <2>1. S \in SUBSET S /\ pw \in Tables(P)
    BY DEF P
  <2> QED BY <1>4, <2>1, FoldsExist
<1>6. jt = Def(jt)
  <2>1. ASSUME NEW s \in SUBSET S, s # {}
        PROVE  jt[s] = AddExpenseDebt(jt[s \ {Pick(s)}], Pick(s), creditor, shares[Pick(s)])
    <3>1. Pick(s) \in S /\ s \ {Pick(s)} \in SUBSET S
      BY <2>1, PickIn
    <3>2. jt[s] = step[Pick(s)][jt[s \ {Pick(s)}]] /\ jt[s \ {Pick(s)}] \in Tables(P)
      BY <1>5, <2>1, <3>1 DEF IsFold
    <3> QED BY <1>3, <3>1, <3>2
  <2>2. jt = [s \in SUBSET S |-> jt[s]] /\ jt[{}] = pw
    BY <1>5 DEF IsFold
  <2> QED BY <2>1, <2>2 DEF Pick
<1>7. it = Def(it)
  BY <1>6
<1>8. AddShares(pw, creditor, shares) = it[S]
  BY DEF AddShares, FoldSet, MapThenFoldSet
<1>9. IsFold(it, S, Tables(P), pw, step)
  <2> HIDE DEF it
  <2>1. it = [s \in SUBSET S |-> it[s]] /\ it[{}] = pw
    BY <1>7
  <2>2. ASSUME NEW s \in SUBSET S, s # {}, it[s \ {Pick(s)}] \in Tables(P)
        PROVE  it[s] = step[Pick(s)][it[s \ {Pick(s)}]]
    <3>1. it[s] = AddExpenseDebt(it[s \ {Pick(s)}], Pick(s), creditor, shares[Pick(s)])
      BY <1>7, <2>2 DEF Pick
    <3>2. Pick(s) \in S
      BY <2>2, PickIn
    <3> QED BY <1>3, <2>2, <3>1, <3>2
  <2>3. pw \in Tables(P) /\ IsFiniteSet(S)
    BY DEF P
  <2> HIDE DEF step, S
  <2> QED BY <1>4, <2>1, <2>2, <2>3, FoldStays
<1> HIDE DEF it
<1>10. ASSUME NEW a \in I, NEW b \in I
       PROVE  /\ it[S] \in Tables(P)
              /\ it[S][<<a, b>>] = pw[<<a, b>>] + (IF b = creditor /\ a # b /\ a \in S
                                                   THEN shares[a] ELSE 0)
  <2> DEFINE p == <<a, b>>
             f == EffectAt(S, eff, p)
  <2>1. p \in P /\ pw \in Tables(P)
    BY DEF P
  <2>2. IsSummable(f, S) /\ it[S] \in Tables(P) /\ it[S][p] = pw[p] + SumFunctionOnSet(f, S)
    <3>1. IsFiniteSet(S) /\ p \in P /\ pw \in Tables(P)
      BY <2>1
    <3> HIDE DEF p, S
    <3> QED BY <1>2, <1>9, <3>1, AddingAdds
  <2>3. \A u \in S : f[u] = IF p = <<u, creditor>> /\ u # creditor THEN shares[u] ELSE 0
    BY <1>1, <2>1 DEF EffectAt
  <2> HIDE DEF f
  <2>4. CASE b = creditor /\ a # b /\ a \in S
    <3>1. f[a] = shares[a] /\ f[a] \in Int /\ \A u \in S \ {a} : f[u] = 0
      BY <2>3, <2>4
    <3>2. SumFunctionOnSet(f, S) = f[a]
      BY <2>4, <3>1, SumPoint
    <3> QED BY <2>2, <2>4, <3>1, <3>2
  <2>5. CASE ~(b = creditor /\ a # b /\ a \in S)
    <3>1. \A u \in S : f[u] = 0
      BY <2>3, <2>5
    <3>2. SumFunctionOnSet(f, S) = 0 * Cardinality(S) /\ Cardinality(S) \in Nat
      BY <3>1, SumConstant, FS_CardinalityType
    <3>3. pw[p] \in Int
      BY <2>1 DEF Tables
    <3> QED BY <2>2, <2>5, <3>2, <3>3
  <2> QED BY <2>2, <2>4, <2>5
<1>11. it[S] \in Tables(P)
  BY <1>9 DEF IsFold
<1>12. ASSUME NEW p \in P PROVE it[S][p] = pw[p] + ShareAt(shares, creditor, p)
  <2>1. PICK a \in I, b \in I : p = <<a, b>>
    BY DEF P
  <2>2. p[1] = a /\ p[2] = b
    BY <2>1
  <2> QED BY <1>10, <2>1, <2>2 DEF ShareAt
<1>13. it[S] = [p \in P |-> it[S][p]] /\ DOMAIN pw = P
  BY <1>11 DEF Tables, P
<1>14. it[S] = SharesAdded(pw, creditor, shares)
  <2> DEFINE new == it[S]
  <2>1. new = [p \in P |-> new[p]]
    BY <1>13
  <2>2. \A p \in P : new[p] = pw[p] + ShareAt(shares, creditor, p)
    BY <1>12
  <2> HIDE DEF new
  <2>3. [p \in P |-> new[p]] = [p \in P |-> pw[p] + ShareAt(shares, creditor, p)]
    BY <2>2
  <2>4. new = SharesAdded(pw, creditor, shares)
    BY <1>13, <2>1, <2>3 DEF SharesAdded
  <2> QED BY <2>4 DEF new
<1> QED BY <1>8, <1>11, <1>14 DEF P

\* A payment takes its amount from one entry.
LEMMA AddPaymentAdds ==
  ASSUME NEW I, NEW pw \in Tables(I \X I), NEW payer \in I, NEW payee \in I,
         NEW amount \in Nat
  PROVE  /\ AddPayment(pw, payer, payee, amount) \in Tables(I \X I)
         /\ \A p \in I \X I : AddPayment(pw, payer, payee, amount)[p]
              = pw[p] + (IF p = <<payer, payee>> /\ payer # payee THEN -amount ELSE 0)
<1> DEFINE q == <<payer, payee>>
           new == AddPayment(pw, payer, payee, amount)
<1>1. /\ q \in I \X I /\ pw = [p \in I \X I |-> pw[p]]
      /\ \A p \in I \X I : pw[p] \in Int
  BY DEF Tables
<1>2. CASE amount <= 0 \/ payer = payee
  <2>1. new = pw
    BY <1>2 DEF AddPayment
  <2>2. \A p \in I \X I : pw[p] = pw[p] + (IF p = q /\ payer # payee THEN -amount ELSE 0)
    BY <1>1, <1>2
  <2> QED BY <2>1, <2>2
<1>3. CASE ~(amount <= 0 \/ payer = payee)
  <2>1. new = [pw EXCEPT ![q] = @ - amount]
    BY <1>3 DEF AddPayment
  <2>2. new = [p \in I \X I |-> IF p = q THEN pw[q] - amount ELSE pw[p]]
    BY <1>1, <2>1
  <2>3. \A p \in I \X I : new[p] = pw[p] + (IF p = q /\ payer # payee THEN -amount ELSE 0)
    BY <1>1, <1>3, <2>2
  <2>4. \A p \in I \X I : new[p] \in Int
    BY <1>1, <2>2
  <2> QED BY <2>2, <2>3, <2>4 DEF Tables
<1> QED BY <1>2, <1>3
=============================================================================

---------------------------- MODULE SumTheorems ----------------------------
(***************************************************************************)
(* What a SUM() query returns when rows are added or change. The library   *)
(* states induction with an operator as parameter, which the provers here  *)
(* cannot instantiate; SetInduction states it of a set of sets instead,    *)
(* and every lemma about a sum follows from it.                            *)
(***************************************************************************)
EXTENDS Sums, FiniteSetTheorems, WellFoundedInduction, TLAPS

\* Of the subsets of a finite set, any that there are have a smallest.
LEMMA SmallestSubset ==
    ASSUME NEW S, IsFiniteSet(S), NEW T \in SUBSET (SUBSET S), T # {}
    PROVE  \E t \in T : \A u \in T : u \subseteq t => u = t
<1>1. FiniteSubsetsOf(S) = SUBSET S
  BY FS_FiniteSubsetsOfFinite
<1>2. IsWellFoundedOn(StrictSubsetOrdering(S), SUBSET S)
  BY <1>1, FS_StrictSubsetOrderingWellFounded
<1>3. PICK x \in T : \A y \in T : ~ (<<y, x>> \in StrictSubsetOrdering(S))
  BY <1>2, WFMin
<1>4. ASSUME NEW u \in T, u \subseteq x, u # x
      PROVE  FALSE
  <2>1. <<u, x>> \in (SUBSET S) \X (SUBSET S) /\ <<u, x>>[1] = u /\ <<u, x>>[2] = x
    OBVIOUS
  <2>2. <<u, x>> \in StrictSubsetOrdering(S)
    BY <2>1, <1>4 DEF StrictSubsetOrdering
  <2> QED BY <2>2, <1>3
<1>5. \A u \in T : u \subseteq x => u = x
  BY <1>4
<1> QED BY <1>5

\* What holds of no elements, and of one more whenever it holds of some, holds
\* of all of a finite set.
LEMMA SetInduction ==
    ASSUME NEW S, IsFiniteSet(S), NEW T, {} \in T,
           \A t \in SUBSET S, a \in S : t \in T /\ a \notin t => t \cup {a} \in T
    PROVE  S \in T
<1> DEFINE Bad == (SUBSET S) \ T
<1> SUFFICES ASSUME Bad # {} PROVE FALSE
  OBVIOUS
<1>1. PICK t \in Bad : \A u \in Bad : u \subseteq t => u = t
  <2>1. Bad \in SUBSET (SUBSET S)
    OBVIOUS
  <2> HIDE DEF Bad
  <2> QED BY <2>1, SmallestSubset
<1>2. PICK a : a \in t
  BY <1>1
<1>3. t \ {a} \in T
  BY <1>1, <1>2
<1>4. (t \ {a}) \cup {a} = t
  BY <1>2
<1>5. t \ {a} \in SUBSET S /\ a \in S /\ a \notin t \ {a}
  BY <1>2
<1> QED BY <1>3, <1>4, <1>5

-----------------------------------------------------------------------------
(* The fold has a value: exactly one function meets its recursion.            *)

First(s) == CHOOSE x \in s : TRUE

\* g is the running sum of f on the subsets of S.
Running(g, f, S) ==
    g = [s \in SUBSET S |-> IF s = {} THEN 0 ELSE f[First(s)] + g[s \ {First(s)}]]

LEMMA FirstIsIn == ASSUME NEW s, s # {} PROVE First(s) \in s
  BY DEF First

\* Two running sums of f agree wherever both are defined.
LEMMA RunningAgree ==
    ASSUME NEW f, NEW S, IsFiniteSet(S), NEW R, IsFiniteSet(R),
           NEW g, Running(g, f, S), NEW h, Running(h, f, R), NEW s \in SUBSET (S \cap R)
    PROVE  g[s] = h[s]
<1> DEFINE Bad == {t \in SUBSET (S \cap R) : g[t] # h[t]}
<1> SUFFICES ASSUME Bad # {} PROVE FALSE
  OBVIOUS
<1>1. PICK t \in Bad : \A u \in Bad : u \subseteq t => u = t
  <2>1. Bad \in SUBSET (SUBSET (S \cap R)) /\ IsFiniteSet(S \cap R)
    BY FS_Subset
  <2> HIDE DEF Bad
  <2> QED BY <2>1, SmallestSubset
<1>2. CASE t = {}
  BY <1>2, <1>1 DEF Running
<1>3. CASE t # {}
  <2>1. First(t) \in t
    BY <1>3, FirstIsIn
  <2>2. g[t \ {First(t)}] = h[t \ {First(t)}]
    BY <2>1, <1>1
  <2>3. t \in SUBSET S /\ t \in SUBSET R
    OBVIOUS
  <2>4. g[t] = f[First(t)] + g[t \ {First(t)}] /\ h[t] = f[First(t)] + h[t \ {First(t)}]
    BY <2>3, <1>3 DEF Running
  <2> QED BY <2>2, <2>4
<1> QED BY <1>2, <1>3

LEMMA RunningUnique ==
    ASSUME NEW f, NEW S, IsFiniteSet(S), NEW g, Running(g, f, S), NEW h, Running(h, f, S)
    PROVE  g = h
<1>1. \A s \in SUBSET S : g[s] = h[s]
  BY RunningAgree
<1>2. g = [s \in SUBSET S |-> g[s]] /\ h = [s \in SUBSET S |-> h[s]]
  BY DEF Running
<1> QED BY <1>1, <1>2

LEMMA RunningExists ==
    ASSUME NEW f, NEW S, IsFiniteSet(S)
    PROVE  \E g : Running(g, f, S)
<1> DEFINE Bad == {t \in SUBSET S : ~ \E g : Running(g, f, t)}
<1> SUFFICES ASSUME Bad # {} PROVE FALSE
  OBVIOUS
<1>1. PICK t \in Bad : \A u \in Bad : u \subseteq t => u = t
  <2>1. Bad \in SUBSET (SUBSET S)
    OBVIOUS
  <2> HIDE DEF Bad
  <2> QED BY <2>1, SmallestSubset
<1>2. t # {}
  <2> SUFFICES ASSUME t = {} PROVE FALSE
    OBVIOUS
  <2> DEFINE g == [s \in SUBSET {} |-> 0]
  <2>1. \A s \in SUBSET {} : s = {}
    OBVIOUS
  <2>2. Running(g, f, {})
    BY <2>1 DEF Running
  <2> QED BY <2>2, <1>1
<1> DEFINE r == t \ {First(t)}
<1>3. First(t) \in t
  BY <1>2, FirstIsIn
<1>4. \A u \in SUBSET t : u # t => \E g : Running(g, f, u)
  BY <1>1
<1> DEFINE h == [u \in SUBSET t |-> CHOOSE g : Running(g, f, u)]
<1>5. \A u \in SUBSET t : u # t => Running(h[u], f, u)
  BY <1>4
<1> DEFINE g == [s \in SUBSET t |-> IF s = t THEN f[First(t)] + h[r][r] ELSE h[s][s]]
<1>6. ASSUME NEW s \in SUBSET t
      PROVE  g[s] = IF s = {} THEN 0 ELSE f[First(s)] + g[s \ {First(s)}]
  <2>1. CASE s = {}
    <3>1. Running(h[s], f, s)
      BY <2>1, <1>2, <1>5
    <3> QED BY <3>1, <2>1, <1>2 DEF Running
  <2>2. CASE s = t
    <3>1. r \in SUBSET t /\ r # t
      BY <1>3
    <3> QED BY <2>2, <1>2, <3>1
  <2>3. CASE s # {} /\ s # t
    <3> DEFINE u == s \ {First(s)}
    <3>1. First(s) \in s
      BY <2>3, FirstIsIn
    <3>2. u \in SUBSET t /\ u # t /\ u \in SUBSET s
      BY <3>1, <2>3
    <3>3. Running(h[s], f, s) /\ Running(h[u], f, u)
      BY <2>3, <3>2, <1>5
    <3>4. IsFiniteSet(s) /\ IsFiniteSet(u)
      BY FS_Subset
    <3>5. h[s][u] = h[u][u]
      <4>1. u \in SUBSET (s \cap u)
        BY <3>2
      <4> DEFINE hs == h[s] hu == h[u]
      <4>2. Running(hs, f, s) /\ Running(hu, f, u)
        BY <3>3
      <4> HIDE DEF u, h, hs, hu
      <4>3. hs[u] = hu[u]
        BY <4>2, <3>4, <4>1, RunningAgree
      <4> QED BY <4>3 DEF hs, hu
    <3> HIDE DEF h
    <3>6. h[s][s] = f[First(s)] + h[s][u]
      BY <3>3, <2>3 DEF Running
    <3>7. g[s] = h[s][s] /\ g[u] = h[u][u]
      BY <2>3, <3>2
    <3> QED BY <3>5, <3>6, <3>7, <2>3
  <2> QED BY <2>1, <2>2, <2>3
<1>7. Running(g, f, t)
  <2>1. g = [s \in SUBSET t |-> g[s]]
    OBVIOUS
  <2> HIDE DEF g
  <2> QED BY <1>6, <2>1 DEF Running
<1> QED BY <1>7, <1>1

LEMMA SumIsRunning ==
    ASSUME NEW f, NEW S, IsFiniteSet(S), NEW g, Running(g, f, S)
    PROVE  SumOver(f, S) = g[S]
<1>1. \A h : Running(h, f, S) => h = g
  BY RunningUnique
<1> QED BY <1>1 DEF SumOver, MapThenSumSet, MapThenFoldSet, Running, First

\* One running sum gives the sums over all subsets.
LEMMA RunningGivesSums ==
    ASSUME NEW f, NEW S, IsFiniteSet(S), NEW g, Running(g, f, S), NEW s \in SUBSET S
    PROVE  SumOver(f, s) = g[s]
<1>1. IsFiniteSet(s)
  BY FS_Subset
<1>2. PICK h : Running(h, f, s)
  BY <1>1, RunningExists
<1>3. SumOver(f, s) = h[s]
  BY <1>1, <1>2, SumIsRunning
<1>4. g[s] = h[s]
  <2>1. s \in SUBSET (S \cap s)
    OBVIOUS
  <2> QED BY <1>1, <1>2, <2>1, RunningAgree
<1> QED BY <1>3, <1>4

-----------------------------------------------------------------------------
(* Sums.                                                                      *)

LEMMA SumOfNone == ASSUME NEW f PROVE SumOver(f, {}) = 0
<1>1. IsFiniteSet({})
  BY FS_EmptySet
<1>2. PICK g : Running(g, f, {})
  BY <1>1, RunningExists
<1>3. SumOver(f, {}) = g[{}]
  BY <1>1, <1>2, SumIsRunning
<1> QED BY <1>2, <1>3 DEF Running

LEMMA SumFirst ==
    ASSUME NEW f, NEW S, IsFiniteSet(S), S # {}
    PROVE  SumOver(f, S) = f[First(S)] + SumOver(f, S \ {First(S)})
<1>1. PICK g : Running(g, f, S)
  BY RunningExists
<1>2. g[S] = f[First(S)] + g[S \ {First(S)}]
  BY <1>1 DEF Running
<1> QED BY <1>1, <1>2, RunningGivesSums

\* The rows are summed in whatever order: any row may be taken out.
LEMMA SumTake ==
    ASSUME NEW f, NEW S, IsFiniteSet(S), \A x \in S : f[x] \in Int
    PROVE  /\ SumOver(f, S) \in Int
           /\ \A a \in S : SumOver(f, S) = f[a] + SumOver(f, S \ {a})
<1> DEFINE Right(t) == /\ SumOver(f, t) \in Int
                       /\ \A a \in t : SumOver(f, t) = f[a] + SumOver(f, t \ {a})
           Bad == {t \in SUBSET S : ~Right(t)}
<1> SUFFICES ASSUME Bad # {} PROVE FALSE
  OBVIOUS
<1>1. PICK t \in Bad : \A u \in Bad : u \subseteq t => u = t
  <2>1. Bad \in SUBSET (SUBSET S)
    OBVIOUS
  <2> HIDE DEF Bad
  <2> QED BY <2>1, SmallestSubset
<1>2. \A u \in SUBSET t : u # t => Right(u)
  BY <1>1
<1> DEFINE p == First(t)
<1>3. t \in SUBSET S /\ t # {} /\ IsFiniteSet(t)
  <2>1. SumOver(f, {}) \in Int
    BY SumOfNone
  <2>2. Right({})
    BY <2>1
  <2>3. t \in SUBSET S /\ t # {}
    BY <1>1, <2>2
  <2> QED BY <2>3, FS_Subset
<1>4. p \in t /\ f[p] \in Int
  BY <1>3, FirstIsIn
<1>5. SumOver(f, t) = f[p] + SumOver(f, t \ {p})
  BY <1>3, SumFirst
<1>6. Right(t \ {p})
  BY <1>2, <1>4
<1>7. ASSUME NEW a \in t, a # p
      PROVE  SumOver(f, t) = f[a] + SumOver(f, t \ {a})
  <2>1. SumOver(f, t \ {p}) = f[a] + SumOver(f, (t \ {p}) \ {a})
    BY <1>6, <1>7
  <2>2. Right(t \ {a}) /\ p \in t \ {a}
    BY <1>2, <1>4, <1>7
  <2>3. SumOver(f, t \ {a}) = f[p] + SumOver(f, (t \ {p}) \ {a})
    <3>1. SumOver(f, t \ {a}) = f[p] + SumOver(f, (t \ {a}) \ {p})
      BY <2>2
    <3>2. (t \ {a}) \ {p} = (t \ {p}) \ {a}
      OBVIOUS
    <3> QED BY <3>1, <3>2
  <2>4. SumOver(f, (t \ {p}) \ {a}) \in Int
    <3>1. (t \ {p}) \ {a} \in SUBSET t /\ (t \ {p}) \ {a} # t
      BY <1>4
    <3> QED BY <3>1, <1>2
  <2>5. f[a] \in Int
    BY <1>3
  <2> DEFINE whole == SumOver(f, t)  rest == SumOver(f, t \ {p})
             other == SumOver(f, t \ {a})  both == SumOver(f, (t \ {p}) \ {a})
             fp == f[p]  fa == f[a]
  <2>6. whole = fp + rest /\ rest = fa + both /\ other = fp + both /\ both \in Int /\ fp \in Int /\ fa \in Int
    BY <2>1, <2>3, <2>4, <2>5, <1>4, <1>5
  <2> HIDE DEF whole, rest, other, both, fp, fa
  <2>7. whole = fa + other
    BY <2>6
  <2> QED BY <2>7 DEF whole, other, fa
<1>8. SumOver(f, t) \in Int
  BY <1>4, <1>5, <1>6
<1>9. Right(t)
  BY <1>5, <1>7, <1>8
<1> QED BY <1>1, <1>9

LEMMA SumType ==
    ASSUME NEW f, NEW S, IsFiniteSet(S), \A x \in S : f[x] \in Int
    PROVE  SumOver(f, S) \in Int
BY SumTake

\* A row more.
LEMMA SumAdd ==
    ASSUME NEW f, NEW S, IsFiniteSet(S), NEW a, a \notin S, \A x \in S \cup {a} : f[x] \in Int
    PROVE  IsFiniteSet(S \cup {a}) /\ SumOver(f, S \cup {a}) = SumOver(f, S) + f[a]
<1>1. IsFiniteSet(S \cup {a}) /\ (S \cup {a}) \ {a} = S
  BY FS_AddElement
<1>2. SumOver(f, S \cup {a}) = f[a] + SumOver(f, S)
  <2>1. SumOver(f, S \cup {a}) = f[a] + SumOver(f, (S \cup {a}) \ {a})
    BY <1>1, SumTake
  <2> QED BY <2>1, <1>1
<1>3. SumOver(f, S) \in Int /\ f[a] \in Int
  BY SumType
<1>4. SumOver(f, S \cup {a}) = SumOver(f, S) + f[a]
  BY <1>2, <1>3
<1> QED BY <1>1, <1>4

\* Rows with the same values have the same sum.
LEMMA SumSame ==
    ASSUME NEW S, IsFiniteSet(S), NEW f, NEW g, \A x \in S : f[x] \in Int /\ g[x] = f[x]
    PROVE  SumOver(g, S) = SumOver(f, S)
<1> DEFINE Good == {t \in SUBSET S : SumOver(g, t) = SumOver(f, t)}
<1>1. {} \in Good
  BY SumOfNone
<1>2. ASSUME NEW t \in SUBSET S, NEW a \in S, t \in Good, a \notin t
      PROVE  t \cup {a} \in Good
  <2>1. IsFiniteSet(t) /\ \A x \in t \cup {a} : f[x] \in Int /\ g[x] \in Int
    BY FS_Subset
  <2>2. SumOver(f, t \cup {a}) = SumOver(f, t) + f[a]
    BY <2>1, <1>2, SumAdd
  <2>3. SumOver(g, t \cup {a}) = SumOver(g, t) + g[a]
    BY <2>1, <1>2, SumAdd
  <2> QED BY <2>2, <2>3, <1>2
<1>3. S \in Good
  <2> HIDE DEF Good
  <2> QED BY <1>1, <1>2, SetInduction
<1> QED BY <1>3

\* One row changes.
LEMMA SumChange ==
    ASSUME NEW S, IsFiniteSet(S), NEW a \in S, NEW f, NEW g,
           \A x \in S : f[x] \in Int /\ g[x] \in Int,
           \A x \in S : x # a => g[x] = f[x]
    PROVE  SumOver(g, S) = SumOver(f, S) + (g[a] - f[a])
<1>1. SumOver(f, S) = f[a] + SumOver(f, S \ {a}) /\ SumOver(g, S) = g[a] + SumOver(g, S \ {a})
  BY SumTake
<1>2. IsFiniteSet(S \ {a})
  BY FS_Subset
<1>3. SumOver(g, S \ {a}) = SumOver(f, S \ {a}) /\ SumOver(f, S \ {a}) \in Int
  BY <1>2, SumSame, SumType
<1>4. f[a] \in Int /\ g[a] \in Int
  OBVIOUS
<1> QED BY <1>1, <1>3, <1>4

\* Row by row, the values of one column add up to those of two others.
LEMMA SumPlus ==
    ASSUME NEW S, IsFiniteSet(S), NEW f, NEW g, NEW h,
           \A x \in S : f[x] \in Int /\ g[x] \in Int /\ h[x] = f[x] + g[x]
    PROVE  SumOver(h, S) = SumOver(f, S) + SumOver(g, S)
<1> DEFINE Good == {t \in SUBSET S : SumOver(h, t) = SumOver(f, t) + SumOver(g, t)}
<1>1. {} \in Good
  BY SumOfNone
<1>2. ASSUME NEW t \in SUBSET S, NEW a \in S, t \in Good, a \notin t
      PROVE  t \cup {a} \in Good
  <2>1. /\ IsFiniteSet(t)
        /\ \A x \in t \cup {a} : f[x] \in Int /\ g[x] \in Int /\ h[x] \in Int /\ h[x] = f[x] + g[x]
    BY FS_Subset
  <2>2. SumOver(f, t \cup {a}) = SumOver(f, t) + f[a]
    BY <2>1, <1>2, SumAdd
  <2>3. SumOver(g, t \cup {a}) = SumOver(g, t) + g[a]
    BY <2>1, <1>2, SumAdd
  <2>4. SumOver(h, t \cup {a}) = SumOver(h, t) + h[a]
    BY <2>1, <1>2, SumAdd
  <2>5. SumOver(f, t) \in Int /\ SumOver(g, t) \in Int
    BY <2>1, SumType
  <2> QED BY <2>1, <2>2, <2>3, <2>4, <2>5, <1>2
<1>3. S \in Good
  <2> HIDE DEF Good
  <2> QED BY <1>1, <1>2, SetInduction
<1> QED BY <1>3

\* Smaller values have a smaller sum.
LEMMA SumMonotonic ==
    ASSUME NEW S, IsFiniteSet(S), NEW f, NEW g,
           \A x \in S : f[x] \in Int /\ g[x] \in Int /\ f[x] <= g[x]
    PROVE  SumOver(f, S) <= SumOver(g, S)
<1> DEFINE Good == {t \in SUBSET S : SumOver(f, t) <= SumOver(g, t)}
<1>1. {} \in Good
  BY SumOfNone
<1>2. ASSUME NEW t \in SUBSET S, NEW a \in S, t \in Good, a \notin t
      PROVE  t \cup {a} \in Good
  <2>1. IsFiniteSet(t) /\ \A x \in t \cup {a} : f[x] \in Int /\ g[x] \in Int
    BY FS_Subset
  <2>2. SumOver(f, t \cup {a}) = SumOver(f, t) + f[a]
    BY <2>1, <1>2, SumAdd
  <2>3. SumOver(g, t \cup {a}) = SumOver(g, t) + g[a]
    BY <2>1, <1>2, SumAdd
  <2>4. SumOver(f, t) \in Int /\ SumOver(g, t) \in Int
    BY <2>1, SumType
  <2> QED BY <2>2, <2>3, <2>4, <1>2
<1>3. S \in Good
  <2> HIDE DEF Good
  <2> QED BY <1>1, <1>2, SetInduction
<1> QED BY <1>3

\* Nothing but zeros.
LEMMA SumOfZeros ==
    ASSUME NEW S, IsFiniteSet(S), NEW f, \A x \in S : f[x] = 0
    PROVE  SumOver(f, S) = 0
<1> DEFINE Good == {t \in SUBSET S : SumOver(f, t) = 0}
<1>1. {} \in Good
  BY SumOfNone
<1>2. ASSUME NEW t \in SUBSET S, NEW a \in S, t \in Good, a \notin t
      PROVE  t \cup {a} \in Good
  <2>1. IsFiniteSet(t) /\ \A x \in t \cup {a} : f[x] \in Int
    BY FS_Subset
  <2> QED BY <2>1, <1>2, SumAdd
<1>3. S \in Good
  <2> HIDE DEF Good
  <2> QED BY <1>1, <1>2, SetInduction
<1> QED BY <1>3

\* No values below zero, no sum below zero.
LEMMA SumOfNaturals ==
    ASSUME NEW S, IsFiniteSet(S), NEW f, \A x \in S : f[x] \in Nat
    PROVE  SumOver(f, S) \in Nat
<1> DEFINE zero == [x \in S |-> 0]
<1>1. SumOver(zero, S) = 0
  BY SumOfZeros
<1>2. SumOver(zero, S) <= SumOver(f, S)
  <2>1. \A x \in S : zero[x] \in Int /\ f[x] \in Int /\ zero[x] <= f[x]
    OBVIOUS
  <2> HIDE DEF zero
  <2> QED BY <2>1, SumMonotonic
<1> QED BY <1>1, <1>2, SumType

\* Rows that are zero need not be summed.
LEMMA SumWithoutZeros ==
    ASSUME NEW S, IsFiniteSet(S), NEW R \in SUBSET S, NEW f, \A x \in S : f[x] \in Int,
           \A x \in S \ R : f[x] = 0
    PROVE  SumOver(f, S) = SumOver(f, R)
<1> DEFINE Good == {t \in SUBSET (S \ R) : SumOver(f, R \cup t) = SumOver(f, R)}
<1>1. {} \in Good
  OBVIOUS
<1>2. ASSUME NEW t \in SUBSET (S \ R), NEW a \in S \ R, t \in Good, a \notin t
      PROVE  t \cup {a} \in Good
  <2>1. IsFiniteSet(R \cup t) /\ a \notin R \cup t /\ (R \cup t) \cup {a} = R \cup (t \cup {a})
    <3>1. R \cup t \in SUBSET S
      OBVIOUS
    <3>2. IsFiniteSet(R \cup t)
      BY <3>1, FS_Subset
    <3> QED BY <3>2, <1>2
  <2>2. SumOver(f, (R \cup t) \cup {a}) = SumOver(f, R \cup t) + f[a]
    <3>1. \A x \in (R \cup t) \cup {a} : f[x] \in Int
      OBVIOUS
    <3> QED BY <2>1, <3>1, SumAdd
  <2>3. SumOver(f, R) \in Int /\ f[a] = 0
    <3>1. IsFiniteSet(R)
      BY FS_Subset
    <3> QED BY <3>1, SumType
  <2>4. SumOver(f, R \cup t) = SumOver(f, R)
    BY <1>2
  <2>5. SumOver(f, R \cup (t \cup {a})) = SumOver(f, R)
    <3>1. SumOver(f, (R \cup t) \cup {a}) = SumOver(f, R)
      BY <2>2, <2>3, <2>4
    <3> QED BY <3>1, <2>1
  <2> QED BY <2>5
<1>3. S \ R \in Good
  <2>1. IsFiniteSet(S \ R)
    BY FS_Subset
  <2> HIDE DEF Good
  <2> QED BY <1>1, <1>2, <2>1, SetInduction
<1>4. R \cup (S \ R) = S
  OBVIOUS
<1> QED BY <1>3, <1>4

\* The rows there were, unchanged, and one more.
LEMMA RowAdded ==
    ASSUME NEW S, IsFiniteSet(S), NEW a, a \notin S, NEW R, R = S \cup {a},
           NEW f, \A x \in S : f[x] \in Int, NEW g, g[a] \in Int, \A x \in S : g[x] = f[x]
    PROVE  IsFiniteSet(R) /\ SumOver(g, R) = SumOver(f, S) + g[a]
<1>1. \A x \in S \cup {a} : g[x] \in Int
  OBVIOUS
<1>2. IsFiniteSet(S \cup {a}) /\ SumOver(g, S \cup {a}) = SumOver(g, S) + g[a]
  BY <1>1, SumAdd
<1>3. SumOver(g, S) = SumOver(f, S)
  BY SumSame
<1> QED BY <1>2, <1>3

\* The same, for tables that change: R has the rows of S and a.
OneMore(R, S, a) == IsFiniteSet(S) /\ a \notin S /\ R = S \cup {a}
Keeps(g, f, S, a) == g[a] \in Int /\ \A x \in S : f[x] \in Int /\ g[x] = f[x]

LEMMA SumOfOneMore ==
    ASSUME NEW R, NEW S, NEW a, OneMore(R, S, a), NEW f, NEW g, Keeps(g, f, S, a)
    PROVE  IsFiniteSet(R) /\ SumOver(g, R) = SumOver(f, S) + g[a]
<1>1. IsFiniteSet(S) /\ a \notin S /\ R = S \cup {a}
  BY DEF OneMore
<1>2. \A x \in S : f[x] \in Int
  BY DEF Keeps
<1>3. g[a] \in Int /\ \A x \in S : g[x] = f[x]
  BY DEF Keeps
<1> QED BY ONLY <1>1, <1>2, <1>3, RowAdded

\* The rows of S are those of T under other names.
Renames(m, S, T) == /\ \A x, y \in S : m[x] = m[y] => x = y
                    /\ \A x \in S : m[x] \in T
                    /\ \A y \in T : \E x \in S : m[x] = y
Moved(g, f, m, S) == \A x \in S : f[m[x]] \in Int /\ g[x] = f[m[x]]

LEMMA SumMoved ==
    ASSUME NEW S, IsFiniteSet(S), NEW T, NEW m, Renames(m, S, T), NEW f, NEW g, Moved(g, f, m, S)
    PROVE  SumOver(g, S) = SumOver(f, T)
<1> DEFINE Image(t) == {m[x] : x \in t}
           Good == {t \in SUBSET S : IsFiniteSet(Image(t)) /\ SumOver(g, t) = SumOver(f, Image(t))}
<1> USE DEF Renames, Moved
<1>1. {} \in Good
  <2>1. Image({}) = {}
    OBVIOUS
  <2> QED BY <2>1, SumOfNone, FS_EmptySet
<1>2. ASSUME NEW t \in SUBSET S, NEW a \in S, t \in Good, a \notin t
      PROVE  t \cup {a} \in Good
  <2>1. Image(t \cup {a}) = Image(t) \cup {m[a]}
    OBVIOUS
  <2>2. m[a] \notin Image(t)
    BY <1>2
  <2>3. IsFiniteSet(t) /\ IsFiniteSet(Image(t)) /\ SumOver(g, t) = SumOver(f, Image(t))
    BY <1>2, FS_Subset
  <2>4. /\ \A x \in t \cup {a} : g[x] \in Int
        /\ \A y \in Image(t) \cup {m[a]} : f[y] \in Int
        /\ g[a] = f[m[a]]
    OBVIOUS
  <2> HIDE DEF Image, Good
  <2>5. SumOver(g, t \cup {a}) = SumOver(g, t) + g[a]
    BY <1>2, <2>3, <2>4, SumAdd
  <2>6. IsFiniteSet(Image(t) \cup {m[a]}) /\ SumOver(f, Image(t) \cup {m[a]}) = SumOver(f, Image(t)) + f[m[a]]
    BY <2>2, <2>3, <2>4, SumAdd
  <2> QED BY <2>1, <2>3, <2>4, <2>5, <2>6 DEF Good
<1>3. S \in Good
  <2> HIDE DEF Good
  <2> QED BY <1>1, <1>2, SetInduction
<1>4. Image(S) = T
  OBVIOUS
<1> QED BY <1>3, <1>4

\* Some of the rows add up to no more than all of them.
LEMMA SumPart ==
    ASSUME NEW S, IsFiniteSet(S), NEW T \in SUBSET S, NEW f, \A x \in S : f[x] \in Nat
    PROVE  SumOver(f, T) <= SumOver(f, S)
<1> DEFINE g == [x \in S |-> IF x \in T THEN f[x] ELSE 0]
<1>1. IsFiniteSet(T)
  BY FS_Subset
<1>2. /\ \A x \in S : g[x] \in Int /\ f[x] \in Int /\ g[x] <= f[x]
      /\ \A x \in S \ T : g[x] = 0
      /\ \A x \in T : f[x] \in Int /\ g[x] = f[x]
  OBVIOUS
<1> HIDE DEF g
<1>3. SumOver(g, S) <= SumOver(f, S)
  BY <1>2, SumMonotonic
<1>4. SumOver(g, S) = SumOver(g, T)
  BY <1>2, SumWithoutZeros
<1>5. SumOver(g, T) = SumOver(f, T)
  BY <1>1, <1>2, SumSame
<1> QED BY <1>3, <1>4, <1>5

\* Finitely many numbers have a largest.
LEMMA LargestOf ==
    ASSUME NEW S \in SUBSET Nat, IsFiniteSet(S), S # {}
    PROVE  \E m \in S : \A k \in S : k <= m
<1> DEFINE Good == {t \in SUBSET S : t = {} \/ \E m \in t : \A k \in t : k <= m}
<1>1. {} \in Good
  OBVIOUS
<1>2. ASSUME NEW t \in SUBSET S, NEW a \in S, t \in Good, a \notin t
      PROVE  t \cup {a} \in Good
  <2>1. CASE t = {}
    BY <2>1
  <2>2. ASSUME NEW m \in t, \A k \in t : k <= m
        PROVE  \E n \in t \cup {a} : \A k \in t \cup {a} : k <= n
    <3>1. CASE a <= m
      BY <2>2, <3>1
    <3>2. CASE ~(a <= m)
      BY <2>2, <3>2
    <3> QED BY <3>1, <3>2
  <2> QED BY <1>2, <2>1, <2>2
<1> HIDE DEF Good
<1>3. S \in Good
  BY <1>1, <1>2, SetInduction
<1> QED BY <1>3 DEF Good

\* A set of numbers has a smallest one.
LEMMA SmallestOf ==
    ASSUME NEW S \in SUBSET Nat, S # {}
    PROVE  \E m \in S : \A k \in S : m <= k
<1>1. PICK n \in S : TRUE
  OBVIOUS
<1> DEFINE below == {d \in 0..n : n - d \in S}
<1>2. IsFiniteSet(below)
  <2>1. below \in SUBSET (0..n) /\ IsFiniteSet(0..n)
    BY FS_Interval
  <2> QED BY <2>1, FS_Subset
<1>3. below \in SUBSET Nat /\ 0 \in below
  OBVIOUS
<1>4. PICK d \in below : \A e \in below : e <= d
  <2> HIDE DEF below
  <2> QED BY <1>2, <1>3, LargestOf
<1>5. \A k \in S : n - d <= k
  <2> SUFFICES ASSUME NEW k \in S, k < n - d PROVE FALSE
    OBVIOUS
  <2>1. n - k \in below
    OBVIOUS
  <2> QED BY <1>4, <2>1
<1> QED BY <1>4, <1>5

\* What a table maps finitely many rows to is finite.
LEMMA FiniteImage ==
    ASSUME NEW S, IsFiniteSet(S), NEW f
    PROVE  IsFiniteSet({f[x] : x \in S})
<1> DEFINE g == [x \in S |-> f[x]]
<1>1. g \in Surjection(S, {f[x] : x \in S})
  BY DEF Surjection
<1> QED BY <1>1, FS_Surjection
=============================================================================

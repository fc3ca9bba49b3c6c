---------------------------- MODULE GoodsProofs ----------------------------
(* What holds of the stock ledger, the catalogue and the expenses whatever   *)
(* their rows, calls and clients are: proofs of the properties of Stock and  *)
(* Goods.                                                                    *)
EXTENDS Goods, Sequences, SumTheorems

(* The inductive invariant, beside the properties themselves.                *)

\* A table has finitely many rows at a time.
FiniteRows ==
    /\ IsFiniteSet(Posted) /\ IsFiniteSet(Received) /\ IsFiniteSet(Approved)
    /\ IsFiniteSet({u \in Undos : undo[u] # None})

\* Allocations name lots there are, and only what is drawn is charged.
DrawnFromLots ==
    \A i \in Posted, l \in Lots :
        /\ item[i].drawn[l] # 0 => l \in Received
        /\ item[i].drawn[l] = 0 => item[i].cost[l] = 0

\* A bill is named by its first item, which is no removal; a reversal names an
\* item there is.
BillsStand ==
    \A i \in Posted :
        /\ item[i].bill \in Posted /\ item[item[i].bill].bill = item[i].bill
        /\ item[i].bill = i /\ item[i].reversalOf = None => item[i].qty > 0
        /\ item[i].reversalOf # None => item[i].reversalOf \in Posted

\* What a reversal has read is still there when it writes, and only receipts
\* are undone.
ReadsStand ==
    /\ \A w \in Txs : /\ reversing[w] \in Items =>
                           reversing[w] \in Posted /\ item[reversing[w]].bill = reversing[w]
                      /\ reversing[w] \in Lots => reversing[w] \in OfReceipts
    /\ \A u \in Undos : undo[u] # None => undo[u] \in OfReceipts

\* Items that no other reverses, and what those among them that take from a lot
\* have drawn from it.
Standing == {i \in Posted : \A j \in Posted : item[j].reversalOf # i}
Taken(l) == [i \in Standing |-> IF item[i].drawn[l] > 0 THEN item[i].drawn[l] ELSE 0]

\* A lot that gets back only what was drawn from it never holds more than it
\* received.
GivenBackOnce == ReversedOnce => \A l \in Received : SumOver(Taken(l), Standing) <= DrawnFrom(l)

\* While nothing is posted, a belief stays true; a correction is what its count
\* found missing.
BeliefsStand ==
    \A c \in Counts : belief[c] # None =>
        /\ belief[c].at <= movements
        /\ belief[c].at = movements => balance = belief[c].expected
CorrectionsStand ==
    \A a \in Adjustments : adjustment[a] # None /\ adjustment[a].source # None =>
        LET c == adjustment[a].source
        IN  /\ belief[c] # None /\ count[c] # None
            /\ count[c].expected = belief[c].expected
            /\ adjustment[a].delta = count[c].physical - count[c].expected

\* A sale's review is of a sale there is.
ReviewsStand == \A i \in Items : review[i] # "none" => i \in Posted

\* Of lots and items.
Ledger == /\ DrawnFromLots /\ BillsStand
          /\ LotsAccountedFor /\ ItemsFullyAllocated
          /\ CostNearShare /\ CostTelescopes /\ GivenBackOnce

IInv == /\ TypeOK /\ FiniteRows /\ ReadsStand /\ Ledger
        /\ BalanceIsLedger /\ BeliefsStand /\ CorrectionsStand /\ ReviewsStand

-----------------------------------------------------------------------------
(* Go's division, and what it makes of a lot's cost.                         *)

LEMMA DivisionBounds ==
    ASSUME NEW a \in Nat, NEW r \in Nat \ {0}
    PROVE  /\ a \div r \in Nat
           /\ (a \div r) * r <= a /\ a < (a \div r) * r + r
BY SMT

\* Truncation errs towards zero, by less than the divisor.
LEMMA QuotientBounds ==
    ASSUME NEW a \in Int, NEW r \in Nat \ {0}
    PROVE  /\ Quotient(a, r) \in Int
           /\ a >= 0 => /\ Quotient(a, r) * r - a <= 0 /\ a - Quotient(a, r) * r < r
           /\ a < 0  => /\ Quotient(a, r) * r - a >= 0 /\ Quotient(a, r) * r - a < r
<1>1. CASE a >= 0
  <2>1. Quotient(a, r) = a \div r
    BY <1>1 DEF Quotient
  <2> QED BY <1>1, <2>1, DivisionBounds
<1>2. CASE a < 0
  <2>1. Quotient(a, r) = -((-a) \div r) /\ -a \in Nat
    BY <1>2 DEF Quotient
  <2> DEFINE q == (-a) \div r
  <2>2. q \in Nat /\ q * r <= -a /\ -a < q * r + r
    BY <2>1, DivisionBounds
  <2>3. Quotient(a, r) = -q
    BY <2>1
  <2> HIDE DEF q
  <2>4. (-q) * r = -(q * r) /\ q * r \in Int
    BY <2>2
  <2> QED BY <1>2, <2>2, <2>3, <2>4
<1> QED BY <1>1, <1>2

LEMMA QuotientExact ==
    ASSUME NEW k \in Nat, NEW r \in Nat \ {0}
    PROVE  Quotient(r * k, r) = k
<1> DEFINE q == (r * k) \div r
<1>1. r * k \in Nat
  OBVIOUS
<1>2. q \in Nat /\ q * r <= r * k /\ r * k < q * r + r
  BY <1>1, DivisionBounds
<1>3. Quotient(r * k, r) = q
  BY <1>1 DEF Quotient
<1> HIDE DEF q
<1>4. r * k < (q + 1) * r
  BY <1>2
<1>5. q <= k
  <2>1. SUFFICES ASSUME q >= k + 1 PROVE FALSE
    BY <1>2
  <2>2. q * r >= (k + 1) * r
    BY <1>2, <2>1
  <2> QED BY <1>2, <2>2
<1>6. q >= k
  <2>1. SUFFICES ASSUME q + 1 <= k PROVE FALSE
    BY <1>2
  <2>2. (q + 1) * r <= k * r
    BY <1>2, <2>1
  <2> QED BY <1>4, <1>2, <2>2
<1> QED BY <1>2, <1>3, <1>5, <1>6

\* The cost of n units, drawn after m others, is within a kobo of their share
\* if as many as m have been drawn, and within two in any case.
LEMMA ShareOfCost ==
    ASSUME NEW c \in Nat, NEW r \in Nat \ {0}, NEW m \in Int, NEW n \in Nat,
           NEW kobo \in Int, kobo = Quotient(c * (m + n), r) - Quotient(c * m, r)
    PROVE  LET error == kobo * r - n * c
           IN  /\ error < 2 * r /\ -error < 2 * r
               /\ m >= 0 => error < 1 * r /\ -error < 1 * r
<1> DEFINE a == c * (m + n)
           b == c * m
           p == Quotient(a, r)
           q == Quotient(b, r)
<1>1. a \in Int /\ b \in Int /\ a - b = n * c
  OBVIOUS
<1>2. m >= 0 => a >= 0 /\ b >= 0
  OBVIOUS
<1>3. /\ p \in Int
      /\ a >= 0 => p * r - a <= 0 /\ a - p * r < r
      /\ a < 0  => p * r - a >= 0 /\ p * r - a < r
  BY <1>1, QuotientBounds
<1>4. /\ q \in Int
      /\ b >= 0 => q * r - b <= 0 /\ b - q * r < r
      /\ b < 0  => q * r - b >= 0 /\ q * r - b < r
  BY <1>1, QuotientBounds
<1>5. kobo = p - q
  OBVIOUS
<1> HIDE DEF a, b, p, q
<1>6. kobo * r = p * r - q * r /\ p * r \in Int /\ q * r \in Int /\ n * c \in Int
  <2>1. p \in Int /\ q \in Int
    BY <1>3, <1>4
  <2>2. (p - q) * r = p * r - q * r /\ p * r \in Int /\ q * r \in Int
    BY <2>1
  <2> QED BY <1>5, <2>2
<1> DEFINE pr == p * r
           qr == q * r
           nc == n * c
<1>7. /\ pr \in Int /\ qr \in Int /\ nc \in Int /\ kobo * r = pr - qr /\ a - b = nc
      /\ a >= 0 => pr - a <= 0 /\ a - pr < r
      /\ a < 0  => pr - a >= 0 /\ pr - a < r
      /\ b >= 0 => qr - b <= 0 /\ b - qr < r
      /\ b < 0  => qr - b >= 0 /\ qr - b < r
  BY <1>1, <1>3, <1>4, <1>6
<1> HIDE DEF pr, qr, nc
<1>8. /\ kobo * r - nc < 2 * r /\ -(kobo * r - nc) < 2 * r
      /\ m >= 0 => kobo * r - nc < r /\ -(kobo * r - nc) < r
  BY <1>1, <1>2, <1>7
<1> QED BY <1>8 DEF nc

-----------------------------------------------------------------------------
(* Sums over lots.                                                           *)

\* An item's total over its lots is the sum over any lots that hold them all.
LEMMA TotalOf ==
    ASSUME NEW f \in [Lots -> Int], NEW R \in SUBSET Lots, IsFiniteSet(R),
           \A l \in Lots \ R : f[l] = 0
    PROVE  Total(f) \in Int /\ Total(f) = SumOver(f, R)
<1> DEFINE S == {l \in Lots : f[l] # 0}
<1>1. S \in SUBSET R /\ \A l \in R \ S : f[l] = 0
  OBVIOUS
<1>2. \A l \in R : f[l] \in Int
  OBVIOUS
<1> HIDE DEF S
<1>3. SumOver(f, R) = SumOver(f, S)
  BY <1>1, <1>2, SumWithoutZeros
<1>4. SumOver(f, R) \in Int
  BY <1>2, SumType
<1> QED BY <1>3, <1>4 DEF Total, S

LEMMA TotalNegated ==
    ASSUME NEW f \in [Lots -> Int], NEW R \in SUBSET Lots, IsFiniteSet(R),
           \A l \in Lots \ R : f[l] = 0
    PROVE  Total([l \in Lots |-> -f[l]]) = -Total(f)
<1> DEFINE g == [l \in Lots |-> -f[l]]
           z == [l \in Lots |-> 0]
<1>1. /\ g \in [Lots -> Int]
      /\ \A l \in Lots \ R : g[l] = 0
      /\ \A l \in R : f[l] \in Int /\ g[l] \in Int /\ z[l] = f[l] + g[l]
      /\ \A l \in R : z[l] = 0
  OBVIOUS
<1> HIDE DEF g, z
<1>2. SumOver(z, R) = SumOver(f, R) + SumOver(g, R)
  BY <1>1, SumPlus
<1>3. SumOver(z, R) = 0
  BY <1>1, SumOfZeros
<1>4. Total(f) \in Int /\ Total(f) = SumOver(f, R)
  BY TotalOf
<1>5. Total(g) \in Int /\ Total(g) = SumOver(g, R)
  BY <1>1, TotalOf
<1>6. Total(g) = -Total(f)
  BY <1>2, <1>3, <1>4, <1>5
<1> QED BY <1>6 DEF g

LEMMA TotalChanged ==
    ASSUME NEW f \in [Lots -> Int], NEW R \in SUBSET Lots, IsFiniteSet(R),
           \A l \in Lots \ R : f[l] = 0, NEW k \in Lots, k \notin R, NEW n \in Int
    PROVE  Total([f EXCEPT ![k] = n]) = Total(f) + n
<1> DEFINE g == [f EXCEPT ![k] = n]
<1>1. /\ g \in [Lots -> Int]
      /\ \A l \in R : f[l] \in Int /\ g[l] = f[l]
      /\ \A l \in Lots \ (R \cup {k}) : g[l] = 0
      /\ \A l \in R \cup {k} : g[l] \in Int
      /\ g[k] = n
  OBVIOUS
<1> HIDE DEF g
<1>2. IsFiniteSet(R \cup {k}) /\ SumOver(g, R \cup {k}) = SumOver(g, R) + n
  BY <1>1, SumAdd
<1>3. SumOver(g, R) = SumOver(f, R)
  BY <1>1, SumSame
<1>4. Total(f) = SumOver(f, R)
  BY TotalOf
<1>5. Total(g) = SumOver(g, R \cup {k})
  BY <1>1, <1>2, TotalOf
<1>6. Total(g) = Total(f) + n
  BY <1>2, <1>3, <1>4, <1>5
<1> QED BY <1>6 DEF g

-----------------------------------------------------------------------------
(* What a sale draws.                                                        *)

LEMMA Listed ==
    ASSUME TypeOK, IsFiniteSet(Received)
    PROVE  /\ ListLotsForAllocation \in SUBSET Received /\ IsFiniteSet(ListLotsForAllocation)
           /\ \A l \in ListLotsForAllocation : Remaining[l] = lot[l].remaining /\ Remaining[l] \in Nat \ {0}
<1>1. ListLotsForAllocation \in SUBSET Received
  BY DEF ListLotsForAllocation, Received
<1>2. IsFiniteSet(ListLotsForAllocation)
  BY <1>1, FS_Subset
<1>3. ASSUME NEW l \in ListLotsForAllocation
      PROVE  Remaining[l] = lot[l].remaining /\ Remaining[l] \in Nat \ {0}
  <2>1. lot[l] \in LotRow /\ lot[l].remaining > 0
    BY DEF ListLotsForAllocation, TypeOK
  <2> QED BY <2>1 DEF Remaining, LotRow
<1> QED BY <1>1, <1>2, <1>3

LEMMA AheadType ==
    ASSUME TypeOK, IsFiniteSet(Received), NEW l \in Lots
    PROVE  Ahead(l) \in Nat
<1> DEFINE S == {k \in ListLotsForAllocation : k < l}
<1>1. IsFiniteSet(S) /\ \A k \in S : Remaining[k] \in Nat
  BY Listed, FS_Subset
<1> HIDE DEF S
<1>2. SumOver(Remaining, S) \in Nat
  BY <1>1, SumOfNaturals
<1> QED BY <1>2 DEF Ahead, S

LEMMA AheadGrows ==
    ASSUME TypeOK, IsFiniteSet(Received), NEW k \in ListLotsForAllocation, NEW l \in Lots, k < l
    PROVE  Ahead(k) + lot[k].remaining <= Ahead(l)
<1> DEFINE S == {j \in ListLotsForAllocation : j < k}
           T == {j \in ListLotsForAllocation : j < l}
<1>1. /\ k \in Lots /\ \A j \in ListLotsForAllocation : j \in Lots
      /\ \A j \in Lots : j \in Nat
  BY LotsAssumption DEF ListLotsForAllocation
<1>2. IsFiniteSet(S) /\ IsFiniteSet(T) /\ \A j \in T : Remaining[j] \in Nat
  BY Listed, FS_Subset
<1>3. k \notin S /\ S \cup {k} \in SUBSET T
  BY <1>1
<1>4. \A j \in S \cup {k} : Remaining[j] \in Int
  BY <1>2, <1>3
<1> HIDE DEF S, T
<1>5. SumOver(Remaining, S \cup {k}) = SumOver(Remaining, S) + Remaining[k]
  BY <1>2, <1>3, <1>4, SumAdd
<1>6. SumOver(Remaining, S \cup {k}) <= SumOver(Remaining, T)
  BY <1>2, <1>3, SumPart
<1>7. Ahead(k) = SumOver(Remaining, S) /\ Ahead(l) = SumOver(Remaining, T)
  BY DEF Ahead, S, T
<1>8. Remaining[k] = lot[k].remaining
  BY Listed
<1> QED BY <1>5, <1>6, <1>7, <1>8

LEMMA DrawType ==
    ASSUME TypeOK, IsFiniteSet(Received), NEW qty \in Nat
    PROVE  /\ Draw(qty) \in [Lots -> Nat]
           /\ \A l \in Lots \ ListLotsForAllocation : Draw(qty)[l] = 0
           /\ \A l \in ListLotsForAllocation :
                 /\ Draw(qty)[l] <= lot[l].remaining
                 /\ qty <= Ahead(l) => Draw(qty)[l] = 0
                 /\ qty > Ahead(l) => Draw(qty)[l] = Smaller(lot[l].remaining, qty - Ahead(l))
<1>1. \A l \in Lots : Draw(qty)[l] = IF l \notin ListLotsForAllocation \/ qty <= Ahead(l) THEN 0
                                     ELSE Smaller(lot[l].remaining, qty - Ahead(l))
  BY DEF Draw
<1>2. ListLotsForAllocation \subseteq Lots
  BY DEF ListLotsForAllocation
<1>3. ASSUME NEW l \in Lots
      PROVE  /\ Draw(qty)[l] \in Nat
             /\ l \in ListLotsForAllocation => Draw(qty)[l] <= lot[l].remaining
  <2>1. Ahead(l) \in Nat
    BY AheadType
  <2>2. l \in ListLotsForAllocation => lot[l].remaining \in Nat
    BY Listed
  <2> QED BY <1>1, <2>1, <2>2 DEF Smaller
<1>4. Draw(qty) \in [Lots -> Nat]
  BY <1>3 DEF Draw
<1>5. ASSUME NEW l \in ListLotsForAllocation
      PROVE  /\ qty <= Ahead(l) => Draw(qty)[l] = 0
             /\ qty > Ahead(l) => Draw(qty)[l] = Smaller(lot[l].remaining, qty - Ahead(l))
  <2>1. Ahead(l) \in Nat
    BY <1>2, AheadType
  <2> QED BY <1>1, <1>2, <2>1
<1> QED BY <1>1, <1>2, <1>3, <1>4, <1>5

\* A lot is drawn from only when the older ones are drawn empty.
LEMMA OlderDrawnEmpty ==
    ASSUME TypeOK, IsFiniteSet(Received), NEW qty \in Nat,
           NEW k \in ListLotsForAllocation, NEW l \in Lots, k < l, Draw(qty)[l] > 0
    PROVE  Draw(qty)[k] = lot[k].remaining
<1>1. l \in ListLotsForAllocation /\ qty > Ahead(l)
  <2>1. l \in ListLotsForAllocation
    BY DrawType
  <2>2. Ahead(l) \in Nat
    BY AheadType
  <2>3. qty <= Ahead(l) => Draw(qty)[l] = 0
    BY <2>1, DrawType
  <2>4. Draw(qty)[l] # 0
    OBVIOUS
  <2> QED BY <2>1, <2>2, <2>3, <2>4
<1>2. Ahead(k) + lot[k].remaining <= Ahead(l)
  BY AheadGrows
<1>3. k \in Lots /\ lot[k].remaining \in Nat \ {0}
  BY Listed DEF ListLotsForAllocation
<1>4. Ahead(k) \in Nat /\ Ahead(l) \in Nat
  BY <1>3, AheadType
<1>5. qty > Ahead(k) /\ lot[k].remaining <= qty - Ahead(k)
  BY <1>1, <1>2, <1>3, <1>4
<1> QED BY <1>5, DrawType DEF Smaller

\* From the oldest lots up to any lot, a sale draws what they hold, or its
\* quantity if that is less.
LEMMA DrawOfOldest ==
    ASSUME TypeOK, IsFiniteSet(Received), NEW qty \in Nat,
           NEW S \in SUBSET ListLotsForAllocation,
           \A l \in S, k \in ListLotsForAllocation : k < l => k \in S
    PROVE  SumOver(Draw(qty), S) = Smaller(qty, SumOver(Remaining, S))
<1> DEFINE L == ListLotsForAllocation
           Closed(s) == \A l \in s, k \in L : k < l => k \in s
           Right(s) == SumOver(Draw(qty), s) = Smaller(qty, SumOver(Remaining, s))
           Bad == {s \in SUBSET L : Closed(s) /\ ~Right(s)}
<1>1. IsFiniteSet(L) /\ L \in SUBSET Nat /\ L \in SUBSET Lots
  BY Listed, LotsAssumption DEF ListLotsForAllocation
<1>2. \A k \in L : Remaining[k] = lot[k].remaining /\ Remaining[k] \in Nat /\ Draw(qty)[k] \in Nat
  BY <1>1, Listed, DrawType
<1>3. Bad \in SUBSET (SUBSET L)
  OBVIOUS
<1>4. ASSUME NEW s \in Bad, \A u \in Bad : u \subseteq s => u = s
      PROVE  FALSE
  <2>1. s \in SUBSET L /\ Closed(s) /\ ~Right(s) /\ IsFiniteSet(s) /\ s \in SUBSET Nat
    BY <1>1, <1>4, FS_Subset
  <2>2. s # {}
    <3>1. SumOver(Draw(qty), {}) = 0 /\ SumOver(Remaining, {}) = 0
      BY SumOfNone
    <3>2. Right({})
      BY <3>1 DEF Smaller
    <3> QED BY <2>1, <3>2
  <2>3. PICK m \in s : \A k \in s : k <= m
    BY <2>1, <2>2, LargestOf
  <2> DEFINE t == s \ {m}
  <2>4. t = {k \in L : k < m} /\ t \in SUBSET L /\ Closed(t) /\ t \subseteq s /\ t # s
    <3>1. \A k \in t : k \in L /\ k < m
      BY <2>1, <2>3
    <3>2. \A k \in L : k < m => k \in t
      BY <2>1, <2>3
    <3>3. t = {k \in L : k < m}
      BY <3>1, <3>2
    <3>4. \A l \in t, k \in L : k < l => k < m
      BY <1>1, <2>1, <2>3, <3>1
    <3> QED BY <2>1, <2>3, <3>3, <3>4
  <2>5. Right(t)
    <3>1. t \notin Bad
      BY <1>4, <2>4
    <3> QED BY <2>4, <3>1
  <2> DEFINE drawn == SumOver(Draw(qty), t)
             held == SumOver(Remaining, t)
  <2>6. /\ SumOver(Draw(qty), s) = Draw(qty)[m] + drawn
        /\ SumOver(Remaining, s) = Remaining[m] + held
    <3>0. IsFiniteSet(s)
      BY <2>1
    <3>1. \A k \in s : Draw(qty)[k] \in Int /\ Remaining[k] \in Int
      BY <1>2, <2>1
    <3>2. SumOver(Draw(qty), s) = Draw(qty)[m] + SumOver(Draw(qty), s \ {m})
      BY ONLY <3>0, <3>1, m \in s, SumTake
    <3>3. SumOver(Remaining, s) = Remaining[m] + SumOver(Remaining, s \ {m})
      BY ONLY <3>0, <3>1, m \in s, SumTake
    <3> QED BY <3>2, <3>3
  <2>7. held = Ahead(m)
    BY <2>4 DEF Ahead
  <2>8. drawn = Smaller(qty, held)
    BY <2>5
  <2>9. m \in L /\ m \in Lots /\ Ahead(m) \in Nat /\ Remaining[m] = lot[m].remaining /\ Remaining[m] \in Nat
    BY <1>1, <1>2, <2>1, <2>3, AheadType
  <2>10. /\ qty <= Ahead(m) => Draw(qty)[m] = 0
         /\ qty > Ahead(m) => Draw(qty)[m] = Smaller(lot[m].remaining, qty - Ahead(m))
    BY <2>9, DrawType
  <2> HIDE DEF drawn, held, t, L, Bad
  <2>11. SumOver(Draw(qty), s) = Smaller(qty, SumOver(Remaining, s))
    BY <2>6, <2>7, <2>8, <2>9, <2>10 DEF Smaller
  <2> QED BY <2>1, <2>11
<1> HIDE DEF Bad, L
<1>5. Bad = {}
  <2>1. SUFFICES ASSUME Bad # {} PROVE FALSE
    OBVIOUS
  <2>0. IsFiniteSet(L)
    BY <1>1
  <2>2. \E s \in Bad : \A u \in Bad : u \subseteq s => u = s
    BY ONLY <2>0, <1>3, <2>1, SmallestSubset
  <2> QED BY <1>4, <2>2
<1> QED BY <1>5 DEF Bad, L

\* What the lots hold in all bounds what each holds with those ahead of it.
LEMMA AheadBounded ==
    ASSUME TypeOK, IsFiniteSet(Received), NEW l \in ListLotsForAllocation
    PROVE  /\ SumOver(Remaining, ListLotsForAllocation) \in Nat
           /\ Ahead(l) + lot[l].remaining <= SumOver(Remaining, ListLotsForAllocation)
<1> DEFINE L == ListLotsForAllocation
           S == {k \in L : k < l}
<1>1. /\ IsFiniteSet(L) /\ L \in SUBSET Nat
      /\ \A k \in L : Remaining[k] = lot[k].remaining /\ Remaining[k] \in Nat /\ Remaining[k] \in Int
  <2>1. IsFiniteSet(L) /\ \A k \in L : Remaining[k] = lot[k].remaining /\ Remaining[k] \in Nat \ {0}
    BY Listed
  <2>2. L \in SUBSET Nat
    BY LotsAssumption DEF ListLotsForAllocation
  <2> QED BY <2>1, <2>2
<1>2. SumOver(Remaining, L) \in Nat
  BY <1>1, SumOfNaturals
<1>3. /\ IsFiniteSet(S) /\ l \notin S /\ S \cup {l} \in SUBSET L
      /\ \A k \in S \cup {l} : Remaining[k] \in Int
  BY <1>1, FS_Subset
<1>4. Ahead(l) = SumOver(Remaining, S)
  BY DEF Ahead
<1> HIDE DEF S, L
<1>5. SumOver(Remaining, S \cup {l}) = SumOver(Remaining, S) + Remaining[l]
  BY <1>3, SumAdd
<1>6. SumOver(Remaining, S \cup {l}) <= SumOver(Remaining, L)
  BY <1>1, <1>3, SumPart
<1>7. l \in L
  BY DEF L
<1>8. Ahead(l) + lot[l].remaining <= SumOver(Remaining, L)
  BY <1>1, <1>4, <1>5, <1>6, <1>7
<1> QED BY <1>2, <1>8 DEF L

\* A quantity is left over only when every lot is drawn empty.
LEMMA LeftOverWhenEmpty ==
    ASSUME TypeOK, IsFiniteSet(Received), NEW qty \in Nat, qty - Total(Draw(qty)) > 0,
           NEW l \in ListLotsForAllocation
    PROVE  Draw(qty)[l] = lot[l].remaining
<1> DEFINE L == ListLotsForAllocation
           all == SumOver(Remaining, L)
<1>1. Total(Draw(qty)) = SumOver(Draw(qty), L)
  <2>1. /\ Draw(qty) \in [Lots -> Int] /\ L \in SUBSET Lots /\ IsFiniteSet(L)
        /\ \A k \in Lots \ L : Draw(qty)[k] = 0
    BY DrawType, Listed DEF ListLotsForAllocation
  <2> QED BY <2>1, TotalOf
<1>2. SumOver(Draw(qty), L) = Smaller(qty, all)
  BY DrawOfOldest
<1>3. all \in Nat /\ Ahead(l) + lot[l].remaining <= all
  BY AheadBounded
<1>4. l \in Lots /\ lot[l].remaining \in Nat \ {0}
  BY Listed DEF ListLotsForAllocation
<1>5. Ahead(l) \in Nat
  BY <1>4, AheadType
<1>6. (qty > Ahead(l)) => Draw(qty)[l] = Smaller(lot[l].remaining, qty - Ahead(l))
  BY DrawType
<1> HIDE DEF all, L
<1> QED BY <1>1, <1>2, <1>3, <1>4, <1>5, <1>6 DEF Smaller

-----------------------------------------------------------------------------
(* A new sale item.                                                          *)

Allocations == [pending: Int, drawn: [Lots -> Int], cost: [Lots -> Int]]

LEMMA ItemCreated ==
    ASSUME TypeOK, NEW i \in Items, NEW b \in Items, NEW qty \in Int,
           NEW original \in Items \cup {None}, NEW a \in Allocations,
           CreateSaleItem(i, b, qty, original, a)
    PROVE  /\ item' \in [Items -> ItemRow \cup {None}]
           /\ i \notin Posted /\ Posted' = Posted \cup {i}
           /\ \A j \in Items : j # i => item'[j] = item[j]
           /\ item'[i] \in ItemRow /\ item'[i] # None
           /\ item'[i].bill = b /\ item'[i].qty = qty /\ item'[i].reversalOf = original
           /\ item'[i].pending = a.pending /\ item'[i].drawn = a.drawn /\ item'[i].cost = a.cost
<1> DEFINE row == [bill |-> b, qty |-> qty, reversalOf |-> original,
                   pending |-> a.pending, drawn |-> a.drawn, cost |-> a.cost]
<1>1. /\ row \in ItemRow /\ row # None
      /\ row.bill = b /\ row.qty = qty /\ row.reversalOf = original
      /\ row.pending = a.pending /\ row.drawn = a.drawn /\ row.cost = a.cost
  <2>1. row \in ItemRow
    BY DEF ItemRow, Allocations
  <2> QED BY <2>1, NoneAssumption
<1>2. item[i] = None /\ item' = [item EXCEPT ![i] = row] /\ item \in [Items -> ItemRow \cup {None}]
  BY DEF CreateSaleItem, TypeOK
<1> HIDE DEF row
<1>3. \A j \in Items : item'[j] = IF j = i THEN row ELSE item[j]
  BY <1>2
<1>4. item' \in [Items -> ItemRow \cup {None}]
  BY <1>1, <1>2
<1>5. i \notin Posted /\ Posted' = Posted \cup {i}
  BY <1>1, <1>2, <1>3 DEF Posted
<1> QED BY <1>1, <1>3, <1>4, <1>5

\* What a lot has given and what was charged for it change by the new item's.
LEMMA ItemSummed ==
    ASSUME TypeOK, FiniteRows, NEW i \in Items, NEW b \in Items, NEW qty \in Int,
           NEW original \in Items \cup {None}, NEW a \in Allocations,
           CreateSaleItem(i, b, qty, original, a)
    PROVE  /\ IsFiniteSet(Posted')
           /\ SumOver(Quantity, Posted) \in Int
           /\ SumOver(Quantity', Posted') = SumOver(Quantity, Posted) + qty
           /\ \A l \in Lots : /\ DrawnFrom(l) \in Int /\ CostFrom(l) \in Int
                              /\ DrawnFrom(l)' = DrawnFrom(l) + a.drawn[l]
                              /\ CostFrom(l)' = CostFrom(l) + a.cost[l]
<1>1. /\ i \notin Posted /\ Posted' = Posted \cup {i} /\ IsFiniteSet(Posted)
      /\ \A j \in Posted : j \in Items /\ j # i /\ item'[j] = item[j] /\ item[j] \in ItemRow
      /\ item'[i].qty = qty /\ item'[i].drawn = a.drawn /\ item'[i].cost = a.cost
  <2>1. \A j \in Posted : j \in Items /\ item[j] \in ItemRow
    BY DEF Posted, TypeOK
  <2> QED BY <2>1, ItemCreated DEF FiniteRows
<1>2. \A j \in Posted : /\ item[j].qty \in Int
                        /\ \A l \in Lots : item[j].drawn[l] \in Int /\ item[j].cost[l] \in Int
  BY <1>1 DEF ItemRow
<1>3. \A l \in Lots : a.drawn[l] \in Int /\ a.cost[l] \in Int
  BY DEF Allocations
<1>7. i \notin Posted /\ Posted' = Posted \cup {i} /\ IsFiniteSet(Posted)
  BY <1>1
<1>4. /\ IsFiniteSet(Posted') /\ SumOver(Quantity, Posted) \in Int
      /\ SumOver(Quantity', Posted') = SumOver(Quantity, Posted) + qty
  <2> DEFINE f == Quantity
             g == Quantity'
  <2>1. \A j \in Posted : f[j] \in Int /\ g[j] = f[j]
    BY <1>1, <1>2 DEF Quantity
  <2>2. g[i] = qty /\ g[i] \in Int
    BY <1>1 DEF Quantity
  <2> HIDE DEF f, g
  <2>3. IsFiniteSet(Posted') /\ SumOver(g, Posted') = SumOver(f, Posted) + g[i]
    <3>1. \A j \in Posted : f[j] \in Int
      BY <2>1
    <3>2. \A j \in Posted : g[j] = f[j]
      BY <2>1
    <3>3. g[i] \in Int
      BY <2>2
    <3> QED BY ONLY <1>7, <3>1, <3>2, <3>3, RowAdded
  <2>4. SumOver(f, Posted) \in Int
    BY ONLY <1>7, <2>1, SumType
  <2> QED BY <2>2, <2>3, <2>4 DEF f, g
<1>5. ASSUME NEW l \in Lots
      PROVE  /\ DrawnFrom(l) \in Int
             /\ DrawnFrom(l)' = DrawnFrom(l) + a.drawn[l]
  <2> DEFINE f == [j \in Posted |-> item[j].drawn[l]]
             g == [j \in Posted' |-> item'[j].drawn[l]]
  <2>1. \A j \in Posted : f[j] \in Int /\ g[j] = f[j]
    BY <1>1, <1>2
  <2>2. g[i] = a.drawn[l] /\ g[i] \in Int
    BY <1>1, <1>3
  <2>3. DrawnFrom(l) = SumOver(f, Posted) /\ DrawnFrom(l)' = SumOver(g, Posted')
    BY DEF DrawnFrom
  <2> HIDE DEF f, g
  <2>4. IsFiniteSet(Posted') /\ SumOver(g, Posted') = SumOver(f, Posted) + g[i]
    <3>1. \A j \in Posted : f[j] \in Int
      BY <2>1
    <3>2. \A j \in Posted : g[j] = f[j]
      BY <2>1
    <3>3. g[i] \in Int
      BY <2>2
    <3> QED BY ONLY <1>7, <3>1, <3>2, <3>3, RowAdded
  <2>5. SumOver(f, Posted) \in Int
    BY ONLY <1>7, <2>1, SumType
  <2> QED BY <2>2, <2>3, <2>4, <2>5
<1>6. ASSUME NEW l \in Lots
      PROVE  /\ CostFrom(l) \in Int
             /\ CostFrom(l)' = CostFrom(l) + a.cost[l]
  <2> DEFINE f == [j \in Posted |-> item[j].cost[l]]
             g == [j \in Posted' |-> item'[j].cost[l]]
  <2>1. \A j \in Posted : f[j] \in Int /\ g[j] = f[j]
    BY <1>1, <1>2
  <2>2. g[i] = a.cost[l] /\ g[i] \in Int
    BY <1>1, <1>3
  <2>3. CostFrom(l) = SumOver(f, Posted) /\ CostFrom(l)' = SumOver(g, Posted')
    BY DEF CostFrom
  <2> HIDE DEF f, g
  <2>4. IsFiniteSet(Posted') /\ SumOver(g, Posted') = SumOver(f, Posted) + g[i]
    <3>1. \A j \in Posted : f[j] \in Int
      BY <2>1
    <3>2. \A j \in Posted : g[j] = f[j]
      BY <2>1
    <3>3. g[i] \in Int
      BY <2>2
    <3> QED BY ONLY <1>7, <3>1, <3>2, <3>3, RowAdded
  <2>5. SumOver(f, Posted) \in Int
    BY ONLY <1>7, <2>1, SumType
  <2> QED BY <2>2, <2>3, <2>4, <2>5
<1> QED BY <1>4, <1>5, <1>6

\* The item posted, and what it draws leaving the lots.
Posts(i, b, qty, original, a) ==
    /\ CreateSaleItem(i, b, qty, original, a)
    /\ DecrementLotRemainingQuantity(a.drawn)
    /\ UNCHANGED undo

\* What sales, removals and reversals have in common: the bill is there, the
\* allocations cover the quantity, and they come from lots that had the units,
\* at their share of the cost, or mirror those of the item reversed.
Fits(i, b, qty, original, a) ==
    /\ b = i \/ (b \in Posted /\ item[b].bill = b)
    /\ b = i /\ original = None => qty > 0
    /\ Total(a.drawn) + a.pending = (IF qty < 0 /\ original = None THEN 0 ELSE qty)
    /\ \A l \in Lots : /\ a.drawn[l] # 0 => l \in Received
                       /\ a.drawn[l] = 0 => a.cost[l] = 0
                       /\ original = None /\ a.drawn[l] # 0 =>
                             /\ a.drawn[l] > 0 /\ lot[l].remaining > 0
                             /\ a.cost[l] = AllocatedCost(l, a.drawn[l])
    /\ original # None =>
          /\ original \in Posted
          /\ \A l \in Lots : /\ a.drawn[l] = -item[original].drawn[l]
                             /\ a.cost[l] = -item[original].cost[l]

\* An item as it was before, one that is new.
LEMMA LotsMoved ==
    ASSUME TypeOK, NEW drawn \in [Lots -> Int], DecrementLotRemainingQuantity(drawn)
    PROVE  /\ lot' \in [Lots -> LotRow \cup {None}]
           /\ Received' = Received /\ OfReceipts' = OfReceipts
           /\ \A l \in Received : /\ lot[l] \in LotRow /\ lot'[l] \in LotRow
                                  /\ lot'[l].received = lot[l].received
                                  /\ lot'[l].cost = lot[l].cost
                                  /\ lot'[l].source = lot[l].source
                                  /\ lot'[l].remaining = lot[l].remaining - drawn[l]
<1>1. \A l \in Lots : /\ lot[l] = None => lot'[l] = None
                      /\ lot[l] # None => lot'[l] = [lot[l] EXCEPT !.remaining = @ - drawn[l]]
  BY DEF DecrementLotRemainingQuantity, MoveLots
<1>2. ASSUME NEW l \in Lots, lot[l] # None
      PROVE  /\ lot[l] \in LotRow /\ lot'[l] \in LotRow
             /\ lot'[l].received = lot[l].received
             /\ lot'[l].cost = lot[l].cost
             /\ lot'[l].source = lot[l].source
             /\ lot'[l].remaining = lot[l].remaining - drawn[l]
  <2>1. lot[l] \in LotRow
    BY <1>2 DEF TypeOK
  <2>2. lot'[l] = [lot[l] EXCEPT !.remaining = @ - drawn[l]] /\ drawn[l] \in Int
    BY <1>1, <1>2
  <2> QED BY <2>1, <2>2 DEF LotRow
<1>3. \A l \in Lots : lot'[l] # None <=> lot[l] # None
  BY <1>1, <1>2, NoneAssumption
<1>4. DOMAIN lot' = Lots /\ lot' = [l \in Lots |-> lot'[l]]
  BY DEF DecrementLotRemainingQuantity, MoveLots
<1>5. lot' \in [Lots -> LotRow \cup {None}]
  BY <1>1, <1>2, <1>4
<1>6. Received' = Received
  BY <1>3 DEF Received
<1>7. OfReceipts' = OfReceipts
  BY <1>2, <1>6 DEF OfReceipts, Received
<1> QED BY <1>2, <1>5, <1>6, <1>7 DEF Received

LEMMA AllocationsTyped ==
    ASSUME TypeOK, DrawnFromLots, NEW i \in Posted
    PROVE  /\ i \in Items /\ item[i] \in ItemRow /\ item[i] # None
           /\ item[i].drawn \in [Lots -> Int] /\ item[i].cost \in [Lots -> Int]
           /\ item[i].qty \in Int /\ item[i].pending \in Int
           /\ item[i].bill \in Items /\ item[i].reversalOf \in Items \cup {None}
           /\ \A l \in Lots \ Received : item[i].drawn[l] = 0 /\ item[i].cost[l] = 0
<1>1. i \in Items /\ item[i] # None /\ item[i] \in ItemRow
  BY DEF Posted, TypeOK
<1>2. /\ item[i].drawn \in [Lots -> Int] /\ item[i].cost \in [Lots -> Int]
      /\ item[i].qty \in Int /\ item[i].pending \in Int
      /\ item[i].bill \in Items /\ item[i].reversalOf \in Items \cup {None}
  BY <1>1 DEF ItemRow
<1>3. ASSUME NEW l \in Lots \ Received
      PROVE  item[i].drawn[l] = 0 /\ item[i].cost[l] = 0
  <2>1. l \in Lots /\ l \notin Received
    OBVIOUS
  <2>2. (item[i].drawn[l] # 0 => l \in Received) /\ (item[i].drawn[l] = 0 => item[i].cost[l] = 0)
    BY <2>1 DEF DrawnFromLots
  <2> QED BY <2>1, <2>2
<1> QED BY <1>1, <1>2, <1>3

\* The rows that were there stay, and the lots are those there were.
LEMMA PostedRows ==
    ASSUME TypeOK, NEW i \in Items, NEW b \in Items, NEW qty \in Int,
           NEW original \in Items \cup {None}, NEW a \in Allocations, Posts(i, b, qty, original, a)
    PROVE  /\ i \notin Posted /\ Posted' = Posted \cup {i}
           /\ Received' = Received /\ OfReceipts' = OfReceipts
           /\ \A j \in Posted : j # i /\ item'[j] = item[j]
           /\ item'[i].bill = b /\ item'[i].qty = qty /\ item'[i].reversalOf = original
           /\ item'[i].pending = a.pending /\ item'[i].drawn = a.drawn /\ item'[i].cost = a.cost
           /\ a.drawn \in [Lots -> Int] /\ a.cost \in [Lots -> Int]
<1>1. /\ i \notin Posted /\ Posted' = Posted \cup {i}
      /\ \A j \in Items : j # i => item'[j] = item[j]
      /\ item'[i].bill = b /\ item'[i].qty = qty /\ item'[i].reversalOf = original
      /\ item'[i].pending = a.pending /\ item'[i].drawn = a.drawn /\ item'[i].cost = a.cost
  BY ItemCreated DEF Posts
<1>2. a.drawn \in [Lots -> Int] /\ a.cost \in [Lots -> Int]
  BY DEF Allocations
<1>3. Received' = Received /\ OfReceipts' = OfReceipts
  BY <1>2, LotsMoved DEF Posts
<1>4. \A j \in Posted : j # i /\ item'[j] = item[j]
  BY <1>1 DEF Posted
<1> QED BY <1>1, <1>2, <1>3, <1>4

LEMMA PostedDrawn ==
    ASSUME TypeOK, DrawnFromLots,
           NEW i \in Items, NEW b \in Items, NEW qty \in Int, NEW original \in Items \cup {None},
           NEW a \in Allocations, Posts(i, b, qty, original, a), Fits(i, b, qty, original, a)
    PROVE  DrawnFromLots'
<1>1. /\ Posted' = Posted \cup {i} /\ Received' = Received
      /\ \A j \in Posted : j # i /\ item'[j] = item[j]
      /\ item'[i].drawn = a.drawn /\ item'[i].cost = a.cost
  BY PostedRows
<1>2. ASSUME NEW j \in Posted', NEW l \in Lots
      PROVE  /\ item'[j].drawn[l] # 0 => l \in Received
             /\ item'[j].drawn[l] = 0 => item'[j].cost[l] = 0
  <2>1. CASE j \in Posted
    BY <1>1, <2>1 DEF DrawnFromLots
  <2>2. CASE j = i
    <3>1. /\ a.drawn[l] # 0 => l \in Received
          /\ a.drawn[l] = 0 => a.cost[l] = 0
      BY DEF Fits
    <3>2. item'[j].drawn[l] = a.drawn[l] /\ item'[j].cost[l] = a.cost[l]
      BY <1>1, <2>2
    <3> QED BY <3>1, <3>2
  <2> QED BY <1>1, <2>1, <2>2
<1> QED BY <1>1, <1>2 DEF DrawnFromLots

LEMMA PostedBills ==
    ASSUME TypeOK, BillsStand,
           NEW i \in Items, NEW b \in Items, NEW qty \in Int, NEW original \in Items \cup {None},
           NEW a \in Allocations, Posts(i, b, qty, original, a), Fits(i, b, qty, original, a)
    PROVE  BillsStand'
<1>1. /\ i \notin Posted /\ Posted' = Posted \cup {i}
      /\ \A j \in Posted : j # i /\ item'[j] = item[j]
      /\ item'[i].bill = b /\ item'[i].qty = qty /\ item'[i].reversalOf = original
  BY PostedRows
<1>2. ASSUME NEW j \in Posted'
      PROVE  /\ item'[j].bill \in Posted' /\ item'[item'[j].bill].bill = item'[j].bill
             /\ item'[j].bill = j /\ item'[j].reversalOf = None => item'[j].qty > 0
             /\ item'[j].reversalOf # None => item'[j].reversalOf \in Posted'
  <2>1. CASE j \in Posted
    BY <1>1, <2>1 DEF BillsStand
  <2>2. CASE j = i
    BY <1>1, <2>2 DEF Fits
  <2> QED BY <1>1, <2>1, <2>2
<1> QED BY <1>2 DEF BillsStand

LEMMA PostedCovered ==
    ASSUME TypeOK, ItemsFullyAllocated,
           NEW i \in Items, NEW b \in Items, NEW qty \in Int, NEW original \in Items \cup {None},
           NEW a \in Allocations, Posts(i, b, qty, original, a), Fits(i, b, qty, original, a)
    PROVE  ItemsFullyAllocated'
<1>1. /\ Posted' = Posted \cup {i}
      /\ \A j \in Posted : j # i /\ item'[j] = item[j]
      /\ item'[i].qty = qty /\ item'[i].reversalOf = original
      /\ item'[i].pending = a.pending /\ item'[i].drawn = a.drawn
  BY PostedRows
<1>2. ASSUME NEW j \in Posted'
      PROVE  Total(item'[j].drawn) + item'[j].pending
                 = (IF item'[j].qty < 0 /\ item'[j].reversalOf = None THEN 0 ELSE item'[j].qty)
  <2>1. CASE j \in Posted
    BY <1>1, <2>1 DEF ItemsFullyAllocated
  <2>2. CASE j = i
    BY <1>1, <2>2 DEF Fits
  <2> QED BY <1>1, <2>1, <2>2
<1> QED BY <1>2 DEF ItemsFullyAllocated, Total

LEMMA UndoneType ==
    ASSUME FiniteRows, NEW l \in Lots
    PROVE  Undone(l) \in Nat
<1>1. {u \in Undos : undo[u] = l} \in SUBSET {u \in Undos : undo[u] # None}
  BY NoneAssumption
<1>2. IsFiniteSet({u \in Undos : undo[u] = l})
  BY <1>1, FS_Subset DEF FiniteRows
<1> QED BY <1>2, FS_CardinalityType DEF Undone

LEMMA PostedAccounted ==
    ASSUME TypeOK, FiniteRows, LotsAccountedFor,
           NEW i \in Items, NEW b \in Items, NEW qty \in Int, NEW original \in Items \cup {None},
           NEW a \in Allocations, Posts(i, b, qty, original, a)
    PROVE  LotsAccountedFor'
<1>1. /\ Received' = Received /\ a.drawn \in [Lots -> Int]
  BY PostedRows
<1>2. ASSUME NEW l \in Received
      PROVE  lot'[l].received - lot'[l].remaining = DrawnFrom(l)' + lot'[l].received * Undone(l)'
  <2>1. /\ l \in Lots /\ lot[l] \in LotRow
        /\ lot'[l].received = lot[l].received
        /\ lot'[l].remaining = lot[l].remaining - a.drawn[l]
    BY <1>1, LotsMoved DEF Posts, Received
  <2>2. DrawnFrom(l) \in Int /\ DrawnFrom(l)' = DrawnFrom(l) + a.drawn[l]
    BY <2>1, ItemSummed DEF Posts
  <2>3. Undone(l)' = Undone(l) /\ Undone(l) \in Nat
    BY <2>1, UndoneType DEF Posts, Undone
  <2>4. lot[l].received - lot[l].remaining = DrawnFrom(l) + lot[l].received * Undone(l)
    BY DEF LotsAccountedFor
  <2>5. lot[l].received \in Nat /\ lot[l].remaining \in Int /\ a.drawn[l] \in Int
    BY <1>1, <2>1 DEF LotRow
  <2> DEFINE gone == lot[l].received * Undone(l)
  <2>6. gone \in Int
    BY <2>3, <2>5
  <2>7. lot'[l].received * Undone(l)' = gone
    BY <2>1, <2>3
  <2> HIDE DEF gone
  <2>8. lot[l].received - lot[l].remaining = DrawnFrom(l) + gone
    BY <2>4 DEF gone
  <2> QED BY <2>1, <2>2, <2>5, <2>6, <2>7, <2>8
<1> QED BY <1>1, <1>2 DEF LotsAccountedFor

LEMMA TakenType ==
    ASSUME TypeOK, FiniteRows, NEW l \in Lots
    PROVE  /\ IsFiniteSet(Standing) /\ Standing \in SUBSET Posted
           /\ \A i \in Standing : Taken(l)[i] \in Nat
           /\ SumOver(Taken(l), Standing) \in Nat
<1>1. Standing \in SUBSET Posted
  BY DEF Standing
<1>2. IsFiniteSet(Standing)
  BY <1>1, FS_Subset DEF FiniteRows
<1>3. ASSUME NEW i \in Standing
      PROVE  Taken(l)[i] \in Nat
  <2>1. item[i] \in ItemRow
    BY <1>1 DEF Posted, TypeOK
  <2>2. item[i].drawn[l] \in Int
    BY <2>1 DEF ItemRow
  <2> QED BY <2>2 DEF Taken
<1>4. SumOver(Taken(l), Standing) \in Nat
  BY <1>2, <1>3, SumOfNaturals
<1> QED BY <1>1, <1>2, <1>3, <1>4

LEMMA ConsumedType ==
    ASSUME TypeOK, FiniteRows, LotsAccountedFor, GivenBackOnce, ReversedOnce, NEW l \in Received
    PROVE  lot[l].received - lot[l].remaining >= 0
<1>1. l \in Lots /\ lot[l] \in LotRow
  BY DEF Received, TypeOK
<1>2. Undone(l) \in Nat /\ lot[l].received \in Nat /\ lot[l].remaining \in Int
  BY <1>1, UndoneType DEF LotRow
<1>3. SumOver(Taken(l), Standing) \in Nat
  BY <1>1, TakenType
<1>4. DrawnFrom(l) = lot[l].received - lot[l].remaining - lot[l].received * Undone(l)
  <2>1. DrawnFrom(l) \in Int
    <3> DEFINE f == [i \in Posted |-> item[i].drawn[l]]
    <3>1. ASSUME NEW i \in Posted PROVE f[i] \in Int
      <4>1. item[i] \in ItemRow
        BY DEF Posted, TypeOK
      <4> QED BY <1>1, <4>1 DEF ItemRow
    <3>2. IsFiniteSet(Posted)
      BY DEF FiniteRows
    <3>3. DrawnFrom(l) = SumOver(f, Posted)
      BY DEF DrawnFrom
    <3> HIDE DEF f
    <3>4. SumOver(f, Posted) \in Int
      BY ONLY <3>1, <3>2, SumType
    <3> QED BY <3>3, <3>4
  <2>2. lot[l].received - lot[l].remaining = DrawnFrom(l) + lot[l].received * Undone(l)
    BY DEF LotsAccountedFor
  <2>3. lot[l].received * Undone(l) \in Int
    BY <1>2
  <2> QED BY <1>2, <2>1, <2>2, <2>3
<1>5. SumOver(Taken(l), Standing) <= DrawnFrom(l)
  BY DEF GivenBackOnce
<1>6. lot[l].received * Undone(l) \in Nat
  BY <1>2
<1> QED BY <1>2, <1>3, <1>4, <1>5, <1>6

LEMMA ReversedOnceBefore ==
    ASSUME NEW i, Posted' = Posted \cup {i}, \A j \in Posted : item'[j] = item[j], ReversedOnce'
    PROVE  ReversedOnce
BY DEF ReversedOnce

LEMMA PostedNearShare ==
    ASSUME TypeOK, FiniteRows, LotsAccountedFor, GivenBackOnce, DrawnFromLots, CostNearShare,
           NEW i \in Items, NEW b \in Items, NEW qty \in Int, NEW original \in Items \cup {None},
           NEW a \in Allocations, Posts(i, b, qty, original, a), Fits(i, b, qty, original, a)
    PROVE  CostNearShare'
<1>1. /\ Posted' = Posted \cup {i} /\ Received' = Received
      /\ \A j \in Posted : j # i /\ item'[j] = item[j]
      /\ item'[i].drawn = a.drawn /\ item'[i].cost = a.cost
      /\ a.drawn \in [Lots -> Int] /\ a.cost \in [Lots -> Int]
  BY PostedRows
<1>2. \A l \in Received : /\ l \in Lots /\ lot[l] \in LotRow
                          /\ lot'[l].received = lot[l].received /\ lot'[l].cost = lot[l].cost
  BY <1>1, LotsMoved DEF Posts, Received
<1>3. ReversedOnce' => ReversedOnce
  BY <1>1, ReversedOnceBefore
<1>4. ASSUME NEW j \in Posted', NEW l \in Received
      PROVE  WithinKobo(j, l, 2)' /\ (ReversedOnce' => WithinKobo(j, l, 1)')
  <2> DEFINE r == lot[l].received
             c == lot[l].cost
             error == item'[j].cost[l] * r - item'[j].drawn[l] * c
  <2>1. r \in Nat \ {0} /\ c \in Nat /\ lot[l].remaining \in Int /\ l \in Lots
    BY <1>2 DEF LotRow
  <2>2. \A kobo \in {1, 2} : WithinKobo(j, l, kobo)' <=> error < kobo * r /\ -error < kobo * r
    BY <1>2 DEF WithinKobo
  <2> SUFFICES /\ error < 2 * r /\ -error < 2 * r
               /\ ReversedOnce' => error < 1 * r /\ -error < 1 * r
    BY <2>2
  <2>3. CASE j \in Posted
    <3>1. item'[j] = item[j]
      BY <1>1, <2>3
    <3>2. WithinKobo(j, l, 2) /\ (ReversedOnce => WithinKobo(j, l, 1))
      BY <2>3 DEF CostNearShare
    <3> QED BY <1>3, <3>1, <3>2 DEF WithinKobo
  <2>4. CASE j = i
    <3>1. item'[j].cost[l] = a.cost[l] /\ item'[j].drawn[l] = a.drawn[l]
      BY <1>1, <2>4
    <3>2. a.drawn[l] \in Int /\ a.cost[l] \in Int
      BY <1>1, <2>1
    <3>3. CASE a.drawn[l] = 0
      <4>1. a.cost[l] = 0
        BY <2>1, <3>3 DEF Fits
      <4>2. error = 0
        BY <2>1, <3>1, <3>3, <4>1
      <4> QED BY <2>1, <4>2
    <3>4. CASE original = None /\ a.drawn[l] # 0
      <4> DEFINE m == r - lot[l].remaining
                 n == a.drawn[l]
                 kobo == a.cost[l]
      <4>1. n > 0 /\ kobo = AllocatedCost(l, n)
        BY <2>1, <3>4 DEF Fits
      <4>2. kobo = Quotient(c * (m + n), r) - Quotient(c * m, r)
        BY <4>1 DEF AllocatedCost, CostThrough
      <4>3. m \in Int /\ n \in Nat /\ kobo \in Int
        BY <2>1, <3>2, <4>1
      <4>4. ReversedOnce' => m >= 0
        BY <1>3, ConsumedType
      <4>5. error = kobo * r - n * c
        BY <3>1
      <4> HIDE DEF m, n, kobo, r, c, error
      <4>6. /\ kobo * r - n * c < 2 * r /\ -(kobo * r - n * c) < 2 * r
            /\ m >= 0 => kobo * r - n * c < 1 * r /\ -(kobo * r - n * c) < 1 * r
        BY ONLY <2>1, <4>2, <4>3, ShareOfCost
      <4> QED BY <4>4, <4>5, <4>6
    <3>5. CASE original # None
      <4>1. original \in Posted /\ a.drawn[l] = -item[original].drawn[l] /\ a.cost[l] = -item[original].cost[l]
        BY <2>1, <3>5 DEF Fits
      <4>2. WithinKobo(original, l, 2) /\ (ReversedOnce => WithinKobo(original, l, 1))
        BY <4>1 DEF CostNearShare
      <4> DEFINE x == item[original].cost[l]
                 y == item[original].drawn[l]
                 e == x * r - y * c
      <4>3. x \in Int /\ y \in Int
        BY <2>1, <4>1, AllocationsTyped
      <4>4. /\ e < 2 * r /\ -e < 2 * r
            /\ ReversedOnce => e < 1 * r /\ -e < 1 * r
        BY <4>2 DEF WithinKobo
      <4>5. item'[j].cost[l] = -x /\ item'[j].drawn[l] = -y
        BY <3>1, <4>1
      <4> HIDE DEF x, y, r, c
      <4>6. error = (-x) * r - (-y) * c
        BY <4>5
      <4>7. error = -e /\ e \in Int
        BY <2>1, <4>3, <4>6
      <4> HIDE DEF e, error
      <4> QED BY <1>3, <2>1, <4>4, <4>7
    <3> QED BY <3>3, <3>4, <3>5
  <2> QED BY <1>1, <2>3, <2>4
<1> QED BY <1>1, <1>4 DEF CostNearShare

LEMMA PostedTelescopes ==
    ASSUME TypeOK, FiniteRows, LotsAccountedFor, DrawnFromLots, CostTelescopes,
           NEW i \in Items, NEW b \in Items, NEW qty \in Int, NEW original \in Items \cup {None},
           NEW a \in Allocations, Posts(i, b, qty, original, a), Fits(i, b, qty, original, a)
    PROVE  CostTelescopes'
<1>1. /\ Posted' = Posted \cup {i} /\ Received' = Received
      /\ \A j \in Posted : j # i /\ item'[j] = item[j]
      /\ item'[i].drawn = a.drawn /\ item'[i].cost = a.cost
      /\ a.drawn \in [Lots -> Int] /\ a.cost \in [Lots -> Int]
  BY PostedRows
<1>2. \A l \in Received : /\ l \in Lots /\ lot[l] \in LotRow
                          /\ lot'[l].received = lot[l].received /\ lot'[l].cost = lot[l].cost
  BY <1>1, LotsMoved DEF Posts, Received
<1>3. ASSUME NEW l \in Received, \A j \in Posted' : item'[j].drawn[l] >= 0
      PROVE  CostFrom(l)' = CostThrough(l, DrawnFrom(l))'
  <2> DEFINE r == lot[l].received
             c == lot[l].cost
             d == DrawnFrom(l)
             n == a.drawn[l]
             Q(k) == Quotient(c * k, r)
  <2>1. r \in Nat \ {0} /\ c \in Nat /\ lot[l].remaining \in Int /\ l \in Lots
    BY <1>2 DEF LotRow
  <2>2. n \in Int /\ a.cost[l] \in Int
    BY <1>1, <2>1
  <2>3. /\ d \in Int /\ CostFrom(l) \in Int
        /\ DrawnFrom(l)' = d + n /\ CostFrom(l)' = CostFrom(l) + a.cost[l]
    BY <2>1, ItemSummed DEF Posts
  <2>4. CostThrough(l, DrawnFrom(l))' = Q(d + n)
    BY <1>2, <2>3 DEF CostThrough
  <2>5. CostFrom(l) = Q(d)
    <3>1. \A j \in Posted : item[j].drawn[l] >= 0
      BY <1>1, <1>3
    <3> QED BY <3>1 DEF CostTelescopes, CostThrough
  <2>6. n >= 0
    BY <1>1, <1>3
  <2>7. CASE n = 0
    <3>1. a.cost[l] = 0
      BY <2>1, <2>7 DEF Fits
    <3> QED BY <2>3, <2>4, <2>5, <2>7, <3>1
  <2>8. CASE n # 0
    <3>1. original = None
      <4>1. SUFFICES ASSUME original # None PROVE FALSE
        OBVIOUS
      <4>2. original \in Posted /\ n = -item[original].drawn[l]
        BY <2>1, <4>1 DEF Fits
      <4>3. item[original].drawn[l] >= 0 /\ item[original].drawn[l] \in Int
        BY <1>1, <1>3, <2>1, <4>2, AllocationsTyped
      <4> QED BY <2>6, <2>8, <4>2, <4>3
    <3>2. lot[l].remaining > 0 /\ a.cost[l] = AllocatedCost(l, n)
      BY <2>1, <2>8, <3>1 DEF Fits
    <3>3. r - lot[l].remaining = d
      <4>1. r - lot[l].remaining = d + r * Undone(l)
        BY DEF LotsAccountedFor
      <4>2. Undone(l) \in Nat
        BY <2>1, UndoneType
      <4>3. d >= 0
        <5> DEFINE f == [j \in Posted |-> item[j].drawn[l]]
        <5>1. ASSUME NEW j \in Posted PROVE f[j] \in Nat
          <6>1. item[j].drawn[l] \in Int
            BY <2>1, AllocationsTyped
          <6>2. item[j].drawn[l] >= 0
            BY <1>1, <1>3
          <6> QED BY <6>1, <6>2
        <5>2. IsFiniteSet(Posted)
          BY DEF FiniteRows
        <5>3. d = SumOver(f, Posted)
          BY DEF DrawnFrom
        <5> HIDE DEF f, d
        <5>4. SumOver(f, Posted) \in Nat
          BY ONLY <5>1, <5>2, SumOfNaturals
        <5> QED BY <5>3, <5>4
      <4>4. Undone(l) = 0
        <5>1. SUFFICES ASSUME Undone(l) >= 1 PROVE FALSE
          BY <4>2
        <5>2. r * Undone(l) >= r
          BY <2>1, <4>2, <5>1
        <5>3. r * Undone(l) \in Int
          BY <2>1, <4>2
        <5> QED BY <2>1, <2>3, <3>2, <4>1, <4>3, <5>2, <5>3
      <4>5. r * Undone(l) = 0
        BY <2>1, <4>4
      <4> QED BY <2>1, <2>3, <4>1, <4>5
    <3>4. a.cost[l] = Q(d + n) - Q(d)
      BY <3>2, <3>3 DEF AllocatedCost, CostThrough
    <3>5. c * (d + n) \in Int /\ c * d \in Int
      BY <2>1, <2>2, <2>3
    <3>6. Q(d + n) \in Int /\ Q(d) \in Int
      BY <2>1, <3>5, QuotientBounds
    <3> QED BY <2>3, <2>4, <2>5, <3>4, <3>6
  <2> QED BY <2>7, <2>8
<1> QED BY <1>1, <1>3 DEF CostTelescopes

LEMMA PostedGivenBack ==
    ASSUME TypeOK, FiniteRows, BillsStand, GivenBackOnce,
           NEW i \in Items, NEW b \in Items, NEW qty \in Int, NEW original \in Items \cup {None},
           NEW a \in Allocations, Posts(i, b, qty, original, a), Fits(i, b, qty, original, a)
    PROVE  GivenBackOnce'
<1>1. /\ i \notin Posted /\ Posted' = Posted \cup {i} /\ Received' = Received
      /\ \A j \in Posted : j # i /\ item'[j] = item[j]
      /\ item'[i].drawn = a.drawn /\ item'[i].reversalOf = original
      /\ a.drawn \in [Lots -> Int]
  BY PostedRows
<1> SUFFICES ASSUME ReversedOnce', NEW l \in Received
             PROVE  SumOver(Taken(l)', Standing') <= DrawnFrom(l)'
  BY <1>1 DEF GivenBackOnce
<1>2. l \in Lots
  BY DEF Received
<1>3. SumOver(Taken(l), Standing) <= DrawnFrom(l)
  BY <1>1, ReversedOnceBefore DEF GivenBackOnce
<1> DEFINE f == Taken(l)
           g == Taken(l)'
           n == a.drawn[l]
<1>4. n \in Int /\ DrawnFrom(l) \in Int /\ DrawnFrom(l)' = DrawnFrom(l) + n
  BY <1>1, <1>2, ItemSummed DEF Posts
<1>5. /\ IsFiniteSet(Standing) /\ Standing \in SUBSET Posted
      /\ \A j \in Standing : f[j] \in Nat
      /\ SumOver(f, Standing) \in Nat
  BY <1>2, TakenType
<1>6. /\ \A j \in Standing : f[j] = IF item[j].drawn[l] > 0 THEN item[j].drawn[l] ELSE 0
      /\ \A j \in Standing' : g[j] = IF item'[j].drawn[l] > 0 THEN item'[j].drawn[l] ELSE 0
  BY DEF Taken
<1>7. i \in Standing'
  <2>1. ASSUME NEW j \in Posted' PROVE item'[j].reversalOf # i
    <3>1. CASE j \in Posted
      BY <1>1, <3>1, NoneAssumption DEF BillsStand
    <3>2. CASE j = i
      BY <1>1, <3>2, NoneAssumption DEF Fits
    <3> QED BY <1>1, <3>1, <3>2
  <2> QED BY <1>1, <2>1 DEF Standing
<1>8. g[i] = (IF n > 0 THEN n ELSE 0) /\ g[i] \in Int
  BY <1>1, <1>4, <1>6, <1>7
<1>9. CASE original = None
  <2>1. Standing' = Standing \cup {i}
    <3>1. \A j \in Posted : j \in Standing' <=> j \in Standing
      BY <1>1, <1>9, NoneAssumption DEF Standing, Posted
    <3> QED BY <1>1, <1>5, <1>7, <3>1 DEF Standing
  <2>2. \A j \in Standing : g[j] = f[j]
    BY <1>1, <1>5, <1>6, <2>1
  <2>3. n >= 0
    BY <1>2, <1>4, <1>9 DEF Fits
  <2> HIDE DEF f, g, n
  <2>4. IsFiniteSet(Standing') /\ SumOver(g, Standing') = SumOver(f, Standing) + g[i]
    <3>1. i \notin Standing /\ IsFiniteSet(Standing)
      BY <1>1, <1>5
    <3>2. \A j \in Standing : f[j] \in Int
      BY <1>5
    <3>3. g[i] \in Int
      BY <1>8
    <3> QED BY ONLY <2>1, <2>2, <3>1, <3>2, <3>3, RowAdded
  <2>5. SumOver(f, Standing) <= DrawnFrom(l)
    BY <1>3 DEF f
  <2>6. SumOver(g, Standing') <= DrawnFrom(l)'
    BY <1>4, <1>5, <1>8, <2>3, <2>4, <2>5
  <2> QED BY <2>6 DEF g
<1>10. CASE original # None
  <2>1. original \in Posted /\ original # i /\ n = -item[original].drawn[l]
    BY <1>1, <1>2, <1>10 DEF Fits
  <2>2. original \in Standing
    BY <1>1, <1>10, <2>1 DEF Standing, ReversedOnce
  <2> DEFINE rest == Standing \ {original}
  <2>3. Standing' = rest \cup {i}
    <3>1. \A j \in Posted : j \in Standing' <=> j \in rest
      BY <1>1, <1>10 DEF Standing
    <3> QED BY <1>1, <1>5, <1>7, <3>1 DEF Standing
  <2>4. \A j \in rest : g[j] = f[j]
    BY <1>1, <1>5, <1>6, <2>3
  <2>5. f[original] = (IF -n > 0 THEN -n ELSE 0)
    <3>1. item[original].drawn[l] \in Int
      <4>1. item[original] \in ItemRow
        BY <2>1 DEF Posted, TypeOK
      <4> QED BY <1>2, <4>1 DEF ItemRow
    <3> QED BY <1>6, <2>1, <2>2, <3>1
  <2>6. IsFiniteSet(rest) /\ i \notin rest /\ \A j \in rest : f[j] \in Int
    BY <1>1, <1>5, FS_Subset
  <2> HIDE DEF f, g, n, rest
  <2>7. IsFiniteSet(Standing') /\ SumOver(g, Standing') = SumOver(f, rest) + g[i]
    <3>1. i \notin rest /\ IsFiniteSet(rest)
      BY <2>6
    <3>2. \A j \in rest : f[j] \in Int
      BY <2>6
    <3>3. g[i] \in Int
      BY <1>8
    <3> QED BY ONLY <2>3, <2>4, <3>1, <3>2, <3>3, RowAdded
  <2>8. SumOver(f, Standing) = f[original] + SumOver(f, rest)
    <3>1. \A j \in Standing : f[j] \in Int
      BY <1>5
    <3>2. IsFiniteSet(Standing)
      BY <1>5
    <3>3. SumOver(f, Standing) = f[original] + SumOver(f, Standing \ {original})
      BY ONLY <2>2, <3>1, <3>2, SumTake
    <3> QED BY <3>3 DEF rest
  <2>9. SumOver(f, rest) \in Int
    BY <2>6, SumType
  <2>10. SumOver(f, Standing) <= DrawnFrom(l)
    BY <1>3 DEF f
  <2>11. SumOver(g, Standing') <= DrawnFrom(l)'
    BY <1>4, <1>8, <2>5, <2>7, <2>8, <2>9, <2>10
  <2> QED BY <2>11 DEF g
<1> QED BY <1>9, <1>10

-----------------------------------------------------------------------------
(* Sales, removals and reversals post items that fit.                        *)

LEMMA SellFits ==
    ASSUME TypeOK, FiniteRows, NEW i \in Items, NEW b \in Items, NEW qty \in SaleQuantities,
           SellItem(i, b, qty)
    PROVE  \E a \in Allocations :
              /\ Posts(i, b, qty, None, a) /\ Fits(i, b, qty, None, a)
              /\ a.drawn = Draw(qty) /\ a.pending = qty - Total(Draw(qty))
<1>1. qty \in Nat /\ qty > 0 /\ qty \in Int
  BY NumbersAssumption DEF SaleQuantities
<1>2. IsFiniteSet(Received)
  BY DEF FiniteRows
<1> DEFINE d == Draw(qty)
           cost == [l \in Lots |-> IF d[l] = 0 THEN 0 ELSE AllocatedCost(l, d[l])]
           a == [pending |-> qty - Total(d), drawn |-> d, cost |-> cost]
<1>3. /\ d \in [Lots -> Nat]
      /\ \A l \in Lots \ ListLotsForAllocation : d[l] = 0
  BY <1>1, <1>2, DrawType
<1>4. ListLotsForAllocation \subseteq Received /\ \A l \in ListLotsForAllocation : lot[l].remaining > 0
  BY DEF ListLotsForAllocation, Received
<1>5. d \in [Lots -> Int] /\ Received \in SUBSET Lots /\ \A l \in Lots \ Received : d[l] = 0
  BY <1>3, <1>4 DEF Received
<1>6. Total(d) \in Int
  <2> HIDE DEF d
  <2> QED BY <1>2, <1>5, TotalOf
<1>7. ASSUME NEW l \in Lots PROVE cost[l] \in Int
  <2>1. CASE d[l] = 0
    BY <2>1
  <2>2. CASE d[l] # 0
    <3>1. l \in Received /\ lot[l] \in LotRow
      BY <1>5, <2>2 DEF Received, TypeOK
    <3>2. /\ lot[l].cost \in Nat /\ lot[l].received \in Nat \ {0} /\ lot[l].remaining \in Int
          /\ d[l] \in Int
      BY <1>5, <3>1 DEF LotRow
    <3> DEFINE c == lot[l].cost
               r == lot[l].received
               m == r - lot[l].remaining
               n == d[l]
    <3>3. c * (m + n) \in Int /\ c * m \in Int /\ r \in Nat \ {0}
      BY <3>2
    <3>4. AllocatedCost(l, n) = Quotient(c * (m + n), r) - Quotient(c * m, r)
      BY DEF AllocatedCost, CostThrough
    <3> HIDE DEF c, r, m, n
    <3>5. AllocatedCost(l, n) \in Int
      BY <3>3, <3>4, QuotientBounds
    <3> QED BY <2>2, <3>5 DEF n
  <2> QED BY <2>1, <2>2
<1>8. a \in Allocations
  BY <1>1, <1>5, <1>6, <1>7 DEF Allocations
<1>9. /\ a.pending = qty - Total(d) /\ a.drawn = d /\ a.cost = cost
  OBVIOUS
<1>10. Posts(i, b, qty, None, a)
  BY DEF SellItem, Posts, AllocateSaleItemLots, CreateSaleItemLotAllocation
<1>11. Fits(i, b, qty, None, a)
  <2>1. b = i \/ (b \in Posted /\ item[b].bill = b)
    BY DEF SellItem, Joins, Posted
  <2>2. Total(a.drawn) + a.pending = (IF qty < 0 /\ None = None THEN 0 ELSE qty)
    BY <1>1, <1>6, <1>9
  <2>3. ASSUME NEW l \in Lots
        PROVE  /\ a.drawn[l] # 0 => l \in Received
               /\ a.drawn[l] = 0 => a.cost[l] = 0
               /\ a.drawn[l] # 0 =>
                     /\ a.drawn[l] > 0 /\ lot[l].remaining > 0
                     /\ a.cost[l] = AllocatedCost(l, a.drawn[l])
    <3>1. a.drawn[l] = d[l] /\ a.cost[l] = (IF d[l] = 0 THEN 0 ELSE AllocatedCost(l, d[l]))
      BY <1>9
    <3>2. d[l] \in Nat /\ (d[l] # 0 => l \in ListLotsForAllocation)
      BY <1>3
    <3> HIDE DEF a, cost, d
    <3> QED BY <1>4, <3>1, <3>2
  <2> HIDE DEF a
  <2> QED BY <1>1, <2>1, <2>2, <2>3 DEF Fits
<1> HIDE DEF a
<1> QED BY <1>8, <1>9, <1>10, <1>11

LEMMA RemoveFits ==
    ASSUME TypeOK, NEW i \in Items, NEW b \in Items, NEW qty \in SaleQuantities,
           RemoveItem(i, b, qty)
    PROVE  NoAllocations \in Allocations /\ Posts(i, b, -qty, None, NoAllocations)
           /\ Fits(i, b, -qty, None, NoAllocations)
<1>1. qty \in Int /\ qty > 0
  BY NumbersAssumption DEF SaleQuantities
<1>2. /\ NoAllocations.pending = 0 /\ NoAllocations.drawn = NoDraw /\ NoAllocations.cost = NoDraw
      /\ NoAllocations \in Allocations
      /\ \A l \in Lots : NoDraw[l] = 0
  BY DEF NoAllocations, CreateSaleItemLotAllocation, NoDraw, Allocations
<1>3. DecrementLotRemainingQuantity(NoDraw)
  <2>1. lot' = lot
    BY DEF RemoveItem
  <2>2. ASSUME NEW l \in Lots, lot[l] # None
        PROVE  [lot[l] EXCEPT !.remaining = @ + -NoDraw[l]] = lot[l]
    <3>1. lot[l] \in LotRow
      BY <2>2 DEF TypeOK
    <3> QED BY <1>2, <3>1 DEF LotRow
  <2>3. lot' = [l \in Lots |-> IF lot[l] = None THEN None
                               ELSE [lot[l] EXCEPT !.remaining = @ + -NoDraw[l]]]
    BY <2>1, <2>2 DEF TypeOK
  <2> QED BY <2>3 DEF DecrementLotRemainingQuantity, MoveLots
<1>4. Total(NoDraw) = 0
  <2>1. NoDraw \in [Lots -> Int] /\ {} \in SUBSET Lots /\ IsFiniteSet({})
    BY FS_EmptySet DEF NoDraw
  <2>2. Total(NoDraw) = SumOver(NoDraw, {})
    BY <1>2, <2>1, TotalOf
  <2> QED BY <2>2, SumOfNone
<1>5. Posts(i, b, -qty, None, NoAllocations)
  BY <1>2, <1>3 DEF RemoveItem, Posts
<1>6. b # i /\ b \in Posted /\ item[b].bill = b
  BY DEF RemoveItem, Joins, Posted
<1>7. Fits(i, b, -qty, None, NoAllocations)
  BY <1>1, <1>2, <1>4, <1>6 DEF Fits
<1> QED BY <1>2, <1>5, <1>7

LEMMA ReverseFits ==
    ASSUME TypeOK, FiniteRows, DrawnFromLots, BillsStand, ReadsStand, ItemsFullyAllocated,
           NEW w \in Txs, NEW i \in Items, ReverseSaleWrite(w, i)
    PROVE  /\ reversing[w] \in Posted /\ item[reversing[w]].qty \in Int
           /\ ReverseSaleItemLots(reversing[w]) \in Allocations
           /\ Posts(i, i, -item[reversing[w]].qty, reversing[w], ReverseSaleItemLots(reversing[w]))
           /\ Fits(i, i, -item[reversing[w]].qty, reversing[w], ReverseSaleItemLots(reversing[w]))
<1> DEFINE o == reversing[w]
           a == ReverseSaleItemLots(o)
           minus == [l \in Lots |-> -item[o].drawn[l]]
<1>1. o \in Posted /\ item[o].bill = o
  BY DEF ReverseSaleWrite, ReadsStand
<1>2. /\ o \in Items /\ o # None
      /\ item[o].drawn \in [Lots -> Int] /\ item[o].cost \in [Lots -> Int]
      /\ item[o].qty \in Int /\ item[o].pending \in Int
      /\ \A l \in Lots \ Received : item[o].drawn[l] = 0 /\ item[o].cost[l] = 0
  BY <1>1, AllocationsTyped, NoneAssumption
<1>3. /\ a.pending = -item[o].pending
      /\ a.drawn = minus
      /\ a.cost = [l \in Lots |-> -item[o].cost[l]]
      /\ a = [pending |-> a.pending, drawn |-> a.drawn, cost |-> a.cost]
  BY DEF ReverseSaleItemLots, ListAllocationsBySaleItem, CreateSaleItemLotAllocation
<1>4. \A l \in Lots : /\ item[o].drawn[l] \in Int /\ item[o].cost[l] \in Int
                      /\ a.drawn[l] = -item[o].drawn[l] /\ a.cost[l] = -item[o].cost[l]
  BY <1>2, <1>3
<1>5. a \in Allocations
  <2>1. a.drawn \in [Lots -> Int] /\ a.cost \in [Lots -> Int] /\ a.pending \in Int
    BY <1>2, <1>3, <1>4
  <2> QED BY <1>3, <2>1 DEF Allocations
<1> HIDE DEF a
<1>6. DecrementLotRemainingQuantity(a.drawn)
  <2>1. lot' = [l \in Lots |-> IF lot[l] = None THEN None
                               ELSE [lot[l] EXCEPT !.remaining = @ + item[o].drawn[l]]]
    BY DEF ReverseSaleWrite, IncrementLotRemainingQuantity, MoveLots
  <2>2. \A l \in Lots : item[o].drawn[l] = -a.drawn[l]
    BY <1>4
  <2>3. lot' = [l \in Lots |-> IF lot[l] = None THEN None
                               ELSE [lot[l] EXCEPT !.remaining = @ + -a.drawn[l]]]
    BY <2>1, <2>2
  <2>4. \A l \in Lots : [k \in Lots |-> -a.drawn[k]][l] = -a.drawn[l]
    OBVIOUS
  <2> QED BY <2>3, <2>4 DEF DecrementLotRemainingQuantity, MoveLots
<1>7. Posts(i, i, -item[o].qty, o, a)
  BY <1>6 DEF ReverseSaleWrite, Posts, a
<1>8. Fits(i, i, -item[o].qty, o, a)
  <2>1. Total(item[o].drawn) + item[o].pending = item[o].qty
    <3>1. ~(item[o].qty < 0 /\ item[o].reversalOf = None)
      BY <1>1, <1>2 DEF BillsStand
    <3> QED BY <1>1, <3>1 DEF ItemsFullyAllocated
  <2>2. Total(a.drawn) = -Total(item[o].drawn) /\ Total(item[o].drawn) \in Int
    <3>1. Received \in SUBSET Lots /\ IsFiniteSet(Received)
      BY DEF Received, FiniteRows
    <3>2. \A l \in Lots \ Received : item[o].drawn[l] = 0
      BY <1>2
    <3>3. item[o].drawn \in [Lots -> Int]
      BY <1>2
    <3>4. Total(minus) = -Total(item[o].drawn)
      BY ONLY <3>1, <3>2, <3>3, TotalNegated
    <3>5. Total(item[o].drawn) \in Int
      BY ONLY <3>1, <3>2, <3>3, TotalOf
    <3> QED BY <1>3, <3>4, <3>5
  <2>3. Total(a.drawn) + a.pending = -item[o].qty
    BY <1>2, <1>3, <2>1, <2>2
  <2>4. ASSUME NEW l \in Lots
        PROVE  /\ a.drawn[l] # 0 => l \in Received
               /\ a.drawn[l] = 0 => a.cost[l] = 0
    <3>1. /\ item[o].drawn[l] # 0 => l \in Received
          /\ item[o].drawn[l] = 0 => item[o].cost[l] = 0
      BY <1>1 DEF DrawnFromLots
    <3> QED BY <1>4, <3>1
  <2> HIDE DEF o
  <2> QED BY <1>1, <1>2, <1>4, <2>3, <2>4 DEF Fits
<1> QED BY <1>1, <1>2, <1>5, <1>7, <1>8 DEF a

LEMMA PostedLedger ==
    ASSUME TypeOK, FiniteRows, Ledger,
           NEW i \in Items, NEW b \in Items, NEW qty \in Int, NEW original \in Items \cup {None},
           NEW a \in Allocations, Posts(i, b, qty, original, a), Fits(i, b, qty, original, a)
    PROVE  Ledger'
BY PostedDrawn, PostedBills, PostedAccounted, PostedCovered, PostedNearShare, PostedTelescopes,
   PostedGivenBack DEF Ledger

-----------------------------------------------------------------------------
(* New lots.                                                                 *)

LEMMA LotCreated ==
    ASSUME TypeOK, NEW l \in Lots, NEW received \in Nat \ {0}, NEW cost \in Nat,
           NEW source \in {"receipt", "review_resolution"}, CreateStockLot(l, received, cost, source)
    PROVE  /\ lot' \in [Lots -> LotRow \cup {None}]
           /\ l \notin Received /\ Received' = Received \cup {l}
           /\ OfReceipts' = OfReceipts \cup (IF source = "receipt" THEN {l} ELSE {})
           /\ \A k \in Lots : k # l => lot'[k] = lot[k]
           /\ lot'[l].received = received /\ lot'[l].cost = cost /\ lot'[l].source = source
           /\ lot'[l].remaining = IF source = "receipt" THEN received ELSE 0
<1> DEFINE row == [received |-> received, cost |-> cost, source |-> source,
                   remaining |-> IF source = "receipt" THEN received ELSE 0]
<1>1. /\ row.received = received /\ row.cost = cost /\ row.source = source
      /\ row.remaining = (IF source = "receipt" THEN received ELSE 0)
      /\ row \in LotRow /\ row # None
  <2>1. row \in LotRow
    BY DEF LotRow
  <2> QED BY <2>1, NoneAssumption
<1>2. lot[l] = None /\ lot' = [lot EXCEPT ![l] = row] /\ lot \in [Lots -> LotRow \cup {None}]
  BY DEF CreateStockLot, TypeOK
<1> HIDE DEF row
<1>3. \A k \in Lots : lot'[k] = IF k = l THEN row ELSE lot[k]
  BY <1>2
<1>4. lot' \in [Lots -> LotRow \cup {None}]
  BY <1>1, <1>2
<1>5. l \notin Received /\ Received' = Received \cup {l}
  BY <1>1, <1>2, <1>3 DEF Received
<1>6. OfReceipts' = OfReceipts \cup (IF source = "receipt" THEN {l} ELSE {})
  <2>1. \A k \in Received : k \in Lots /\ k # l /\ lot'[k] = lot[k]
    BY <1>2, <1>3 DEF Received
  <2>2. lot'[l].source = source
    BY <1>1, <1>3
  <2> QED BY <1>5, <2>1, <2>2 DEF OfReceipts
<1> QED BY <1>1, <1>3, <1>4, <1>5, <1>6

\* No lot is drawn from, charged for or undone before it is received.
LEMMA NotYetDrawn ==
    ASSUME TypeOK, FiniteRows, DrawnFromLots, ReadsStand, NEW l \in Lots, l \notin Received
    PROVE  DrawnFrom(l) = 0 /\ CostFrom(l) = 0 /\ Undone(l) = 0
<1>1. IsFiniteSet(Posted)
  BY DEF FiniteRows
<1>2. DrawnFrom(l) = 0
  <2> DEFINE f == [j \in Posted |-> item[j].drawn[l]]
  <2>1. \A j \in Posted : f[j] = 0
    BY AllocationsTyped
  <2>2. DrawnFrom(l) = SumOver(f, Posted)
    BY DEF DrawnFrom
  <2> HIDE DEF f
  <2>3. SumOver(f, Posted) = 0
    BY ONLY <1>1, <2>1, SumOfZeros
  <2> QED BY <2>2, <2>3
<1>3. CostFrom(l) = 0
  <2> DEFINE f == [j \in Posted |-> item[j].cost[l]]
  <2>1. \A j \in Posted : f[j] = 0
    BY AllocationsTyped
  <2>2. CostFrom(l) = SumOver(f, Posted)
    BY DEF CostFrom
  <2> HIDE DEF f
  <2>3. SumOver(f, Posted) = 0
    BY ONLY <1>1, <2>1, SumOfZeros
  <2> QED BY <2>2, <2>3
<1>4. Undone(l) = 0
  <2>1. {u \in Undos : undo[u] = l} = {}
    BY NoneAssumption DEF ReadsStand, OfReceipts
  <2> QED BY <2>1, FS_EmptySet DEF Undone
<1> QED BY <1>2, <1>3, <1>4

\* What stands and takes only what is drawn takes no more than all.
LEMMA PartTaken ==
    ASSUME NEW P, IsFiniteSet(P), NEW S \in SUBSET P, NEW h, \A j \in P : h[j] \in Nat,
           NEW t, \A j \in S : t[j] = h[j]
    PROVE  SumOver(t, S) <= SumOver(h, P)
<1>1. SumOver(h, S) <= SumOver(h, P)
  BY SumPart
<1>2. IsFiniteSet(S) /\ \A j \in S : h[j] \in Int
  BY FS_Subset
<1>3. SumOver(t, S) = SumOver(h, S)
  BY <1>2, SumSame
<1> QED BY <1>1, <1>3

LEMMA DrawnTyped ==
    ASSUME TypeOK, FiniteRows, DrawnFromLots, NEW l \in Lots
    PROVE  DrawnFrom(l) \in Int /\ CostFrom(l) \in Int
<1>1. IsFiniteSet(Posted)
  BY DEF FiniteRows
<1>2. \A i \in Posted : item[i].drawn[l] \in Int /\ item[i].cost[l] \in Int
  BY AllocationsTyped
<1> DEFINE f == [i \in Posted |-> item[i].drawn[l]]
           g == [i \in Posted |-> item[i].cost[l]]
<1>3. \A i \in Posted : f[i] \in Int
  BY <1>2
<1>4. \A i \in Posted : g[i] \in Int
  BY <1>2
<1>5. DrawnFrom(l) = SumOver(f, Posted) /\ CostFrom(l) = SumOver(g, Posted)
  BY DEF DrawnFrom, CostFrom
<1> HIDE DEF f, g
<1>6. SumOver(f, Posted) \in Int
  BY ONLY <1>1, <1>3, SumType
<1>7. SumOver(g, Posted) \in Int
  BY ONLY <1>1, <1>4, SumType
<1> QED BY <1>5, <1>6, <1>7

\* What the items say is left as it was.
LEMMA ItemsKept ==
    ASSUME item' = item, undo' = undo, NEW l
    PROVE  /\ Posted' = Posted /\ Standing' = Standing /\ ReversedOnce' = ReversedOnce
           /\ DrawnFrom(l)' = DrawnFrom(l) /\ CostFrom(l)' = CostFrom(l) /\ Undone(l)' = Undone(l)
           /\ Taken(l)' = Taken(l)
<1>1. Posted' = Posted
  BY DEF Posted
<1>2. Standing' = Standing /\ ReversedOnce' = ReversedOnce
  BY <1>1 DEF Standing, ReversedOnce
<1>3. DrawnFrom(l)' = DrawnFrom(l) /\ CostFrom(l)' = CostFrom(l)
  BY <1>1 DEF DrawnFrom, CostFrom
<1>4. Undone(l)' = Undone(l)
  BY DEF Undone
<1>5. Taken(l)' = Taken(l)
  BY <1>2 DEF Taken
<1> QED BY <1>1, <1>2, <1>3, <1>4, <1>5

LEMMA ReceivedLedger ==
    ASSUME TypeOK, FiniteRows, ReadsStand, Ledger, NEW l \in Lots,
           NEW received \in Nat \ {0}, NEW cost \in Nat,
           CreateStockLot(l, received, cost, "receipt"), item' = item, undo' = undo
    PROVE  Ledger'
<1>1. /\ l \notin Received /\ Received' = Received \cup {l}
      /\ \A k \in Received : k \in Lots /\ k # l /\ lot'[k] = lot[k]
      /\ lot'[l].received = received /\ lot'[l].cost = cost /\ lot'[l].remaining = received
  <2>1. /\ l \notin Received /\ Received' = Received \cup {l}
        /\ \A k \in Lots : k # l => lot'[k] = lot[k]
        /\ lot'[l].received = received /\ lot'[l].cost = cost /\ lot'[l].remaining = received
    BY LotCreated
  <2> QED BY <2>1 DEF Received
<1>2. DrawnFrom(l) = 0 /\ CostFrom(l) = 0 /\ Undone(l) = 0
  BY <1>1, NotYetDrawn DEF Ledger
<1>3. \A i \in Posted : item[i].drawn[l] = 0 /\ item[i].cost[l] = 0
  BY <1>1, AllocationsTyped DEF Ledger
<1>4. Posted' = Posted /\ Standing' = Standing /\ ReversedOnce' = ReversedOnce
  BY ItemsKept
<1>5. DrawnFromLots'
  BY <1>1, <1>4 DEF DrawnFromLots, Ledger
<1>6. BillsStand'
  BY <1>4 DEF BillsStand, Ledger
<1>7. LotsAccountedFor'
  <2>1. ASSUME NEW k \in Received'
        PROVE  lot'[k].received - lot'[k].remaining = DrawnFrom(k)' + lot'[k].received * Undone(k)'
    <3>1. DrawnFrom(k)' = DrawnFrom(k) /\ Undone(k)' = Undone(k)
      BY ItemsKept
    <3>2. CASE k \in Received
      BY <1>1, <3>1, <3>2 DEF LotsAccountedFor, Ledger
    <3>3. CASE k = l
      BY <1>1, <1>2, <3>1, <3>3
    <3> QED BY <1>1, <3>2, <3>3
  <2> QED BY <2>1 DEF LotsAccountedFor
<1>8. ItemsFullyAllocated'
  BY <1>4 DEF ItemsFullyAllocated, Ledger
<1>9. CostNearShare'
  <2>1. ASSUME NEW i \in Posted, NEW k \in Received'
        PROVE  WithinKobo(i, k, 2)' /\ (ReversedOnce => WithinKobo(i, k, 1)')
    <3>1. CASE k \in Received
      BY <1>1, <3>1 DEF CostNearShare, WithinKobo, Ledger
    <3>2. CASE k = l
      <4>1. item'[i].cost[k] * lot'[k].received - item'[i].drawn[k] * lot'[k].cost = 0
        BY <1>1, <1>3, <3>2
      <4> QED BY <1>1, <3>2, <4>1 DEF WithinKobo
    <3> QED BY <1>1, <3>1, <3>2
  <2> QED BY <1>4, <2>1 DEF CostNearShare
<1>10. CostTelescopes'
  <2>1. ASSUME NEW k \in Received', \A i \in Posted : item[i].drawn[k] >= 0
        PROVE  CostFrom(k)' = CostThrough(k, DrawnFrom(k))'
    <3>1. DrawnFrom(k)' = DrawnFrom(k) /\ CostFrom(k)' = CostFrom(k)
      BY ItemsKept
    <3>2. CASE k \in Received
      BY <1>1, <2>1, <3>1, <3>2 DEF CostTelescopes, CostThrough, Ledger
    <3>3. CASE k = l
      <4>1. Quotient(received * 0, received) = 0
        BY QuotientExact
      <4>2. cost * 0 = 0 /\ received * 0 = 0
        OBVIOUS
      <4> QED BY <1>1, <1>2, <3>1, <3>3, <4>1, <4>2 DEF CostThrough
    <3> QED BY <1>1, <3>2, <3>3
  <2> QED BY <1>4, <2>1 DEF CostTelescopes
<1>11. GivenBackOnce'
  <2>1. ASSUME ReversedOnce, NEW k \in Received'
        PROVE  SumOver(Taken(k)', Standing) <= DrawnFrom(k)'
    <3>1. DrawnFrom(k)' = DrawnFrom(k) /\ Taken(k)' = Taken(k)
      BY ItemsKept
    <3>2. CASE k \in Received
      BY <2>1, <3>1, <3>2 DEF GivenBackOnce, Ledger
    <3>3. CASE k = l
      <4>1. \A i \in Standing : Taken(l)[i] = 0
        BY <1>3 DEF Taken, Standing
      <4>2. SumOver(Taken(l), Standing) = 0
        BY <4>1, TakenType, SumOfZeros
      <4> QED BY <1>2, <3>1, <3>3, <4>2
    <3> QED BY <1>1, <3>2, <3>3
  <2> QED BY <1>4, <2>1 DEF GivenBackOnce
<1> QED BY <1>5, <1>6, <1>7, <1>8, <1>9, <1>10, <1>11 DEF Ledger

\* The lots move only against what is undone, the items stay.
LEMMA UndoneLedger ==
    ASSUME TypeOK, FiniteRows, ReadsStand, Ledger, NEW l \in OfReceipts, NEW u \in Undos,
           CreateReversalStockReceipt(u, l),
           lot' = [lot EXCEPT ![l].remaining = @ - lot[l].received], item' = item
    PROVE  /\ lot' \in [Lots -> LotRow \cup {None}] /\ undo' \in [Undos -> Lots \cup {None}]
           /\ Received' = Received /\ OfReceipts' = OfReceipts
           /\ \A k \in Received : lot'[k].received = lot[k].received
           /\ \A v \in Undos : undo'[v] = IF v = u THEN l ELSE undo[v]
           /\ Undone(l)' = Undone(l) + 1 /\ \A k \in Lots : k # l => Undone(k)' = Undone(k)
           /\ Ledger'
<1>1. l \in Lots /\ l \in Received /\ lot[l] # None /\ lot[l] \in LotRow /\ l # None
  BY NoneAssumption DEF OfReceipts, Received, TypeOK
<1>2. /\ undo[u] = None /\ undo' \in [Undos -> Lots \cup {None}]
      /\ \A v \in Undos : undo'[v] = IF v = u THEN l ELSE undo[v]
  BY <1>1 DEF CreateReversalStockReceipt, TypeOK
<1> DEFINE row == [lot[l] EXCEPT !.remaining = @ - lot[l].received]
<1>3. /\ row \in LotRow /\ row.received = lot[l].received /\ row.cost = lot[l].cost
      /\ row.source = lot[l].source /\ row.remaining = lot[l].remaining - lot[l].received
  BY <1>1 DEF LotRow
<1>4. lot' = [lot EXCEPT ![l] = row] /\ lot \in [Lots -> LotRow \cup {None}]
  BY DEF TypeOK
<1> HIDE DEF row
<1>5. lot' \in [Lots -> LotRow \cup {None}] /\ \A k \in Lots : lot'[k] = IF k = l THEN row ELSE lot[k]
  BY <1>1, <1>3, <1>4
<1>6. Received' = Received
  BY <1>1, <1>3, <1>5, NoneAssumption DEF Received
<1>7. /\ \A k \in Received : lot'[k].received = lot[k].received /\ lot'[k].cost = lot[k].cost
      /\ \A k \in Received : lot'[k].source = lot[k].source
  BY <1>3, <1>5 DEF Received
<1>8. OfReceipts' = OfReceipts
  BY <1>6, <1>7 DEF OfReceipts
<1>9. Undone(l)' = Undone(l) + 1
  <2> DEFINE S == {v \in Undos : undo[v] = l}
  <2>1. {v \in Undos : undo'[v] = l} = S \cup {u} /\ u \notin S
    BY <1>1, <1>2
  <2>2. IsFiniteSet(S)
    <3>1. S \in SUBSET {v \in Undos : undo[v] # None}
      BY <1>1
    <3> QED BY <3>1, FS_Subset DEF FiniteRows
  <2>3. Cardinality(S \cup {u}) = Cardinality(S) + 1
    BY <2>1, <2>2, FS_AddElement
  <2> QED BY <2>1, <2>3 DEF Undone
<1>10. ASSUME NEW k \in Lots, k # l PROVE Undone(k)' = Undone(k)
  <2>1. {v \in Undos : undo'[v] = k} = {v \in Undos : undo[v] = k}
    BY <1>2, <1>10, NoneAssumption
  <2> QED BY <2>1 DEF Undone
<1>11. /\ Posted' = Posted /\ Standing' = Standing /\ ReversedOnce' = ReversedOnce
       /\ \A k \in Lots : /\ DrawnFrom(k)' = DrawnFrom(k) /\ CostFrom(k)' = CostFrom(k)
                          /\ Taken(k)' = Taken(k)
  <2>1. Posted' = Posted
    BY DEF Posted
  <2>2. Standing' = Standing /\ ReversedOnce' = ReversedOnce
    BY <2>1 DEF Standing, ReversedOnce
  <2> QED BY <2>1, <2>2 DEF DrawnFrom, CostFrom, Taken
<1>12. DrawnFromLots' /\ BillsStand' /\ ItemsFullyAllocated'
  BY <1>6, <1>11 DEF DrawnFromLots, BillsStand, ItemsFullyAllocated, Ledger
<1>13. LotsAccountedFor'
  <2>1. ASSUME NEW k \in Received
        PROVE  lot'[k].received - lot'[k].remaining = DrawnFrom(k)' + lot'[k].received * Undone(k)'
    <3>1. /\ k \in Lots
          /\ lot[k].received - lot[k].remaining = DrawnFrom(k) + lot[k].received * Undone(k)
      BY DEF Received, LotsAccountedFor, Ledger
    <3>2. CASE k # l
      BY <1>5, <1>10, <1>11, <3>1, <3>2
    <3>3. CASE k = l
      <4> DEFINE n == Undone(l)
                 r == lot[l].received
                 d == DrawnFrom(l)
                 m == lot[l].remaining
      <4>1. n \in Nat /\ r \in Nat /\ m \in Int
        BY <1>1, UndoneType DEF LotRow
      <4>2. d \in Int
        BY <1>1, DrawnTyped DEF Ledger
      <4>3. lot'[l].received = r /\ lot'[l].remaining = m - r /\ Undone(l)' = n + 1 /\ DrawnFrom(l)' = d
        BY <1>1, <1>3, <1>5, <1>9, <1>11
      <4>4. r - m = d + r * n
        BY <3>1, <3>3
      <4> HIDE DEF n, r, d, m
      <4>5. r * (n + 1) = r * n + r /\ r * n \in Int
        BY <4>1
      <4>6. r - (m - r) = d + r * (n + 1)
        <5> DEFINE gone == r * n
                   more == r * (n + 1)
        <5>1. r - m = d + gone /\ more = gone + r /\ gone \in Int /\ r \in Int /\ m \in Int /\ d \in Int
          BY <4>1, <4>2, <4>4, <4>5
        <5> HIDE DEF gone, more
        <5>2. r - (m - r) = d + more
          BY ONLY <5>1
        <5> QED BY <5>2 DEF more
      <4> QED BY <3>3, <4>3, <4>6
    <3> QED BY <3>2, <3>3
  <2> QED BY <1>6, <2>1 DEF LotsAccountedFor
<1>14. CostNearShare'
  <2>1. ASSUME NEW i \in Posted, NEW k \in Received
        PROVE  WithinKobo(i, k, 2)' /\ (ReversedOnce => WithinKobo(i, k, 1)')
    BY <1>7 DEF CostNearShare, WithinKobo, Ledger
  <2> QED BY <1>6, <1>11, <2>1 DEF CostNearShare
<1>15. CostTelescopes'
  <2>1. ASSUME NEW k \in Received, \A i \in Posted : item[i].drawn[k] >= 0
        PROVE  CostFrom(k)' = CostThrough(k, DrawnFrom(k))'
    BY <1>7, <1>11, <2>1 DEF CostTelescopes, CostThrough, Ledger, Received
  <2> QED BY <1>6, <1>11, <2>1 DEF CostTelescopes
<1>16. GivenBackOnce'
  BY <1>6, <1>11 DEF GivenBackOnce, Ledger, Received
<1> QED BY <1>2, <1>5, <1>6, <1>7, <1>8, <1>9, <1>10, <1>12, <1>13, <1>14, <1>15, <1>16 DEF Ledger

\* What was pending is drawn from a lot made for it.
Resolves(i, l, quantity, kobo) ==
    /\ CreateStockLot(l, quantity, kobo, "review_resolution")
    /\ item' = [item EXCEPT ![i].pending = 0, ![i].drawn[l] = quantity, ![i].cost[l] = kobo]

LEMMA RowAllocated ==
    ASSUME NEW row \in ItemRow, NEW d \in [Lots -> Int], NEW c \in [Lots -> Int]
    PROVE  [row EXCEPT !.pending = 0, !.drawn = d, !.cost = c] \in ItemRow
<1>1. [row EXCEPT !.pending = 0] \in ItemRow
  BY DEF ItemRow
<1>2. \A r \in ItemRow : [r EXCEPT !.drawn = d] \in ItemRow
  BY DEF ItemRow
<1>3. \A r \in ItemRow : [r EXCEPT !.cost = c] \in ItemRow
  BY DEF ItemRow
<1>4. [[[row EXCEPT !.pending = 0] EXCEPT !.drawn = d] EXCEPT !.cost = c] \in ItemRow
  BY <1>1, <1>2, <1>3
<1> QED BY <1>4

LEMMA ResolvedRow ==
    ASSUME TypeOK, DrawnFromLots, NEW i \in Posted, NEW l \in Lots, item[i].pending > 0,
           NEW unitCost \in Nat, Resolves(i, l, item[i].pending, item[i].pending * unitCost)
    PROVE  /\ item[i].pending \in Nat \ {0} /\ item[i].pending * unitCost \in Nat
           /\ item' \in [Items -> ItemRow \cup {None}] /\ Posted' = Posted
           /\ \A j \in Items : j # i => item'[j] = item[j]
           /\ item'[i].bill = item[i].bill /\ item'[i].qty = item[i].qty
           /\ item'[i].reversalOf = item[i].reversalOf /\ item'[i].pending = 0
           /\ item'[i].drawn = [item[i].drawn EXCEPT ![l] = item[i].pending]
           /\ item'[i].cost = [item[i].cost EXCEPT ![l] = item[i].pending * unitCost]
<1> DEFINE quantity == item[i].pending
           kobo == quantity * unitCost
           row == [item[i] EXCEPT !.pending = 0, !.drawn[l] = quantity, !.cost[l] = kobo]
<1>1. /\ i \in Items /\ item[i] \in ItemRow /\ quantity \in Int
      /\ item[i].drawn \in [Lots -> Int] /\ item[i].cost \in [Lots -> Int]
  BY AllocationsTyped
<1>2. quantity \in Nat \ {0} /\ kobo \in Nat
  <2>1. quantity \in Nat \ {0}
    BY <1>1
  <2> HIDE DEF quantity
  <2> QED BY <2>1
<1>3. item' = [item EXCEPT ![i] = row] /\ item \in [Items -> ItemRow \cup {None}]
  BY DEF Resolves, TypeOK
<1> HIDE DEF quantity, kobo
<1>4. /\ row.bill = item[i].bill /\ row.qty = item[i].qty /\ row.reversalOf = item[i].reversalOf
      /\ row.pending = 0 /\ row.drawn = [item[i].drawn EXCEPT ![l] = quantity]
      /\ row.cost = [item[i].cost EXCEPT ![l] = kobo]
  BY <1>1 DEF ItemRow
<1>5. row \in ItemRow
  <2>1. [item[i].drawn EXCEPT ![l] = quantity] \in [Lots -> Int] /\ [item[i].cost EXCEPT ![l] = kobo] \in [Lots -> Int]
    BY <1>1, <1>2
  <2> DEFINE d == [item[i].drawn EXCEPT ![l] = quantity]
             c == [item[i].cost EXCEPT ![l] = kobo]
  <2>2. row = [item[i] EXCEPT !.pending = 0, !.drawn = d, !.cost = c]
    BY <1>1 DEF ItemRow
  <2>3. d \in [Lots -> Int] /\ c \in [Lots -> Int]
    BY <2>1
  <2> HIDE DEF row, d, c
  <2> QED BY <1>1, <2>2, <2>3, RowAllocated
<1>6. row # None
  BY <1>5, NoneAssumption
<1> HIDE DEF row
<1>7. \A j \in Items : item'[j] = IF j = i THEN row ELSE item[j]
  BY <1>1, <1>3
<1>8. item' \in [Items -> ItemRow \cup {None}]
  BY <1>3, <1>5
<1>9. Posted' = Posted
  BY <1>6, <1>7 DEF Posted
<1> QED BY <1>1, <1>2, <1>4, <1>7, <1>8, <1>9 DEF quantity, kobo

LEMMA ResolvedLedger ==
    ASSUME TypeOK, FiniteRows, ReadsStand, Ledger, NEW i \in Posted, NEW l \in Lots,
           item[i].pending > 0, NEW unitCost \in Nat,
           Resolves(i, l, item[i].pending, item[i].pending * unitCost), undo' = undo
    PROVE  Ledger'
<1> DEFINE quantity == item[i].pending
           kobo == quantity * unitCost
<1>1. /\ quantity \in Nat \ {0} /\ kobo \in Nat /\ Posted' = Posted
      /\ \A j \in Items : j # i => item'[j] = item[j]
      /\ item'[i].bill = item[i].bill /\ item'[i].qty = item[i].qty
      /\ item'[i].reversalOf = item[i].reversalOf /\ item'[i].pending = 0
      /\ item'[i].drawn = [item[i].drawn EXCEPT ![l] = quantity]
      /\ item'[i].cost = [item[i].cost EXCEPT ![l] = kobo]
  BY ResolvedRow DEF Ledger
<1>2. /\ l \notin Received /\ Received' = Received \cup {l}
      /\ \A k \in Received : k \in Lots /\ k # l /\ lot'[k] = lot[k]
      /\ lot'[l].received = quantity /\ lot'[l].cost = kobo /\ lot'[l].remaining = 0
  <2>1. CreateStockLot(l, quantity, kobo, "review_resolution")
    BY DEF Resolves
  <2> HIDE DEF quantity, kobo
  <2>2. /\ l \notin Received /\ Received' = Received \cup {l}
        /\ \A k \in Lots : k # l => lot'[k] = lot[k]
        /\ lot'[l].received = quantity /\ lot'[l].cost = kobo /\ lot'[l].remaining = 0
    BY <1>1, <2>1, LotCreated
  <2> QED BY <2>2 DEF Received
<1>3. \A j \in Posted : /\ j \in Items /\ item[j].drawn[l] = 0 /\ item[j].cost[l] = 0
                        /\ item[j].drawn \in [Lots -> Int] /\ item[j].cost \in [Lots -> Int]
  BY <1>2, AllocationsTyped DEF Ledger
<1>4. /\ \A j \in Posted : /\ item'[j].bill = item[j].bill /\ item'[j].qty = item[j].qty
                           /\ item'[j].reversalOf = item[j].reversalOf
      /\ \A j \in Posted, k \in Lots :
            k # l => item'[j].drawn[k] = item[j].drawn[k] /\ item'[j].cost[k] = item[j].cost[k]
      /\ \A j \in Posted : /\ item'[j].drawn[l] = IF j = i THEN quantity ELSE 0
                           /\ item'[j].cost[l] = IF j = i THEN kobo ELSE 0
  BY <1>1, <1>3
<1>5. DrawnFrom(l) = 0 /\ CostFrom(l) = 0 /\ Undone(l) = 0 /\ Undone(l)' = 0
  <2>1. DrawnFrom(l) = 0 /\ CostFrom(l) = 0 /\ Undone(l) = 0
    BY <1>2, NotYetDrawn DEF Ledger
  <2> QED BY <2>1 DEF Undone
<1> HIDE DEF quantity, kobo
<1>6. DrawnFrom(l)' = quantity /\ CostFrom(l)' = kobo
  <2> DEFINE f == [j \in Posted |-> 0]
             g == [j \in Posted |-> item'[j].drawn[l]]
             h == [j \in Posted |-> item'[j].cost[l]]
  <2>1. IsFiniteSet(Posted)
    BY DEF FiniteRows
  <2>2. /\ \A j \in Posted : f[j] \in Int /\ g[j] \in Int
        /\ \A j \in Posted : j # i => g[j] = f[j]
        /\ g[i] - f[i] = quantity
    BY <1>1, <1>4
  <2>3. /\ \A j \in Posted : f[j] \in Int /\ h[j] \in Int
        /\ \A j \in Posted : j # i => h[j] = f[j]
        /\ h[i] - f[i] = kobo
    BY <1>1, <1>4
  <2>4. \A j \in Posted : f[j] = 0
    OBVIOUS
  <2>5. DrawnFrom(l)' = SumOver(g, Posted) /\ CostFrom(l)' = SumOver(h, Posted)
    BY <1>1 DEF DrawnFrom, CostFrom
  <2> HIDE DEF f, g, h
  <2>6. SumOver(f, Posted) = 0
    BY <2>1, <2>4, SumOfZeros
  <2>7. SumOver(g, Posted) = SumOver(f, Posted) + (g[i] - f[i])
    BY <2>1, <2>2, SumChange
  <2>8. SumOver(h, Posted) = SumOver(f, Posted) + (h[i] - f[i])
    BY <2>1, <2>3, SumChange
  <2> QED BY <1>1, <2>2, <2>3, <2>5, <2>6, <2>7, <2>8
<1>7. ASSUME NEW k \in Received
      PROVE  DrawnFrom(k)' = DrawnFrom(k) /\ CostFrom(k)' = CostFrom(k) /\ Undone(k)' = Undone(k)
  <2>1. k \in Lots /\ k # l
    BY <1>2
  <2>2. /\ [j \in Posted |-> item'[j].drawn[k]] = [j \in Posted |-> item[j].drawn[k]]
        /\ [j \in Posted |-> item'[j].cost[k]] = [j \in Posted |-> item[j].cost[k]]
    BY <1>4, <2>1
  <2> QED BY <1>1, <2>2 DEF DrawnFrom, CostFrom, Undone
<1>8. Standing' = Standing /\ ReversedOnce' = ReversedOnce
  BY <1>1, <1>4 DEF Standing, ReversedOnce
<1>9. DrawnFromLots'
  <2>1. ASSUME NEW j \in Posted, NEW k \in Lots
        PROVE  /\ item'[j].drawn[k] # 0 => k \in Received'
               /\ item'[j].drawn[k] = 0 => item'[j].cost[k] = 0
    <3>1. CASE k = l
      BY <1>1, <1>2, <1>4, <3>1
    <3>2. CASE k # l
      BY <1>2, <1>4, <3>2 DEF DrawnFromLots, Ledger
    <3> QED BY <3>1, <3>2
  <2> QED BY <1>1, <2>1 DEF DrawnFromLots
<1>10. BillsStand'
  BY <1>1, <1>4 DEF BillsStand, Ledger
<1>11. LotsAccountedFor'
  <2>1. ASSUME NEW k \in Received'
        PROVE  lot'[k].received - lot'[k].remaining = DrawnFrom(k)' + lot'[k].received * Undone(k)'
    <3>1. CASE k \in Received
      BY <1>2, <1>7, <3>1 DEF LotsAccountedFor, Ledger
    <3>2. CASE k = l
      BY <1>1, <1>2, <1>5, <1>6, <3>2
    <3> QED BY <1>2, <3>1, <3>2
  <2> QED BY <2>1 DEF LotsAccountedFor
<1>12. ItemsFullyAllocated'
  <2>1. ASSUME NEW j \in Posted
        PROVE  Total(item'[j].drawn) + item'[j].pending
                   = (IF item'[j].qty < 0 /\ item'[j].reversalOf = None THEN 0 ELSE item'[j].qty)
    <3>1. Total(item[j].drawn) + item[j].pending
             = (IF item[j].qty < 0 /\ item[j].reversalOf = None THEN 0 ELSE item[j].qty)
      BY DEF ItemsFullyAllocated, Ledger
    <3>2. CASE j # i
      BY <1>1, <1>3, <3>1, <3>2
    <3>3. CASE j = i
      <4> DEFINE d == item[i].drawn
      <4>1. /\ d \in [Lots -> Int] /\ Received \in SUBSET Lots /\ IsFiniteSet(Received)
            /\ \A k \in Lots \ Received : d[k] = 0
        BY AllocationsTyped DEF FiniteRows, Received, Ledger
      <4>2. Total(d) \in Int
        <5> HIDE DEF d
        <5> QED BY <4>1, TotalOf
      <4>3. Total([d EXCEPT ![l] = quantity]) = Total(d) + quantity
        <5> HIDE DEF d
        <5>1. quantity \in Int
          BY <1>1
        <5> QED BY <1>2, <4>1, <5>1, TotalChanged
      <4>4. Total(item'[i].drawn) = Total(d) + quantity
        BY <1>1, <4>3
      <4>5. Total(d) + quantity = (IF item[i].qty < 0 /\ item[i].reversalOf = None THEN 0 ELSE item[i].qty)
        BY <3>1, <3>3 DEF quantity
      <4>6. /\ item'[i].qty = item[i].qty /\ item'[i].reversalOf = item[i].reversalOf
            /\ item'[i].pending = 0
        BY <1>1
      <4> HIDE DEF d
      <4>7. Total(item'[i].drawn) + item'[i].pending = Total(d) + quantity
        BY <1>1, <4>2, <4>4, <4>6
      <4> QED BY <3>3, <4>5, <4>6, <4>7
    <3> QED BY <3>2, <3>3
  <2> QED BY <1>1, <2>1 DEF ItemsFullyAllocated
<1>13. CostNearShare'
  <2>1. ASSUME NEW j \in Posted, NEW k \in Received'
        PROVE  WithinKobo(j, k, 2)' /\ (ReversedOnce => WithinKobo(j, k, 1)')
    <3>1. CASE k \in Received
      <4>1. k \in Lots /\ k # l /\ lot'[k] = lot[k]
        BY <1>2, <3>1
      <4>2. item'[j].drawn[k] = item[j].drawn[k] /\ item'[j].cost[k] = item[j].cost[k]
        BY <1>4, <4>1
      <4> QED BY <3>1, <4>1, <4>2 DEF CostNearShare, WithinKobo, Ledger
    <3>2. CASE k = l
      <4>1. item'[j].cost[k] * lot'[k].received - item'[j].drawn[k] * lot'[k].cost = 0
        <5>1. CASE j = i
          <6>1. kobo * quantity = quantity * kobo /\ kobo * quantity \in Int
            BY <1>1
          <6> QED BY <1>2, <1>4, <3>2, <5>1, <6>1
        <5>2. CASE j # i
          BY <1>1, <1>2, <1>4, <3>2, <5>2
        <5> QED BY <5>1, <5>2
      <4> QED BY <1>1, <1>2, <3>2, <4>1 DEF WithinKobo
    <3> QED BY <1>2, <3>1, <3>2
  <2> QED BY <1>1, <1>8, <2>1 DEF CostNearShare
<1>14. CostTelescopes'
  <2>1. ASSUME NEW k \in Received', \A j \in Posted : item'[j].drawn[k] >= 0
        PROVE  CostFrom(k)' = CostThrough(k, DrawnFrom(k))'
    <3>1. CASE k \in Received
      <4>1. k \in Lots /\ k # l /\ lot'[k] = lot[k]
        BY <1>2, <3>1
      <4>2. \A j \in Posted : item[j].drawn[k] >= 0
        BY <1>4, <2>1, <4>1
      <4>3. CostFrom(k) = CostThrough(k, DrawnFrom(k))
        BY <3>1, <4>2 DEF CostTelescopes, Ledger
      <4>4. DrawnFrom(k)' = DrawnFrom(k) /\ CostFrom(k)' = CostFrom(k)
        BY <1>7, <3>1
      <4> QED BY <4>1, <4>3, <4>4 DEF CostThrough
    <3>2. CASE k = l
      <4>1. Quotient(quantity * kobo, quantity) = kobo
        BY <1>1, QuotientExact
      <4>2. kobo * quantity = quantity * kobo
        BY <1>1
      <4> QED BY <1>2, <1>6, <3>2, <4>1, <4>2 DEF CostThrough
    <3> QED BY <1>2, <3>1, <3>2
  <2> QED BY <1>1, <2>1 DEF CostTelescopes
<1>15. GivenBackOnce'
  <2>1. ASSUME ReversedOnce, NEW k \in Received'
        PROVE  SumOver(Taken(k)', Standing) <= DrawnFrom(k)'
    <3>1. CASE k \in Received
      <4>1. k \in Lots /\ k # l
        BY <1>2, <3>1
      <4>2. \A j \in Standing : item'[j].drawn[k] = item[j].drawn[k]
        BY <1>4, <4>1 DEF Standing
      <4>3. Taken(k)' = Taken(k)
        BY <1>8, <4>2 DEF Taken
      <4>4. SumOver(Taken(k), Standing) <= DrawnFrom(k)
        BY <2>1, <3>1 DEF GivenBackOnce, Ledger
      <4> QED BY <1>7, <3>1, <4>3, <4>4
    <3>2. CASE k = l
      <4> DEFINE h == [j \in Posted |-> item'[j].drawn[l]]
                 t == [j \in Standing |-> IF item'[j].drawn[l] > 0 THEN item'[j].drawn[l] ELSE 0]
      <4>1. Standing \in SUBSET Posted /\ IsFiniteSet(Posted)
        BY DEF Standing, FiniteRows
      <4>2. \A j \in Posted : h[j] \in Nat
        BY <1>1, <1>4
      <4>3. \A j \in Standing : t[j] = h[j]
        BY <1>1, <1>4, <4>1
      <4>4. DrawnFrom(l)' = SumOver(h, Posted) /\ Taken(l)' = t
        BY <1>1, <1>8 DEF DrawnFrom, Taken
      <4> HIDE DEF h, t
      <4>5. SumOver(t, Standing) <= SumOver(h, Posted)
        BY <4>1, <4>2, <4>3, PartTaken
      <4> QED BY <3>2, <4>4, <4>5
    <3> QED BY <1>2, <3>1, <3>2
  <2> QED BY <1>8, <2>1 DEF GivenBackOnce
<1> QED BY <1>9, <1>10, <1>11, <1>12, <1>13, <1>14, <1>15 DEF Ledger

-----------------------------------------------------------------------------
(* The terms of the balance.                                                 *)

ReceivedNet == SumOver([l \in OfReceipts |-> lot[l].received * (1 - Undone(l))], OfReceipts)
SoldNet == SumOver(Quantity, Posted)
Corrected == SumOver([a \in Approved |-> adjustment[a].delta], Approved)

LEMMA BalanceTerms == BalanceIsLedger <=> balance = ReceivedNet - SoldNet + Corrected
BY DEF BalanceIsLedger, ReceivedNet, SoldNet, Corrected

LEMMA TermsTyped ==
    ASSUME TypeOK, FiniteRows
    PROVE  ReceivedNet \in Int /\ SoldNet \in Int /\ Corrected \in Int
<1>1. ReceivedNet \in Int
  <2> DEFINE f == [l \in OfReceipts |-> lot[l].received * (1 - Undone(l))]
  <2>1. ASSUME NEW l \in OfReceipts PROVE f[l] \in Int
    <3>1. lot[l].received \in Int
      BY DEF OfReceipts, Received, TypeOK, LotRow
    <3>2. Undone(l) \in Int
      BY UndoneType DEF OfReceipts, Received
    <3> QED BY <3>1, <3>2
  <2>2. IsFiniteSet(OfReceipts)
    BY FS_Subset DEF OfReceipts, FiniteRows
  <2> HIDE DEF f
  <2>3. SumOver(f, OfReceipts) \in Int
    BY ONLY <2>1, <2>2, SumType
  <2> QED BY <2>3 DEF ReceivedNet, f
<1>2. SoldNet \in Int
  <2>1. \A i \in Posted : Quantity[i] \in Int
    BY DEF Quantity, Posted, TypeOK, ItemRow
  <2>2. IsFiniteSet(Posted)
    BY DEF FiniteRows
  <2> QED BY <2>1, <2>2, SumType DEF SoldNet
<1>3. Corrected \in Int
  <2> DEFINE f == [a \in Approved |-> adjustment[a].delta]
  <2>1. \A a \in Approved : f[a] \in Int
    BY DEF Approved, TypeOK, AdjustmentRow
  <2>2. IsFiniteSet(Approved)
    BY DEF FiniteRows
  <2> HIDE DEF f
  <2>3. SumOver(f, Approved) \in Int
    BY ONLY <2>1, <2>2, SumType
  <2> QED BY <2>3 DEF Corrected, f
<1> QED BY <1>1, <1>2, <1>3

LEMMA ReceivedNetKept ==
    ASSUME OfReceipts' = OfReceipts, \A l \in OfReceipts : lot'[l].received = lot[l].received,
           undo' = undo
    PROVE  ReceivedNet' = ReceivedNet
<1>1. [l \in OfReceipts |-> lot'[l].received * (1 - Undone(l)')]
        = [l \in OfReceipts |-> lot[l].received * (1 - Undone(l))]
  BY DEF Undone
<1> QED BY <1>1 DEF ReceivedNet

LEMMA ReceivedNetGrows ==
    ASSUME TypeOK, FiniteRows, DrawnFromLots, ReadsStand, NEW l \in Lots,
           NEW received \in Nat \ {0}, NEW cost \in Nat,
           CreateStockLot(l, received, cost, "receipt"), undo' = undo
    PROVE  ReceivedNet' = ReceivedNet + received
<1> DEFINE f == [k \in OfReceipts |-> lot[k].received * (1 - Undone(k))]
           g == [k \in OfReceipts' |-> lot'[k].received * (1 - Undone(k)')]
<1>1. /\ l \notin Received /\ OfReceipts' = OfReceipts \cup {l} /\ lot'[l].received = received
      /\ \A k \in Lots : k # l => lot'[k] = lot[k]
  BY LotCreated
<1>2. l \notin OfReceipts /\ IsFiniteSet(OfReceipts) /\ \A k \in OfReceipts : k \in Lots /\ k # l
  BY <1>1, FS_Subset DEF OfReceipts, Received, FiniteRows
<1>3. Undone(l) = 0 /\ \A k \in Lots : Undone(k)' = Undone(k)
  BY <1>1, NotYetDrawn DEF Undone
<1>4. ASSUME NEW k \in OfReceipts PROVE f[k] \in Int /\ g[k] = f[k]
  <2>1. lot[k].received \in Int /\ Undone(k) \in Int
    BY <1>2, UndoneType DEF OfReceipts, Received, TypeOK, LotRow
  <2>2. f[k] \in Int
    BY <2>1
  <2>3. g[k] = f[k]
    BY <1>1, <1>2, <1>3
  <2> QED BY <2>2, <2>3
<1>5. g[l] = received /\ g[l] \in Int
  BY <1>1, <1>3
<1>6. ReceivedNet' = SumOver(g, OfReceipts') /\ ReceivedNet = SumOver(f, OfReceipts)
  BY DEF ReceivedNet
<1> HIDE DEF f, g
<1>7. \A k \in OfReceipts : f[k] \in Int
  BY <1>4
<1>8. \A k \in OfReceipts : g[k] = f[k]
  BY <1>4
<1>9. l \notin OfReceipts /\ IsFiniteSet(OfReceipts) /\ OfReceipts' = OfReceipts \cup {l}
  BY <1>1, <1>2
<1>10. g[l] \in Int
  BY <1>5
<1>11. IsFiniteSet(OfReceipts') /\ SumOver(g, OfReceipts') = SumOver(f, OfReceipts) + g[l]
  BY ONLY <1>7, <1>8, <1>9, <1>10, RowAdded
<1> QED BY <1>5, <1>6, <1>11

LEMMA ReceivedNetShrinks ==
    ASSUME TypeOK, FiniteRows, NEW l \in OfReceipts, OfReceipts' = OfReceipts,
           \A k \in OfReceipts : lot'[k].received = lot[k].received,
           Undone(l)' = Undone(l) + 1, \A k \in Lots : k # l => Undone(k)' = Undone(k)
    PROVE  ReceivedNet' = ReceivedNet - lot[l].received
<1> DEFINE f == [k \in OfReceipts |-> lot[k].received * (1 - Undone(k))]
           g == [k \in OfReceipts |-> lot'[k].received * (1 - Undone(k)')]
<1>1. IsFiniteSet(OfReceipts)
  BY FS_Subset DEF OfReceipts, FiniteRows
<1>2. \A k \in OfReceipts : /\ k \in Lots /\ lot[k].received \in Nat /\ Undone(k) \in Nat
                            /\ Undone(k)' \in Nat
  <2>1. \A k \in OfReceipts : k \in Lots /\ lot[k].received \in Nat
    BY DEF OfReceipts, Received, TypeOK, LotRow
  <2>2. \A k \in OfReceipts : Undone(k) \in Nat
    BY <2>1, UndoneType
  <2> QED BY <2>1, <2>2
<1>3. ASSUME NEW k \in OfReceipts
      PROVE  f[k] \in Int /\ g[k] \in Int /\ (k # l => g[k] = f[k])
  <2>1. f[k] \in Int /\ g[k] \in Int
    BY <1>2
  <2>2. k # l => g[k] = f[k]
    BY <1>2
  <2> QED BY <2>1, <2>2
<1>4. g[l] - f[l] = -lot[l].received
  <2> DEFINE r == lot[l].received
             n == Undone(l)
  <2>1. r \in Nat /\ n \in Nat /\ f[l] = r * (1 - n) /\ g[l] = r * (1 - (n + 1))
    BY <1>2
  <2> HIDE DEF f, g, r, n
  <2>2. r * (1 - n) = r - r * n /\ r * (1 - (n + 1)) = -(r * n)
    BY <2>1
  <2>3. r * n \in Int
    BY <2>1
  <2>4. g[l] - f[l] = -r
    BY <2>1, <2>2, <2>3
  <2> QED BY <2>4 DEF r
<1>5. ReceivedNet' = SumOver(g, OfReceipts) /\ ReceivedNet = SumOver(f, OfReceipts)
  BY DEF ReceivedNet
<1> HIDE DEF f, g
<1>6. \A k \in OfReceipts : f[k] \in Int /\ g[k] \in Int
  BY <1>3
<1>7. \A k \in OfReceipts : k # l => g[k] = f[k]
  BY <1>3
<1>8. SumOver(g, OfReceipts) = SumOver(f, OfReceipts) + (g[l] - f[l])
  BY <1>1, <1>6, <1>7, SumChange
<1>9. SumOver(f, OfReceipts) \in Int
  BY <1>1, <1>6, SumType
<1> QED BY <1>2, <1>4, <1>5, <1>8, <1>9

LEMMA CorrectedGrows ==
    ASSUME TypeOK, FiniteRows, NEW a \in Adjustments, ApproveInventoryAdjustmentRequest(a)
    PROVE  /\ Corrected' = Corrected + adjustment[a].delta
           /\ IsFiniteSet(Approved')
<1> DEFINE f == [x \in Approved |-> adjustment[x].delta]
           g == [x \in Approved' |-> adjustment'[x].delta]
<1>1. adjustment[a] # None /\ adjustment[a].status = "pending" /\ adjustment[a] \in AdjustmentRow
  BY DEF ApproveInventoryAdjustmentRequest, Pending, TypeOK
<1> DEFINE row == [adjustment[a] EXCEPT !.status = "approved"]
<1>2. row \in AdjustmentRow /\ row.status = "approved" /\ row.delta = adjustment[a].delta
  BY <1>1 DEF AdjustmentRow
<1>3. adjustment' = [adjustment EXCEPT ![a] = row]
  BY DEF ApproveInventoryAdjustmentRequest
<1> HIDE DEF row
<1>4. \A x \in Adjustments : adjustment'[x] = IF x = a THEN row ELSE adjustment[x]
  BY <1>3 DEF TypeOK
<1>5. a \notin Approved /\ Approved' = Approved \cup {a}
  BY <1>1, <1>2, <1>4, NoneAssumption DEF Approved
<1>6. /\ \A x \in Approved : f[x] \in Int
      /\ \A x \in Approved : g[x] = f[x]
      /\ g[a] = adjustment[a].delta /\ g[a] \in Int
  <2>1. \A x \in Approved : x \in Adjustments /\ x # a /\ adjustment[x].delta \in Int
    BY <1>5 DEF Approved, TypeOK, AdjustmentRow
  <2>2. adjustment[a].delta \in Int
    BY <1>1 DEF AdjustmentRow
  <2>3. g[a] = adjustment[a].delta
    BY <1>2, <1>4, <1>5
  <2> QED BY <1>4, <1>5, <2>1, <2>2, <2>3
<1>7. Corrected' = SumOver(g, Approved') /\ Corrected = SumOver(f, Approved)
  BY DEF Corrected
<1>8. IsFiniteSet(Approved) /\ a \notin Approved /\ Approved' = Approved \cup {a}
  BY <1>5 DEF FiniteRows
<1> HIDE DEF f, g
<1>9. \A x \in Approved : f[x] \in Int
  BY <1>6
<1>10. \A x \in Approved : g[x] = f[x]
  BY <1>6
<1>11. g[a] \in Int
  BY <1>6
<1>12. IsFiniteSet(Approved') /\ SumOver(g, Approved') = SumOver(f, Approved) + g[a]
  BY ONLY <1>8, <1>9, <1>10, <1>11, RowAdded
<1> QED BY <1>6, <1>7, <1>12

LEMMA CorrectedKept ==
    ASSUME Approved' = Approved, \A a \in Approved : adjustment'[a].delta = adjustment[a].delta
    PROVE  Corrected' = Corrected
<1>1. [a \in Approved |-> adjustment'[a].delta] = [a \in Approved |-> adjustment[a].delta]
  OBVIOUS
<1> QED BY <1>1 DEF Corrected

-----------------------------------------------------------------------------
(* Every step keeps the invariant.                                           *)

\* Nothing about the lots and the items changes.
LEMMA LedgerKept ==
    ASSUME Ledger, lot' = lot, item' = item, undo' = undo
    PROVE  Ledger' /\ Received' = Received /\ OfReceipts' = OfReceipts /\ Posted' = Posted
<1>1. Received' = Received /\ OfReceipts' = OfReceipts /\ Posted' = Posted
  BY DEF Received, OfReceipts, Posted
<1>2. Standing' = Standing /\ ReversedOnce' = ReversedOnce
  BY ItemsKept
<1>3. \A l : /\ DrawnFrom(l)' = DrawnFrom(l) /\ CostFrom(l)' = CostFrom(l)
             /\ Undone(l)' = Undone(l) /\ Taken(l)' = Taken(l)
  BY <1>1, <1>2 DEF DrawnFrom, CostFrom, Undone, Taken
<1>4. DrawnFromLots' /\ BillsStand' /\ ItemsFullyAllocated'
  BY <1>1 DEF DrawnFromLots, BillsStand, ItemsFullyAllocated, Ledger
<1>5. LotsAccountedFor'
  BY <1>1, <1>3 DEF LotsAccountedFor, Ledger
<1>6. CostNearShare'
  BY <1>1, <1>2 DEF CostNearShare, WithinKobo, Ledger
<1>7. CostTelescopes'
  BY <1>1, <1>3 DEF CostTelescopes, CostThrough, Ledger
<1>8. GivenBackOnce'
  BY <1>1, <1>2, <1>3 DEF GivenBackOnce, Ledger
<1> QED BY <1>1, <1>4, <1>5, <1>6, <1>7, <1>8 DEF Ledger

\* A movement ends what devices believe, and leaves what they counted.
LEMMA MovementKeeps ==
    ASSUME IInv, CreateInventoryMovement, belief' = belief, count' = count, adjustment' = adjustment
    PROVE  /\ movements' \in Nat /\ BeliefsStand' /\ CorrectionsStand'
           /\ Approved' = Approved /\ Corrected' = Corrected
<1>1. movements \in Nat /\ movements' = movements + 1
  BY DEF IInv, TypeOK, CreateInventoryMovement
<1>2. \A c \in Counts : belief[c] # None => belief[c].at \in Nat /\ belief[c].at <= movements
  BY DEF IInv, TypeOK, Belief, BeliefsStand
<1>3. BeliefsStand'
  BY <1>1, <1>2 DEF BeliefsStand
<1>4. CorrectionsStand'
  BY DEF IInv, CorrectionsStand
<1>5. Approved' = Approved
  BY DEF Approved
<1>6. Corrected' = Corrected
  BY <1>5, CorrectedKept
<1> QED BY <1>1, <1>3, <1>4, <1>5, <1>6

\* What opening or resolving one review leaves of the others.
LEMMA ReviewChanged ==
    ASSUME IInv, NEW x \in Items \cup Adjustments \cup Counts, NEW s \in {"open", "resolved"},
           review' = [review EXCEPT ![x] = s]
    PROVE  /\ review' \in [Items \cup Adjustments \cup Counts -> {"none", "open", "resolved"}]
           /\ \A i \in Items : i # x => review'[i] = review[i]
BY DEF IInv, TypeOK

LEMMA ReviewOpened ==
    ASSUME IInv, NEW x \in Items \cup Adjustments \cup Counts, OpenReviewIfNegative(x)
    PROVE  /\ review' \in [Items \cup Adjustments \cup Counts -> {"none", "open", "resolved"}]
           /\ \A i \in Items : i # x => review'[i] = review[i]
<1>1. CASE review' = review
  BY <1>1 DEF IInv, TypeOK
<1>2. CASE review' = [review EXCEPT ![x] = "open"]
  BY <1>2, ReviewChanged
<1> QED BY <1>1, <1>2 DEF OpenReviewIfNegative, CreateInventoryReview

LEMMA ReceiveStep ==
    ASSUME IInv, NEW l \in Lots, NEW line \in ReceiptLines, ReceiveStock(l, line)
    PROVE  IInv'
<1>1. line.qty \in Nat \ {0} /\ line.cost \in Nat
  <2>1. line.qty \in Numbers /\ line.cost \in Costs /\ line.qty > 0 /\ line.cost >= 0
    BY DEF ReceiptLines
  <2>2. line.qty \in Int /\ line.cost \in Int
    BY ONLY <2>1, NumbersAssumption
  <2> QED BY ONLY <2>1, <2>2
<1>2. /\ CreateStockLot(l, line.qty, line.cost, "receipt")
      /\ CreateInventoryMovement /\ balance' = balance + line.qty
      /\ undo' = undo /\ item' = item /\ belief' = belief /\ count' = count
      /\ adjustment' = adjustment /\ review' = review /\ reversing' = reversing
  BY DEF ReceiveStock, PostMovement, UpsertInventoryBalanceDelta
<1>3. TypeOK /\ FiniteRows /\ ReadsStand /\ Ledger /\ DrawnFromLots
  BY DEF IInv, Ledger
<1>4. /\ lot' \in [Lots -> LotRow \cup {None}]
      /\ Received' = Received \cup {l} /\ OfReceipts' = OfReceipts \cup {l}
  BY <1>1, <1>2, <1>3, LotCreated
<1>5. Posted' = Posted
  BY <1>2 DEF Posted
<1>6. /\ movements' \in Nat /\ BeliefsStand' /\ CorrectionsStand'
      /\ Approved' = Approved /\ Corrected' = Corrected
  BY <1>2, MovementKeeps
<1>7. TypeOK'
  BY <1>1, <1>2, <1>3, <1>4, <1>6 DEF TypeOK
<1>8. FiniteRows'
  <2>1. IsFiniteSet(Received \cup {l})
    BY <1>3, FS_AddElement DEF FiniteRows
  <2> QED BY <1>2, <1>3, <1>4, <1>5, <1>6, <2>1 DEF FiniteRows
<1>9. ReadsStand'
  BY <1>2, <1>3, <1>4, <1>5 DEF ReadsStand
<1>10. Ledger'
  BY <1>1, <1>2, <1>3, ReceivedLedger
<1>11. BalanceIsLedger'
  <2>1. ReceivedNet' = ReceivedNet + line.qty
    BY <1>1, <1>2, <1>3, ReceivedNetGrows
  <2>2. SoldNet' = SoldNet
    BY <1>2, <1>5 DEF SoldNet, Quantity
  <2>3. balance = ReceivedNet - SoldNet + Corrected
    BY BalanceTerms DEF IInv
  <2>4. ReceivedNet \in Int /\ SoldNet \in Int /\ Corrected \in Int
    BY <1>3, TermsTyped
  <2>5. balance' = ReceivedNet' - SoldNet' + Corrected'
    BY <1>1, <1>2, <1>6, <2>1, <2>2, <2>3, <2>4
  <2> QED BY <2>5 DEF BalanceIsLedger, ReceivedNet, SoldNet, Corrected
<1>12. ReviewsStand'
  BY <1>2, <1>5 DEF ReviewsStand, IInv
<1> QED BY <1>6, <1>7, <1>8, <1>9, <1>10, <1>11, <1>12 DEF IInv

\* Sales, removals and reversals.
LEMMA ItemStep ==
    ASSUME IInv, NEW i \in Items, NEW b \in Items, NEW qty \in Int, NEW original \in Items \cup {None},
           NEW a \in Allocations, Posts(i, b, qty, original, a), Fits(i, b, qty, original, a),
           CreateInventoryMovement, balance' = balance - qty,
           belief' = belief, count' = count, adjustment' = adjustment,
           review' = review \/ OpenReviewIfNegative(i),
           reversing' \in [Txs -> Lots \cup Items \cup {None}],
           \A w \in Txs : reversing'[w] = reversing[w] \/ reversing'[w] = None
    PROVE  IInv'
<1>1. TypeOK /\ FiniteRows /\ ReadsStand /\ Ledger
  BY DEF IInv
<1>2. /\ i \notin Posted /\ Posted' = Posted \cup {i}
      /\ Received' = Received /\ OfReceipts' = OfReceipts
      /\ \A j \in Posted : j # i /\ item'[j] = item[j]
      /\ a.drawn \in [Lots -> Int]
  BY <1>1, PostedRows
<1>3. item' \in [Items -> ItemRow \cup {None}]
  BY <1>1, ItemCreated DEF Posts
<1>4. /\ lot' \in [Lots -> LotRow \cup {None}]
      /\ \A l \in Received : lot'[l].received = lot[l].received
  BY <1>1, <1>2, LotsMoved DEF Posts
<1>5. /\ movements' \in Nat /\ BeliefsStand' /\ CorrectionsStand'
      /\ Approved' = Approved /\ Corrected' = Corrected
  BY MovementKeeps
<1>6. /\ review' \in [Items \cup Adjustments \cup Counts -> {"none", "open", "resolved"}]
      /\ \A j \in Items : j # i => review'[j] = review[j]
  <2>1. CASE review' = review
    BY <1>1, <2>1 DEF TypeOK
  <2>2. CASE OpenReviewIfNegative(i)
    <3>1. i \in Items \cup Adjustments \cup Counts
      OBVIOUS
    <3> QED BY ONLY IInv, <2>2, <3>1, ReviewOpened
  <2> QED BY <2>1, <2>2
<1>7. undo' = undo
  BY DEF Posts
<1>8. TypeOK'
  BY <1>1, <1>3, <1>4, <1>5, <1>6, <1>7 DEF TypeOK
<1>9. /\ IsFiniteSet(Posted') /\ SoldNet' = SoldNet + qty
  BY <1>1, ItemSummed DEF Posts, SoldNet
<1>10. FiniteRows'
  BY <1>1, <1>2, <1>5, <1>7, <1>9 DEF FiniteRows
<1>11. ReadsStand'
  <2>1. ASSUME NEW w \in Txs
        PROVE  /\ reversing'[w] \in Items =>
                      reversing'[w] \in Posted' /\ item'[reversing'[w]].bill = reversing'[w]
               /\ reversing'[w] \in Lots => reversing'[w] \in OfReceipts'
    <3>1. CASE reversing'[w] = None
      BY <3>1, NoneAssumption
    <3>2. CASE reversing'[w] = reversing[w]
      BY <1>1, <1>2, <3>2 DEF ReadsStand
    <3> QED BY <3>1, <3>2
  <2>2. \A u \in Undos : undo'[u] # None => undo'[u] \in OfReceipts'
    BY <1>1, <1>2, <1>7 DEF ReadsStand
  <2> QED BY <2>1, <2>2 DEF ReadsStand
<1>12. Ledger'
  BY <1>1, PostedLedger
<1>13. BalanceIsLedger'
  <2>1. ReceivedNet' = ReceivedNet
    BY <1>2, <1>4, <1>7, ReceivedNetKept DEF OfReceipts
  <2>2. balance = ReceivedNet - SoldNet + Corrected
    BY BalanceTerms DEF IInv
  <2>3. ReceivedNet \in Int /\ SoldNet \in Int /\ Corrected \in Int
    BY <1>1, TermsTyped
  <2>4. balance' = ReceivedNet' - SoldNet' + Corrected'
    BY <1>5, <1>9, <2>1, <2>2, <2>3
  <2> QED BY <2>4 DEF BalanceIsLedger, ReceivedNet, SoldNet, Corrected
<1>14. ReviewsStand'
  BY <1>2, <1>6 DEF ReviewsStand, IInv
<1> QED BY <1>5, <1>8, <1>10, <1>11, <1>12, <1>13, <1>14 DEF IInv

LEMMA SellStep ==
    ASSUME IInv, NEW i \in Items, NEW b \in Items, NEW qty \in SaleQuantities, SellItem(i, b, qty)
    PROVE  IInv'
<1>1. PICK a \in Allocations : Posts(i, b, qty, None, a) /\ Fits(i, b, qty, None, a)
  BY SellFits DEF IInv
<1>2. qty \in Int /\ balance \in Int
  BY NumbersAssumption DEF SaleQuantities, IInv, TypeOK
<1>3. /\ CreateInventoryMovement /\ balance' = balance - qty
      /\ belief' = belief /\ count' = count /\ adjustment' = adjustment
      /\ OpenReviewIfNegative(i) /\ reversing' = reversing
  BY <1>2 DEF SellItem, PostMovement, UpsertInventoryBalanceDelta
<1>4. /\ reversing' \in [Txs -> Lots \cup Items \cup {None}]
      /\ \A w \in Txs : reversing'[w] = reversing[w] \/ reversing'[w] = None
  BY <1>3 DEF IInv, TypeOK
<1> QED BY <1>1, <1>2, <1>3, <1>4, ItemStep

LEMMA RemoveStep ==
    ASSUME IInv, NEW i \in Items, NEW b \in Items, NEW qty \in SaleQuantities, RemoveItem(i, b, qty)
    PROVE  IInv'
<1>1. /\ NoAllocations \in Allocations /\ Posts(i, b, -qty, None, NoAllocations)
      /\ Fits(i, b, -qty, None, NoAllocations)
  BY RemoveFits DEF IInv
<1>2. qty \in Int /\ -qty \in Int /\ balance \in Int
  BY NumbersAssumption DEF SaleQuantities, IInv, TypeOK
<1>3. /\ CreateInventoryMovement /\ balance' = balance - (-qty)
      /\ belief' = belief /\ count' = count /\ adjustment' = adjustment
      /\ OpenReviewIfNegative(i) /\ reversing' = reversing
  BY <1>2 DEF RemoveItem, PostMovement, UpsertInventoryBalanceDelta
<1>4. /\ reversing' \in [Txs -> Lots \cup Items \cup {None}]
      /\ \A w \in Txs : reversing'[w] = reversing[w] \/ reversing'[w] = None
  BY <1>3 DEF IInv, TypeOK
<1> QED BY <1>1, <1>2, <1>3, <1>4, ItemStep

LEMMA ReverseSaleStep ==
    ASSUME IInv, NEW w \in Txs, NEW i \in Items, ReverseSaleWrite(w, i)
    PROVE  IInv'
<1> DEFINE original == reversing[w]
           qty == -item[original].qty
<1>1. /\ original \in Posted /\ item[original].qty \in Int
      /\ ReverseSaleItemLots(original) \in Allocations
      /\ Posts(i, i, qty, original, ReverseSaleItemLots(original))
      /\ Fits(i, i, qty, original, ReverseSaleItemLots(original))
  BY ReverseFits DEF IInv, Ledger
<1>2. qty \in Int /\ balance \in Int /\ original \in Items \cup {None}
  BY <1>1 DEF IInv, TypeOK, Posted
<1>3. /\ CreateInventoryMovement /\ balance' = balance - qty
      /\ belief' = belief /\ count' = count /\ adjustment' = adjustment
      /\ review' = review /\ reversing' = [reversing EXCEPT ![w] = None]
  BY <1>1, <1>2 DEF ReverseSaleWrite, PostMovement, UpsertInventoryBalanceDelta
<1>4. /\ reversing' \in [Txs -> Lots \cup Items \cup {None}]
      /\ \A v \in Txs : reversing'[v] = reversing[v] \/ reversing'[v] = None
  BY <1>3 DEF IInv, TypeOK
<1> HIDE DEF original, qty
<1> QED BY <1>1, <1>2, <1>3, <1>4, ItemStep

LEMMA UndoStep ==
    ASSUME IInv, NEW w \in Txs, NEW u \in Undos, ReverseStockReceiptWrite(w, u)
    PROVE  IInv'
<1>1. TypeOK /\ FiniteRows /\ ReadsStand /\ Ledger
  BY DEF IInv
<1>2. PICK l \in Lots : l = reversing[w] /\ l \in OfReceipts /\ l \in Received
  BY <1>1 DEF ReverseStockReceiptWrite, ReadsStand, OfReceipts
<1>3. /\ CreateReversalStockReceipt(u, l)
      /\ lot' = [lot EXCEPT ![l].remaining = @ - lot[l].received]
      /\ CreateInventoryMovement /\ balance' = balance + (-lot[l].received)
      /\ item' = item /\ belief' = belief /\ count' = count /\ adjustment' = adjustment
      /\ review' = review /\ reversing' = [reversing EXCEPT ![w] = None]
  BY <1>2 DEF ReverseStockReceiptWrite, PostMovement, UpsertInventoryBalanceDelta
<1>4. /\ lot' \in [Lots -> LotRow \cup {None}] /\ undo' \in [Undos -> Lots \cup {None}]
      /\ Received' = Received /\ OfReceipts' = OfReceipts
      /\ \A k \in Received : lot'[k].received = lot[k].received
      /\ \A v \in Undos : undo'[v] = IF v = u THEN l ELSE undo[v]
      /\ Undone(l)' = Undone(l) + 1 /\ \A k \in Lots : k # l => Undone(k)' = Undone(k)
      /\ Ledger'
  BY <1>1, <1>2, <1>3, UndoneLedger
<1>5. /\ movements' \in Nat /\ BeliefsStand' /\ CorrectionsStand'
      /\ Approved' = Approved /\ Corrected' = Corrected
  BY <1>3, MovementKeeps
<1>6. lot[l].received \in Int /\ balance \in Int
  BY <1>1, <1>2 DEF TypeOK, LotRow, Received
<1>7. /\ reversing' \in [Txs -> Lots \cup Items \cup {None}]
      /\ \A v \in Txs : reversing'[v] = reversing[v] \/ reversing'[v] = None
  BY <1>1, <1>3 DEF TypeOK
<1>8. Posted' = Posted
  BY <1>3 DEF Posted
<1>9. TypeOK'
  BY <1>1, <1>3, <1>4, <1>5, <1>6, <1>7 DEF TypeOK
<1>10. FiniteRows'
  <2> DEFINE S == {v \in Undos : undo[v] # None}
  <2>1. {v \in Undos : undo'[v] # None} \in SUBSET (S \cup {u})
    BY <1>4
  <2>2. IsFiniteSet(S \cup {u})
    BY <1>1, FS_AddElement DEF FiniteRows
  <2>3. IsFiniteSet({v \in Undos : undo'[v] # None})
    BY <2>1, <2>2, FS_Subset
  <2> QED BY <1>1, <1>4, <1>5, <1>8, <2>3 DEF FiniteRows
<1>11. ReadsStand'
  <2>1. ASSUME NEW v \in Txs
        PROVE  /\ reversing'[v] \in Items =>
                      reversing'[v] \in Posted' /\ item'[reversing'[v]].bill = reversing'[v]
               /\ reversing'[v] \in Lots => reversing'[v] \in OfReceipts'
    <3>1. CASE reversing'[v] = None
      BY <3>1, NoneAssumption
    <3>2. CASE reversing'[v] = reversing[v]
      BY <1>1, <1>3, <1>4, <1>8, <3>2 DEF ReadsStand
    <3> QED BY <1>7, <3>1, <3>2
  <2>2. \A v \in Undos : undo'[v] # None => undo'[v] \in OfReceipts'
    BY <1>1, <1>2, <1>4 DEF ReadsStand
  <2> QED BY <2>1, <2>2 DEF ReadsStand
<1>12. BalanceIsLedger'
  <2>1. ReceivedNet' = ReceivedNet - lot[l].received
    BY <1>1, <1>2, <1>4, ReceivedNetShrinks DEF OfReceipts
  <2>2. SoldNet' = SoldNet
    BY <1>3, <1>8 DEF SoldNet, Quantity
  <2>3. balance = ReceivedNet - SoldNet + Corrected
    BY BalanceTerms DEF IInv
  <2>4. ReceivedNet \in Int /\ SoldNet \in Int /\ Corrected \in Int
    BY <1>1, TermsTyped
  <2>5. balance' = ReceivedNet' - SoldNet' + Corrected'
    BY <1>3, <1>5, <1>6, <2>1, <2>2, <2>3, <2>4
  <2> QED BY <2>5 DEF BalanceIsLedger, ReceivedNet, SoldNet, Corrected
<1>13. ReviewsStand'
  BY <1>3, <1>8 DEF ReviewsStand, IInv
<1> QED BY <1>4, <1>5, <1>9, <1>10, <1>11, <1>12, <1>13 DEF IInv

LEMMA BalanceKept ==
    ASSUME BalanceIsLedger, OfReceipts' = OfReceipts,
           \A l \in OfReceipts : lot'[l].received = lot[l].received, undo' = undo,
           SoldNet' = SoldNet, Corrected' = Corrected, balance' = balance
    PROVE  BalanceIsLedger'
<1>1. ReceivedNet' = ReceivedNet
  BY ReceivedNetKept
<1>2. balance = ReceivedNet - SoldNet + Corrected
  BY BalanceTerms
<1>3. balance' = ReceivedNet' - SoldNet' + Corrected'
  BY <1>1, <1>2
<1> QED BY <1>3 DEF BalanceIsLedger, ReceivedNet, SoldNet, Corrected

\* Only what a reversal has read changes.
LEMMA ReadStep ==
    ASSUME IInv, UNCHANGED tables, reversing' \in [Txs -> Lots \cup Items \cup {None}],
           \A w \in Txs : /\ reversing'[w] \in Items =>
                                reversing'[w] \in Posted /\ item[reversing'[w]].bill = reversing'[w]
                          /\ reversing'[w] \in Lots => reversing'[w] \in OfReceipts
    PROVE  IInv'
<1>1. /\ lot' = lot /\ undo' = undo /\ item' = item /\ balance' = balance
      /\ movements' = movements /\ belief' = belief /\ count' = count
      /\ adjustment' = adjustment /\ review' = review
  BY DEF tables
<1>2. Ledger' /\ Received' = Received /\ OfReceipts' = OfReceipts /\ Posted' = Posted
  BY <1>1, LedgerKept DEF IInv
<1>3. Approved' = Approved /\ Corrected' = Corrected /\ SoldNet' = SoldNet
  BY <1>1, <1>2 DEF Approved, Corrected, SoldNet, Quantity
<1>4. TypeOK'
  BY <1>1 DEF IInv, TypeOK
<1>5. FiniteRows'
  BY <1>1, <1>2, <1>3 DEF IInv, FiniteRows
<1>6. ReadsStand'
  BY <1>1, <1>2 DEF IInv, ReadsStand
<1>7. BalanceIsLedger'
  BY <1>1, <1>2, <1>3, BalanceKept DEF IInv
<1>8. BeliefsStand' /\ CorrectionsStand'
  BY <1>1 DEF IInv, BeliefsStand, CorrectionsStand
<1>9. ReviewsStand'
  BY <1>1, <1>2 DEF IInv, ReviewsStand
<1> QED BY <1>2, <1>4, <1>5, <1>6, <1>7, <1>8, <1>9 DEF IInv

LEMMA ReadSaleStep ==
    ASSUME IInv, NEW w \in Txs, NEW i \in Items, ReverseSaleRead(w, i)
    PROVE  IInv'
<1>1. /\ UNCHANGED tables /\ reversing' = [reversing EXCEPT ![w] = i]
      /\ i \in Posted /\ i \notin Lots
  BY RowsAssumption DEF ReverseSaleRead, Posted
<1>2. item[i].bill = i
  <2>1. item[i].bill \in Posted /\ item[item[i].bill].bill = item[i].bill
    BY <1>1 DEF IInv, Ledger, BillsStand
  <2> QED BY <2>1 DEF ReverseSaleRead, BillIsShared, Posted
<1>3. reversing' \in [Txs -> Lots \cup Items \cup {None}]
  BY <1>1 DEF IInv, TypeOK
<1>4. \A v \in Txs : reversing'[v] = IF v = w THEN i ELSE reversing[v]
  BY <1>1 DEF IInv, TypeOK
<1>5. \A v \in Txs : /\ reversing'[v] \in Items =>
                           reversing'[v] \in Posted /\ item[reversing'[v]].bill = reversing'[v]
                     /\ reversing'[v] \in Lots => reversing'[v] \in OfReceipts
  BY <1>1, <1>2, <1>4 DEF IInv, ReadsStand
<1> QED BY <1>1, <1>3, <1>5, ReadStep

LEMMA ReadReceiptStep ==
    ASSUME IInv, NEW w \in Txs, NEW l \in Lots, ReverseStockReceiptRead(w, l)
    PROVE  IInv'
<1>1. /\ UNCHANGED tables /\ reversing' = [reversing EXCEPT ![w] = l]
      /\ l \in OfReceipts /\ l \notin Items
  BY RowsAssumption
     DEF ReverseStockReceiptRead, ListStockLotsByReceiptLineIDs, OfReceipts, Received
<1>2. reversing' \in [Txs -> Lots \cup Items \cup {None}]
  BY <1>1 DEF IInv, TypeOK
<1>3. \A v \in Txs : reversing'[v] = IF v = w THEN l ELSE reversing[v]
  BY <1>1 DEF IInv, TypeOK
<1>4. \A v \in Txs : /\ reversing'[v] \in Items =>
                           reversing'[v] \in Posted /\ item[reversing'[v]].bill = reversing'[v]
                     /\ reversing'[v] \in Lots => reversing'[v] \in OfReceipts
  BY <1>1, <1>3 DEF IInv, ReadsStand
<1> QED BY <1>1, <1>2, <1>4, ReadStep

LEMMA RollbackStep ==
    ASSUME IInv, NEW w \in Txs, Rollback(w)
    PROVE  IInv'
<1>1. UNCHANGED tables /\ reversing' = [reversing EXCEPT ![w] = None]
  BY DEF Rollback
<1>2. reversing' \in [Txs -> Lots \cup Items \cup {None}]
  BY <1>1 DEF IInv, TypeOK
<1>3. \A v \in Txs : reversing'[v] = IF v = w THEN None ELSE reversing[v]
  BY <1>1 DEF IInv, TypeOK
<1>4. \A v \in Txs : /\ reversing'[v] \in Items =>
                           reversing'[v] \in Posted /\ item[reversing'[v]].bill = reversing'[v]
                     /\ reversing'[v] \in Lots => reversing'[v] \in OfReceipts
  BY <1>3, NoneAssumption DEF IInv, ReadsStand
<1> QED BY <1>1, <1>2, <1>4, ReadStep

\* Lots, items, receipts and the balance stay; no adjustment is decided.
LEMMA CountingStep ==
    ASSUME IInv, lot' = lot, undo' = undo, item' = item, balance' = balance, reversing' = reversing,
           movements' = movements, Approved' = Approved,
           \A a \in Approved : adjustment'[a].delta = adjustment[a].delta,
           belief' \in [Counts -> Belief \cup {None}], count' \in [Counts -> CountRow \cup {None}],
           adjustment' \in [Adjustments -> AdjustmentRow \cup {None}],
           review' \in [Items \cup Adjustments \cup Counts -> {"none", "open", "resolved"}],
           \A i \in Items : review'[i] = review[i] \/ i \in Posted,
           BeliefsStand', CorrectionsStand'
    PROVE  IInv'
<1>1. Ledger' /\ Received' = Received /\ OfReceipts' = OfReceipts /\ Posted' = Posted
  BY LedgerKept DEF IInv
<1>2. Corrected' = Corrected
  BY CorrectedKept
<1>3. SoldNet' = SoldNet
  BY <1>1 DEF SoldNet, Quantity
<1>4. TypeOK'
  BY DEF IInv, TypeOK
<1>5. FiniteRows'
  BY <1>1 DEF IInv, FiniteRows
<1>6. ReadsStand'
  BY <1>1 DEF IInv, ReadsStand
<1>7. BalanceIsLedger'
  BY <1>1, <1>2, <1>3, BalanceKept DEF IInv
<1>8. ReviewsStand'
  BY <1>1 DEF IInv, ReviewsStand
<1> QED BY <1>1, <1>4, <1>5, <1>6, <1>7, <1>8 DEF IInv

LEMMA FormBeliefStep ==
    ASSUME IInv, NEW c \in Counts, FormBelief(c)
    PROVE  IInv'
<1> DEFINE row == [expected |-> balance, at |-> movements]
<1>1. /\ belief[c] = None /\ belief' = [belief EXCEPT ![c] = row]
      /\ lot' = lot /\ undo' = undo /\ item' = item /\ balance' = balance /\ reversing' = reversing
      /\ movements' = movements /\ count' = count /\ adjustment' = adjustment /\ review' = review
  BY DEF FormBelief, GetInventoryBalance
<1>2. row \in Belief /\ row # None /\ row.expected = balance /\ row.at = movements
  <2>1. row \in Belief
    BY DEF IInv, TypeOK, Belief
  <2> QED BY <2>1, NoneAssumption
<1> HIDE DEF row
<1>3. \A d \in Counts : belief'[d] = IF d = c THEN row ELSE belief[d]
  BY <1>1 DEF IInv, TypeOK
<1>4. belief' \in [Counts -> Belief \cup {None}]
  BY <1>1, <1>2 DEF IInv, TypeOK
<1>5. BeliefsStand'
  <2>1. movements \in Nat
    BY DEF IInv, TypeOK
  <2>2. ASSUME NEW d \in Counts, belief'[d] # None
        PROVE  /\ belief'[d].at <= movements'
               /\ belief'[d].at = movements' => balance' = belief'[d].expected
    <3>1. CASE d = c
      BY <1>1, <1>2, <1>3, <2>1, <3>1
    <3>2. CASE d # c
      BY <1>1, <1>3, <2>2, <3>2 DEF IInv, BeliefsStand
    <3> QED BY <3>1, <3>2
  <2> QED BY <2>2 DEF BeliefsStand
<1>6. CorrectionsStand'
  <2>1. ASSUME NEW a \in Adjustments, adjustment[a] # None, adjustment[a].source # None
        PROVE  adjustment[a].source \in Counts /\ adjustment[a].source # c
    BY <1>1, <2>1 DEF IInv, TypeOK, AdjustmentRow, CorrectionsStand
  <2> QED BY <1>1, <1>3, <2>1 DEF IInv, CorrectionsStand
<1>7. Approved' = Approved /\ \A a \in Approved : adjustment'[a].delta = adjustment[a].delta
  BY <1>1 DEF Approved
<1>8. /\ count' \in [Counts -> CountRow \cup {None}]
      /\ adjustment' \in [Adjustments -> AdjustmentRow \cup {None}]
      /\ review' \in [Items \cup Adjustments \cup Counts -> {"none", "open", "resolved"}]
      /\ \A i \in Items : review'[i] = review[i]
  BY <1>1 DEF IInv, TypeOK
<1> QED BY <1>1, <1>4, <1>5, <1>6, <1>7, <1>8, CountingStep

\* A request that is new and pending.
LEMMA AdjustmentRequested ==
    ASSUME IInv, NEW a \in Adjustments, NEW delta \in Int, NEW source \in Counts \cup {None},
           CreateInventoryAdjustmentRequest(a, delta, source)
    PROVE  /\ adjustment' \in [Adjustments -> AdjustmentRow \cup {None}]
           /\ \A b \in Adjustments : b # a => adjustment'[b] = adjustment[b]
           /\ adjustment'[a].delta = delta /\ adjustment'[a].source = source
           /\ Approved' = Approved
           /\ \A b \in Approved : adjustment'[b].delta = adjustment[b].delta
<1> DEFINE row == [delta |-> delta, source |-> source, status |-> "pending"]
<1>1. row \in AdjustmentRow /\ row.delta = delta /\ row.source = source /\ row.status = "pending"
  BY DEF AdjustmentRow
<1>2. adjustment[a] = None /\ adjustment' = [adjustment EXCEPT ![a] = row]
  BY DEF CreateInventoryAdjustmentRequest
<1> HIDE DEF row
<1>3. /\ adjustment' \in [Adjustments -> AdjustmentRow \cup {None}]
      /\ \A b \in Adjustments : adjustment'[b] = IF b = a THEN row ELSE adjustment[b]
  BY <1>1, <1>2 DEF IInv, TypeOK
<1>4. a \notin Approved /\ Approved' = Approved
  BY <1>1, <1>2, <1>3 DEF Approved
<1> QED BY <1>1, <1>3, <1>4 DEF Approved

LEMMA SubmitStep ==
    ASSUME IInv, NEW c \in Counts, NEW physical \in Numbers, NEW a \in Adjustments,
           SubmitStockCount(c, physical, a)
    PROVE  IInv'
<1> DEFINE expected == belief[c].expected
           stale == GetInventoryBalance # expected
           row == [expected |-> expected, physical |-> physical, stale |-> stale]
<1>1. /\ belief[c] # None /\ count[c] = None
      /\ [expected |-> expected, physical |-> physical] \in CountLines
      /\ count' = [count EXCEPT ![c] = row]
      /\ \/ review' = [review EXCEPT ![c] = "open"]
         \/ review' = review
      /\ \/ adjustment' = adjustment
         \/ CreateInventoryAdjustmentRequest(a, physical - expected, c)
      /\ lot' = lot /\ undo' = undo /\ item' = item /\ balance' = balance /\ reversing' = reversing
      /\ movements' = movements /\ belief' = belief
  BY DEF SubmitStockCount, GetStockCountByIdempotencyKey, CreateStockCountLine, CreateInventoryReview
<1>2. expected \in Nat /\ physical \in Nat
  <2>1. \A l \in CountLines : l.expected \in Int /\ l.expected >= 0 /\ l.physical \in Numbers /\ l.physical >= 0
    BY DEF CountLines
  <2>2. expected \in Int /\ expected >= 0 /\ physical \in Numbers /\ physical >= 0
    BY <1>1, <2>1
  <2>3. physical \in Int
    BY ONLY <2>2, NumbersAssumption
  <2> QED BY ONLY <2>2, <2>3
<1>3. /\ row \in CountRow /\ row.expected = expected /\ row.physical = physical /\ row # None
  <2>1. row \in CountRow
    BY <1>2 DEF CountRow
  <2> QED BY <2>1, NoneAssumption
<1> HIDE DEF row
<1>4. /\ count' \in [Counts -> CountRow \cup {None}]
      /\ \A d \in Counts : count'[d] = IF d = c THEN row ELSE count[d]
  BY <1>1, <1>3 DEF IInv, TypeOK
<1>5. /\ review' \in [Items \cup Adjustments \cup Counts -> {"none", "open", "resolved"}]
      /\ \A i \in Items : review'[i] = review[i]
  <2>1. c \in Items \cup Adjustments \cup Counts /\ c \notin Items
    BY RowsAssumption
  <2> QED BY <1>1, <2>1 DEF IInv, TypeOK
<1>6. c \in Counts \cup {None} /\ c # None /\ physical - expected \in Int
  BY <1>2, NoneAssumption
<1>7. /\ adjustment' \in [Adjustments -> AdjustmentRow \cup {None}]
      /\ Approved' = Approved
      /\ \A b \in Approved : adjustment'[b].delta = adjustment[b].delta
      /\ \A b \in Adjustments : \/ adjustment'[b] = adjustment[b]
                                \/ /\ adjustment'[b].source = c
                                   /\ adjustment'[b].delta = physical - expected
  <2>1. CASE adjustment' = adjustment
    BY <2>1 DEF IInv, TypeOK, Approved
  <2>2. CASE CreateInventoryAdjustmentRequest(a, physical - expected, c)
    <3> DEFINE delta == physical - expected
    <3>0. PICK n \in Int : n = delta
      BY <1>6
    <3>1. CreateInventoryAdjustmentRequest(a, n, c) /\ c \in Counts \cup {None}
      BY <1>6, <2>2, <3>0
    <3>2. /\ adjustment' \in [Adjustments -> AdjustmentRow \cup {None}]
          /\ \A b \in Adjustments : b # a => adjustment'[b] = adjustment[b]
          /\ adjustment'[a].delta = n /\ adjustment'[a].source = c
          /\ Approved' = Approved
          /\ \A b \in Approved : adjustment'[b].delta = adjustment[b].delta
      BY ONLY IInv, <3>1, AdjustmentRequested
    <3> QED BY <3>0, <3>2
  <2> QED BY <1>1, <2>1, <2>2
<1>8. BeliefsStand'
  BY <1>1 DEF IInv, BeliefsStand
<1>9. CorrectionsStand'
  <2>1. ASSUME NEW b \in Adjustments, adjustment'[b] # None, adjustment'[b].source # None
        PROVE  LET d == adjustment'[b].source
               IN  /\ belief'[d] # None /\ count'[d] # None
                   /\ count'[d].expected = belief'[d].expected
                   /\ adjustment'[b].delta = count'[d].physical - count'[d].expected
    <3>1. CASE adjustment'[b] = adjustment[b]
      <4>1. adjustment[b].source \in Counts
        BY <2>1, <3>1 DEF IInv, TypeOK, AdjustmentRow
      <4>2. count[adjustment[b].source] # None
        BY <2>1, <3>1 DEF IInv, CorrectionsStand
      <4>3. count'[adjustment[b].source] = count[adjustment[b].source]
        BY <1>1, <1>4, <4>1, <4>2
      <4> QED BY <1>1, <2>1, <3>1, <4>1, <4>3 DEF IInv, CorrectionsStand
    <3>2. CASE adjustment'[b].source = c /\ adjustment'[b].delta = physical - expected
      BY <1>1, <1>3, <1>4, <3>2
    <3> QED BY <1>7, <3>1, <3>2
  <2> QED BY <2>1 DEF CorrectionsStand
<1>10. belief' \in [Counts -> Belief \cup {None}]
  BY <1>1 DEF IInv, TypeOK
<1> QED BY <1>1, <1>4, <1>5, <1>7, <1>8, <1>9, <1>10, CountingStep

LEMMA RequestStep ==
    ASSUME IInv, NEW a \in Adjustments, NEW delta \in Deltas, RequestAdjustment(a, delta)
    PROVE  IInv'
<1>1. /\ CreateInventoryAdjustmentRequest(a, delta, None)
      /\ lot' = lot /\ undo' = undo /\ item' = item /\ balance' = balance /\ reversing' = reversing
      /\ movements' = movements /\ belief' = belief /\ count' = count /\ review' = review
  BY DEF RequestAdjustment
<1>2. delta \in Int /\ None \in Counts \cup {None}
  BY NumbersAssumption DEF Deltas
<1>3. /\ adjustment' \in [Adjustments -> AdjustmentRow \cup {None}]
      /\ \A b \in Adjustments : b # a => adjustment'[b] = adjustment[b]
      /\ adjustment'[a].source = None
      /\ Approved' = Approved
      /\ \A b \in Approved : adjustment'[b].delta = adjustment[b].delta
  BY ONLY IInv, <1>1, <1>2, AdjustmentRequested
<1>4. BeliefsStand'
  BY <1>1 DEF IInv, BeliefsStand
<1>5. CorrectionsStand'
  BY <1>1, <1>3 DEF IInv, CorrectionsStand
<1>6. /\ belief' \in [Counts -> Belief \cup {None}] /\ count' \in [Counts -> CountRow \cup {None}]
      /\ review' \in [Items \cup Adjustments \cup Counts -> {"none", "open", "resolved"}]
      /\ \A i \in Items : review'[i] = review[i]
  BY <1>1 DEF IInv, TypeOK
<1> QED BY <1>1, <1>3, <1>4, <1>5, <1>6, CountingStep

\* A decision leaves what was asked.
LEMMA Decided ==
    ASSUME IInv, NEW a \in Adjustments, Pending(a), NEW s \in {"approved", "rejected"},
           adjustment' = [adjustment EXCEPT ![a].status = s]
    PROVE  /\ adjustment' \in [Adjustments -> AdjustmentRow \cup {None}]
           /\ \A b \in Adjustments : b # a => adjustment'[b] = adjustment[b]
           /\ adjustment'[a].delta = adjustment[a].delta
           /\ adjustment'[a].source = adjustment[a].source
           /\ adjustment'[a].status = s /\ adjustment[a] # None
<1> DEFINE row == [adjustment[a] EXCEPT !.status = s]
<1>1. adjustment[a] \in AdjustmentRow /\ adjustment[a] # None
  BY DEF Pending, IInv, TypeOK
<1>2. /\ row \in AdjustmentRow /\ row.delta = adjustment[a].delta
      /\ row.source = adjustment[a].source /\ row.status = s
  BY <1>1 DEF AdjustmentRow
<1>3. adjustment' = [adjustment EXCEPT ![a] = row]
  OBVIOUS
<1> HIDE DEF row
<1>4. /\ adjustment' \in [Adjustments -> AdjustmentRow \cup {None}]
      /\ \A b \in Adjustments : adjustment'[b] = IF b = a THEN row ELSE adjustment[b]
  BY <1>2, <1>3 DEF IInv, TypeOK
<1> QED BY <1>1, <1>2, <1>4

LEMMA DecidedCorrections ==
    ASSUME CorrectionsStand, belief' = belief, count' = count,
           NEW a \in Adjustments, adjustment[a] # None,
           \A b \in Adjustments : b # a => adjustment'[b] = adjustment[b],
           adjustment'[a].delta = adjustment[a].delta, adjustment'[a].source = adjustment[a].source
    PROVE  CorrectionsStand'
<1>1. \A b \in Adjustments : adjustment'[b] # None =>
          /\ adjustment[b] # None
          /\ adjustment'[b].delta = adjustment[b].delta
          /\ adjustment'[b].source = adjustment[b].source
  OBVIOUS
<1> QED BY <1>1 DEF CorrectionsStand

LEMMA RejectStep ==
    ASSUME IInv, NEW a \in Adjustments, RejectAdjustmentRequest(a)
    PROVE  IInv'
<1>1. /\ Pending(a) /\ adjustment' = [adjustment EXCEPT ![a].status = "rejected"]
      /\ lot' = lot /\ undo' = undo /\ item' = item /\ balance' = balance /\ reversing' = reversing
      /\ movements' = movements /\ belief' = belief /\ count' = count /\ review' = review
  BY DEF RejectAdjustmentRequest, RejectInventoryAdjustmentRequest
<1>2. /\ adjustment' \in [Adjustments -> AdjustmentRow \cup {None}]
      /\ \A b \in Adjustments : b # a => adjustment'[b] = adjustment[b]
      /\ adjustment'[a].delta = adjustment[a].delta
      /\ adjustment'[a].source = adjustment[a].source
      /\ adjustment'[a].status = "rejected" /\ adjustment[a] # None
  BY <1>1, Decided
<1>3. a \notin Approved /\ a \notin Approved'
  BY <1>1, <1>2 DEF Approved, Pending
<1>4. Approved' = Approved /\ \A b \in Approved : adjustment'[b].delta = adjustment[b].delta
  BY <1>2, <1>3 DEF Approved
<1>5. BeliefsStand'
  BY <1>1 DEF IInv, BeliefsStand
<1>6. CorrectionsStand'
  BY <1>1, <1>2, DecidedCorrections DEF IInv
<1>7. /\ belief' \in [Counts -> Belief \cup {None}] /\ count' \in [Counts -> CountRow \cup {None}]
      /\ review' \in [Items \cup Adjustments \cup Counts -> {"none", "open", "resolved"}]
      /\ \A i \in Items : review'[i] = review[i]
  BY <1>1 DEF IInv, TypeOK
<1> QED BY <1>1, <1>2, <1>4, <1>5, <1>6, <1>7, CountingStep

LEMMA ApproveStep ==
    ASSUME IInv, NEW a \in Adjustments, ApproveAdjustmentRequest(a)
    PROVE  IInv'
<1>1. /\ ApproveInventoryAdjustmentRequest(a) /\ Pending(a)
      /\ adjustment' = [adjustment EXCEPT ![a].status = "approved"]
      /\ CreateInventoryMovement /\ balance' = balance + adjustment[a].delta
      /\ OpenReviewIfNegative(a)
      /\ lot' = lot /\ undo' = undo /\ item' = item /\ reversing' = reversing
      /\ belief' = belief /\ count' = count
  BY DEF ApproveAdjustmentRequest, ApproveInventoryAdjustmentRequest, PostMovement, UpsertInventoryBalanceDelta
<1>2. /\ adjustment' \in [Adjustments -> AdjustmentRow \cup {None}]
      /\ \A b \in Adjustments : b # a => adjustment'[b] = adjustment[b]
      /\ adjustment'[a].delta = adjustment[a].delta
      /\ adjustment'[a].source = adjustment[a].source
      /\ adjustment[a] # None
  BY <1>1, Decided
<1>3. TypeOK /\ FiniteRows /\ Ledger
  BY DEF IInv
<1>4. Corrected' = Corrected + adjustment[a].delta /\ IsFiniteSet(Approved')
  BY <1>1, <1>3, CorrectedGrows
<1>5. Ledger' /\ Received' = Received /\ OfReceipts' = OfReceipts /\ Posted' = Posted
  BY <1>1, <1>3, LedgerKept
<1>6. adjustment[a].delta \in Int /\ balance \in Int /\ movements \in Nat /\ movements' = movements + 1
  BY <1>1, <1>2, <1>3 DEF TypeOK, AdjustmentRow, CreateInventoryMovement
<1>7. /\ review' \in [Items \cup Adjustments \cup Counts -> {"none", "open", "resolved"}]
      /\ \A i \in Items : review'[i] = review[i]
  <2>1. a \in Items \cup Adjustments \cup Counts /\ a \notin Items
    BY RowsAssumption
  <2>2. /\ review' \in [Items \cup Adjustments \cup Counts -> {"none", "open", "resolved"}]
        /\ \A i \in Items : i # a => review'[i] = review[i]
    BY ONLY IInv, <1>1, <2>1, ReviewOpened
  <2> QED BY <2>1, <2>2
<1>8. TypeOK'
  BY <1>1, <1>2, <1>3, <1>6, <1>7 DEF TypeOK
<1>9. FiniteRows'
  BY <1>1, <1>3, <1>4, <1>5 DEF FiniteRows
<1>10. ReadsStand' /\ ReviewsStand'
  BY <1>1, <1>5, <1>7 DEF IInv, ReadsStand, ReviewsStand
<1>11. BeliefsStand'
  <2>1. \A c \in Counts : belief[c] # None => belief[c].at \in Nat /\ belief[c].at <= movements
    BY DEF IInv, TypeOK, Belief, BeliefsStand
  <2> QED BY <1>1, <1>6, <2>1 DEF BeliefsStand
<1>12. CorrectionsStand'
  BY <1>1, <1>2, DecidedCorrections DEF IInv
<1>13. BalanceIsLedger'
  <2>1. ReceivedNet' = ReceivedNet
    BY <1>1, <1>5, ReceivedNetKept
  <2>2. SoldNet' = SoldNet
    BY <1>1, <1>5 DEF SoldNet, Quantity
  <2>3. balance = ReceivedNet - SoldNet + Corrected
    BY BalanceTerms DEF IInv
  <2>4. ReceivedNet \in Int /\ SoldNet \in Int /\ Corrected \in Int
    BY <1>3, TermsTyped
  <2>5. balance' = ReceivedNet' - SoldNet' + Corrected'
    BY <1>1, <1>4, <1>6, <2>1, <2>2, <2>3, <2>4
  <2> QED BY <2>5 DEF BalanceIsLedger, ReceivedNet, SoldNet, Corrected
<1> QED BY <1>5, <1>8, <1>9, <1>10, <1>11, <1>12, <1>13 DEF IInv

LEMMA ResolveStep ==
    ASSUME IInv, NEW x \in Items \cup Adjustments \cup Counts, NEW unitCost \in ResolvedUnitCosts,
           NEW l \in Lots, ResolveReview(x, unitCost, l)
    PROVE  IInv'
<1>1. TypeOK /\ FiniteRows /\ ReadsStand /\ Ledger /\ ReviewsStand
  BY DEF IInv
<1>2. /\ review[x] = "open" /\ review' = [review EXCEPT ![x] = "resolved"]
      /\ undo' = undo /\ balance' = balance /\ movements' = movements /\ belief' = belief
      /\ count' = count /\ adjustment' = adjustment /\ reversing' = reversing
  BY DEF ResolveReview, ResolveInventoryReview
<1>3. /\ review' \in [Items \cup Adjustments \cup Counts -> {"none", "open", "resolved"}]
      /\ \A i \in Items : review'[i] = review[i] \/ i \in Posted
  <2>1. x \in Items => x \in Posted
    BY <1>1, <1>2 DEF ReviewsStand
  <2> QED BY <1>2, <2>1, ReviewChanged
<1>4. /\ belief' \in [Counts -> Belief \cup {None}] /\ count' \in [Counts -> CountRow \cup {None}]
      /\ adjustment' \in [Adjustments -> AdjustmentRow \cup {None}]
      /\ BeliefsStand' /\ CorrectionsStand' /\ Approved' = Approved
      /\ \A a \in Approved : adjustment'[a].delta = adjustment[a].delta
  BY <1>1, <1>2 DEF TypeOK, IInv, BeliefsStand, CorrectionsStand, Approved
<1>5. CASE lot' = lot /\ item' = item
  BY <1>2, <1>3, <1>4, <1>5, CountingStep
<1>6. ASSUME ~ (lot' = lot /\ item' = item) PROVE IInv'
  <2>1. x \in Posted /\ unitCost \in Numbers /\ unitCost > 0
    BY <1>1, <1>2, <1>6 DEF ResolveReview, ResolvedUnitCosts, ReviewsStand
  <2>2. PICK cost \in Nat : cost = unitCost
    <3>1. unitCost \in Int
      BY <2>1, NumbersAssumption
    <3> QED BY ONLY <2>1, <3>1
  <2>3. ~ (item[x].pending <= 0) /\ Resolves(x, l, item[x].pending, item[x].pending * unitCost)
    BY <1>6 DEF ResolveReview, ResolvePendingAllocation, Resolves, SumNetPendingQuantityForSaleItem
  <2>4. item[x].pending > 0 /\ Resolves(x, l, item[x].pending, item[x].pending * cost)
    <3>1. item[x].pending \in Int
      BY <1>1, <2>1, AllocationsTyped DEF Ledger
    <3> QED BY <2>2, <2>3, <3>1
  <2>5. /\ item[x].pending \in Nat \ {0} /\ item[x].pending * cost \in Nat
        /\ item' \in [Items -> ItemRow \cup {None}] /\ Posted' = Posted
        /\ \A j \in Items : j # x => item'[j] = item[j]
        /\ item'[x].bill = item[x].bill /\ item'[x].qty = item[x].qty
    BY <1>1, <2>1, <2>4, ResolvedRow DEF Ledger
  <2>6. /\ lot' \in [Lots -> LotRow \cup {None}]
        /\ l \notin Received /\ Received' = Received \cup {l} /\ OfReceipts' = OfReceipts
        /\ \A k \in Lots : k # l => lot'[k] = lot[k]
    <3>1. PICK n \in Nat \ {0}, kobo \in Nat : CreateStockLot(l, n, kobo, "review_resolution")
      BY <2>4, <2>5 DEF Resolves
    <3>2. /\ lot' \in [Lots -> LotRow \cup {None}]
          /\ l \notin Received /\ Received' = Received \cup {l}
          /\ OfReceipts' = OfReceipts \cup {}
          /\ \A k \in Lots : k # l => lot'[k] = lot[k]
      BY <1>1, <3>1, LotCreated
    <3> QED BY <3>2
  <2>7. TypeOK'
    BY <1>1, <1>2, <1>3, <1>4, <2>5, <2>6 DEF TypeOK
  <2>8. FiniteRows'
    <3>1. IsFiniteSet(Received \cup {l})
      BY <1>1, FS_AddElement DEF FiniteRows
    <3> QED BY <1>1, <1>2, <1>4, <2>5, <2>6, <3>1 DEF FiniteRows
  <2>9. ReadsStand'
    <3>1. \A i \in Posted : item'[i].bill = item[i].bill
      BY <2>5 DEF Posted
    <3> QED BY <1>1, <1>2, <2>5, <2>6, <3>1 DEF ReadsStand
  <2>10. Ledger'
    BY <1>1, <1>2, <2>1, <2>4, ResolvedLedger
  <2>11. BalanceIsLedger'
    <3>1. Corrected' = Corrected
      BY <1>4, CorrectedKept
    <3>2. SoldNet' = SoldNet
      <4>1. [i \in Posted |-> item'[i].qty] = [i \in Posted |-> item[i].qty]
        BY <2>5 DEF Posted
      <4> QED BY <2>5, <4>1 DEF SoldNet, Quantity
    <3>3. \A k \in OfReceipts : lot'[k].received = lot[k].received
      BY <2>6 DEF OfReceipts, Received
    <3> QED BY <1>2, <2>6, <3>1, <3>2, <3>3, BalanceKept DEF IInv
  <2>12. ReviewsStand'
    BY <1>1, <1>3, <2>5 DEF ReviewsStand
  <2> QED BY <1>4, <2>7, <2>8, <2>9, <2>10, <2>11, <2>12 DEF IInv
<1> QED BY <1>5, <1>6

LEMMA InitInv == Init => IInv
<1> SUFFICES ASSUME Init PROVE IInv
  OBVIOUS
<1>1. TypeOK
  BY DEF Init, TypeOK
<1>2. Posted = {} /\ Received = {} /\ Approved = {} /\ OfReceipts = {}
  BY DEF Init, Posted, Received, Approved, OfReceipts
<1>3. {u \in Undos : undo[u] # None} = {}
  BY DEF Init
<1>4. FiniteRows
  BY <1>2, <1>3, FS_EmptySet DEF FiniteRows
<1>5. ReadsStand
  BY NoneAssumption DEF Init, ReadsStand
<1>6. Ledger
  <2>1. Standing = {}
    BY <1>2 DEF Standing
  <2> QED BY <1>2, <2>1 DEF Ledger, DrawnFromLots, BillsStand, LotsAccountedFor, ItemsFullyAllocated,
                            CostNearShare, CostTelescopes, GivenBackOnce
<1>7. BalanceIsLedger
  BY <1>2, SumOfNone DEF BalanceIsLedger, Init
<1>8. BeliefsStand /\ CorrectionsStand /\ ReviewsStand
  BY DEF Init, BeliefsStand, CorrectionsStand, ReviewsStand
<1> QED BY <1>1, <1>4, <1>5, <1>6, <1>7, <1>8 DEF IInv

LEMMA StepInv == IInv /\ [Next]_vars => IInv'
<1> SUFFICES ASSUME IInv, [Next]_vars PROVE IInv'
  OBVIOUS
<1>1. ASSUME NEW l \in Lots, NEW line \in ReceiptLines, ReceiveStock(l, line) PROVE IInv'
  BY <1>1, ReceiveStep
<1>2. ASSUME NEW i \in Items, NEW b \in Items, NEW qty \in SaleQuantities, SellItem(i, b, qty)
      PROVE  IInv'
  BY <1>2, SellStep
<1>3. ASSUME NEW i \in Items, NEW b \in Items, NEW qty \in SaleQuantities, RemoveItem(i, b, qty)
      PROVE  IInv'
  BY <1>3, RemoveStep
<1>4. ASSUME NEW w \in Txs, NEW i \in Items, ReverseSaleRead(w, i) PROVE IInv'
  BY <1>4, ReadSaleStep
<1>5. ASSUME NEW w \in Txs, NEW i \in Items, ReverseSaleWrite(w, i) PROVE IInv'
  BY <1>5, ReverseSaleStep
<1>6. ASSUME NEW w \in Txs, NEW l \in Lots, ReverseStockReceiptRead(w, l) PROVE IInv'
  BY <1>6, ReadReceiptStep
<1>7. ASSUME NEW w \in Txs, NEW u \in Undos, ReverseStockReceiptWrite(w, u) PROVE IInv'
  BY <1>7, UndoStep
<1>8. ASSUME NEW w \in Txs, Rollback(w) PROVE IInv'
  BY <1>8, RollbackStep
<1>9. ASSUME NEW c \in Counts, FormBelief(c) PROVE IInv'
  BY <1>9, FormBeliefStep
<1>10. ASSUME NEW c \in Counts, NEW physical \in Numbers, NEW a \in Adjustments,
              SubmitStockCount(c, physical, a)
       PROVE  IInv'
  BY <1>10, SubmitStep
<1>11. ASSUME NEW a \in Adjustments, NEW delta \in Deltas, RequestAdjustment(a, delta) PROVE IInv'
  BY <1>11, RequestStep
<1>12. ASSUME NEW a \in Adjustments, ApproveAdjustmentRequest(a) PROVE IInv'
  BY <1>12, ApproveStep
<1>13. ASSUME NEW a \in Adjustments, RejectAdjustmentRequest(a) PROVE IInv'
  BY <1>13, RejectStep
<1>14. ASSUME NEW x \in Items \cup Adjustments \cup Counts, NEW unitCost \in ResolvedUnitCosts,
              NEW l \in Lots, ResolveReview(x, unitCost, l)
       PROVE  IInv'
  BY <1>14, ResolveStep
<1>15. CASE UNCHANGED vars
  <2>1. UNCHANGED tables /\ reversing' = reversing
    BY <1>15 DEF vars
  <2>2. /\ reversing' \in [Txs -> Lots \cup Items \cup {None}]
        /\ \A w \in Txs : /\ reversing'[w] \in Items =>
                                reversing'[w] \in Posted /\ item[reversing'[w]].bill = reversing'[w]
                          /\ reversing'[w] \in Lots => reversing'[w] \in OfReceipts
    BY <2>1 DEF IInv, TypeOK, ReadsStand
  <2> QED BY <2>1, <2>2, ReadStep
<1> QED
  BY <1>1, <1>2, <1>3, <1>4, <1>5, <1>6, <1>7, <1>8, <1>9, <1>10, <1>11, <1>12, <1>13, <1>14, <1>15
  DEF Next

-----------------------------------------------------------------------------
(* The theorems.                                                             *)

\* The inductive invariant holds of every reachable state.
THEOREM StockInvariant == Spec => []IInv
BY InitInv, StepInv, PTL DEF Spec

\* Between stock_lots and sale_item_lot_allocations no unit is lost or
\* invented, and an item's allocations cover its quantity.
THEOREM NoUnitIsLost == Spec => []AllocationsAddUp
<1>1. IInv => AllocationsAddUp
  BY DEF IInv, Ledger, AllocationsAddUp
<1> QED BY <1>1, StockInvariant, PTL

\* A charge is near the exact share of its lot's cost, and without returns the
\* charges of a lot leave no remainder behind.
THEOREM ChargesAreShares == Spec => []CostsAddUp
<1>1. IInv => CostsAddUp
  BY DEF IInv, Ledger, CostsAddUp
<1> QED BY <1>1, StockInvariant, PTL

\* The stored balance is what the documents add up to.
THEOREM BalanceIsRebuildable == Spec => []BalanceIsLedger
<1>1. IInv => BalanceIsLedger
  BY DEF IInv
<1> QED BY <1>1, StockInvariant, PTL

\* After a sale's draw, whatever had to be drawn whole is empty.
LEMMA SaleDrawsOldest ==
    ASSUME IInv, NEW i \in Items, NEW b \in Items, NEW qty \in SaleQuantities, SellItem(i, b, qty)
    PROVE  /\ \A j \in Items : j # i => item'[j] = item[j]
           /\ \A k, l \in Lots :
                 k < l /\ item'[i].drawn[l] > 0 /\ lot[k] # None => lot'[k].remaining <= 0
           /\ item'[i].pending > 0 => \A l \in Lots : lot[l] # None => lot'[l].remaining <= 0
<1>1. TypeOK /\ FiniteRows /\ IsFiniteSet(Received) /\ qty \in Nat /\ qty \in Int
  BY NumbersAssumption DEF IInv, FiniteRows, SaleQuantities
<1>2. PICK a \in Allocations : /\ Posts(i, b, qty, None, a)
                               /\ a.drawn = Draw(qty) /\ a.pending = qty - Total(Draw(qty))
  BY <1>1, SellFits
<1>3. /\ \A j \in Items : j # i => item'[j] = item[j]
      /\ item'[i].drawn = Draw(qty) /\ item'[i].pending = qty - Total(Draw(qty))
  <2>1. /\ \A j \in Items : j # i => item'[j] = item[j]
        /\ item'[i].drawn = a.drawn /\ item'[i].pending = a.pending
    BY <1>1, <1>2, ItemCreated DEF Posts
  <2> QED BY <1>2, <2>1
<1>4. Draw(qty) \in [Lots -> Nat] /\ \A l \in Lots \ ListLotsForAllocation : Draw(qty)[l] = 0
  BY <1>1, DrawType
<1>5. ASSUME NEW k \in Lots, lot[k] # None
      PROVE  /\ k \notin ListLotsForAllocation => lot'[k].remaining <= 0
             /\ Draw(qty)[k] = lot[k].remaining => lot'[k].remaining <= 0
  <2>1. lot'[k].remaining = lot[k].remaining - Draw(qty)[k] /\ lot[k] \in LotRow
    <3>1. DecrementLotRemainingQuantity(a.drawn) /\ a.drawn \in [Lots -> Int]
      BY <1>2 DEF Posts, Allocations
    <3>2. k \in Received
      BY <1>5 DEF Received
    <3> QED BY <1>1, <1>2, <3>1, <3>2, LotsMoved
  <2>2. lot[k].remaining \in Int /\ Draw(qty)[k] \in Nat
    BY <1>4, <2>1 DEF LotRow
  <2>3. k \notin ListLotsForAllocation => lot[k].remaining <= 0 /\ Draw(qty)[k] = 0
    BY <1>4, <1>5, <2>2 DEF ListLotsForAllocation
  <2> QED BY <2>1, <2>2, <2>3
<1>6. ASSUME NEW k \in Lots, NEW l \in Lots, k < l, Draw(qty)[l] > 0, lot[k] # None
      PROVE  lot'[k].remaining <= 0
  <2>1. CASE k \in ListLotsForAllocation
    <3>1. Draw(qty)[k] = lot[k].remaining
      BY <1>1, <1>6, <2>1, OlderDrawnEmpty
    <3> QED BY <1>5, <1>6, <3>1
  <2>2. CASE k \notin ListLotsForAllocation
    BY <1>5, <1>6, <2>2
  <2> QED BY <2>1, <2>2
<1>7. ASSUME qty - Total(Draw(qty)) > 0, NEW l \in Lots, lot[l] # None
      PROVE  lot'[l].remaining <= 0
  <2>1. CASE l \in ListLotsForAllocation
    <3>1. Draw(qty)[l] = lot[l].remaining
      BY <1>1, <1>7, <2>1, LeftOverWhenEmpty
    <3> QED BY <1>5, <1>7, <3>1
  <2>2. CASE l \notin ListLotsForAllocation
    BY <1>5, <1>7, <2>2
  <2> QED BY <2>1, <2>2
<1> QED BY <1>3, <1>6, <1>7

\* The oldest lots are drawn first, and nothing is left pending while any has
\* units.
THEOREM OldestLotsDrawnFirst == Spec => DrawnOldestFirst
<1> DEFINE New(i) == item[i] = None /\ item'[i] # None /\ item'[i].reversalOf = None
           Oldest(i) ==
              /\ \A k, l \in Lots :
                    k < l /\ item'[i].drawn[l] > 0 /\ lot[k] # None => lot'[k].remaining <= 0
              /\ item'[i].pending > 0 => \A l \in Lots : lot[l] # None => lot'[l].remaining <= 0
           Step == \A i \in Items : New(i) => Oldest(i)
<1>1. IInv /\ [Next]_vars => [Step]_vars
  <2> SUFFICES ASSUME IInv, Next, NEW j \in Items, New(j) PROVE Oldest(j)
    OBVIOUS
  <2>1. ASSUME NEW i \in Items, NEW b \in Items, NEW qty \in SaleQuantities, SellItem(i, b, qty)
        PROVE  Oldest(j)
    <3>1. /\ \A k \in Items : k # i => item'[k] = item[k]
          /\ Oldest(i)
      BY <2>1, SaleDrawsOldest
    <3>2. j = i
      BY <3>1
    <3> QED BY <3>1, <3>2
  <2>2. ASSUME NEW i \in Items, NEW b \in Items, NEW qty \in SaleQuantities, RemoveItem(i, b, qty)
        PROVE  Oldest(j)
    <3>0. PICK n \in Int : n = -qty
      BY NumbersAssumption DEF SaleQuantities
    <3>1. PICK a \in Allocations : a = NoAllocations /\ CreateSaleItem(i, b, n, None, a) /\ TypeOK
      BY <2>2, <3>0, RemoveFits DEF IInv, Posts
    <3>2. /\ \A k \in Items : k # i => item'[k] = item[k]
          /\ item'[i].pending = a.pending /\ item'[i].drawn = a.drawn
      BY <3>1, ItemCreated
    <3>3. j = i
      BY <3>2
    <3>4. item'[j].pending = 0 /\ \A l \in Lots : item'[j].drawn[l] = 0
      BY <3>1, <3>2, <3>3 DEF NoAllocations, CreateSaleItemLotAllocation, NoDraw
    <3> QED BY <3>4
  <2>3. ASSUME NEW w \in Txs, NEW i \in Items, ReverseSaleWrite(w, i) PROVE Oldest(j)
    <3>1. PICK o \in Items : o = reversing[w]
      BY <2>3 DEF ReverseSaleWrite
    <3>2. /\ ReverseSaleItemLots(o) \in Allocations
          /\ Posts(i, i, -item[o].qty, o, ReverseSaleItemLots(o)) /\ item[o].qty \in Int
      BY <2>3, <3>1, ReverseFits DEF IInv, Ledger
    <3>3. /\ \A k \in Items : k # i => item'[k] = item[k]
          /\ item'[i].reversalOf = o
      BY <3>2, ItemCreated DEF IInv, Posts
    <3> QED BY <3>1, <3>3, NoneAssumption
  <2>4. ASSUME NEW x \in Items \cup Adjustments \cup Counts, NEW unitCost \in ResolvedUnitCosts,
               NEW l \in Lots, ResolveReview(x, unitCost, l)
        PROVE  Oldest(j)
    <3>1. x \in Items => item[x] # None
      BY <2>4 DEF IInv, ReviewsStand, ResolveReview, ResolveInventoryReview, Posted
    <3>2. item' = item \/ (x \in Items /\ \A k \in Items : k # x => item'[k] = item[k])
      BY <2>4 DEF ResolveReview, ResolvePendingAllocation, IInv, TypeOK
    <3> QED BY <3>1, <3>2
  <2>5. ASSUME item' = item PROVE Oldest(j)
    BY <2>5
  <2> QED BY <2>1, <2>2, <2>3, <2>4, <2>5
          DEF Next, ReceiveStock, ReverseSaleRead, ReverseStockReceiptRead, ReverseStockReceiptWrite,
              Rollback, FormBelief, SubmitStockCount, RequestAdjustment, ApproveAdjustmentRequest,
              RejectAdjustmentRequest, tables
<1>2. [][Step]_vars => DrawnOldestFirst
  BY PTL DEF DrawnOldestFirst
<1> QED BY <1>1, <1>2, StockInvariant, PTL DEF Spec

\* A correction approved with nothing posted since the belief behind it leaves
\* the balance at what was counted.
THEOREM CorrectionsReachCounts == Spec => CorrectionReachesCount
<1> DEFINE Reached(a) == balance' = count[adjustment[a].source].physical
           Due(a) == /\ adjustment[a] # None
                     /\ adjustment[a].source # None
                     /\ adjustment[a].status # adjustment'[a].status
                     /\ adjustment'[a].status = "approved"
                     /\ movements = belief[adjustment[a].source].at
           Step == \A a \in Adjustments : Due(a) => Reached(a)
<1>1. IInv /\ [Next]_vars => [Step]_vars
  <2> SUFFICES ASSUME IInv, Next, NEW a \in Adjustments, Due(a) PROVE Reached(a)
    OBVIOUS
  <2>1. ASSUME NEW d \in Adjustments, ApproveAdjustmentRequest(d) PROVE Reached(a)
    <3>1. /\ Pending(d) /\ adjustment' = [adjustment EXCEPT ![d].status = "approved"]
          /\ balance' = balance + adjustment[d].delta
      BY <2>1 DEF ApproveAdjustmentRequest, ApproveInventoryAdjustmentRequest, PostMovement,
                  UpsertInventoryBalanceDelta
    <3>2. \A b \in Adjustments : b # d => adjustment'[b] = adjustment[b]
      BY <3>1, Decided
    <3>3. a = d
      BY <3>2
    <3> DEFINE c == adjustment[a].source
    <3>4. /\ c \in Counts /\ belief[c] # None /\ count[c] # None
          /\ count[c].expected = belief[c].expected
          /\ adjustment[a].delta = count[c].physical - count[c].expected
      BY DEF IInv, TypeOK, AdjustmentRow, CorrectionsStand
    <3>5. balance = belief[c].expected
      BY <3>4 DEF IInv, BeliefsStand
    <3>6. count[c].physical \in Int /\ count[c].expected \in Int /\ balance \in Int
      BY <3>4 DEF IInv, TypeOK, CountRow
    <3> QED BY <3>1, <3>3, <3>4, <3>5, <3>6
  <2>2. ASSUME NEW d \in Adjustments, RejectAdjustmentRequest(d) PROVE Reached(a)
    <3>1. /\ Pending(d) /\ adjustment' = [adjustment EXCEPT ![d].status = "rejected"]
      BY <2>2 DEF RejectAdjustmentRequest, RejectInventoryAdjustmentRequest
    <3>2. /\ \A b \in Adjustments : b # d => adjustment'[b] = adjustment[b]
          /\ adjustment'[d].status = "rejected"
      BY <3>1, Decided
    <3> QED BY <3>2
  <2>3. ASSUME NEW d \in Adjustments, NEW delta, NEW source,
               CreateInventoryAdjustmentRequest(d, delta, source)
        PROVE  Reached(a)
    BY <2>3 DEF CreateInventoryAdjustmentRequest, IInv, TypeOK
  <2>4. ASSUME adjustment' = adjustment PROVE Reached(a)
    BY <2>4
  <2> QED BY <2>1, <2>2, <2>3, <2>4
          DEF Next, ReceiveStock, SellItem, RemoveItem, ReverseSaleRead, ReverseSaleWrite,
              ReverseStockReceiptRead, ReverseStockReceiptWrite, Rollback, FormBelief,
              SubmitStockCount, RequestAdjustment, ResolveReview, tables
<1>2. [][Step]_vars => CorrectionReachesCount
  BY PTL DEF CorrectionReachesCount
<1> QED BY <1>1, <1>2, StockInvariant, PTL DEF Spec

-----------------------------------------------------------------------------
(* Sums of two sets, of groups, and of ones. *)
LEMMA SumUnion ==
    ASSUME NEW A, IsFiniteSet(A), NEW B, IsFiniteSet(B), A \cap B = {},
           NEW f, \A x \in A \cup B : f[x] \in Int
    PROVE  SumOver(f, A \cup B) = SumOver(f, A) + SumOver(f, B)
<1> DEFINE Good == {t \in SUBSET B : SumOver(f, A \cup t) = SumOver(f, A) + SumOver(f, t)}
<1>0. SumOver(f, A) \in Int
  BY SumType
<1>1. {} \in Good
  BY <1>0, SumOfNone
<1>2. ASSUME NEW t \in SUBSET B, NEW a \in B, t \in Good, a \notin t
      PROVE  t \cup {a} \in Good
  <2> DEFINE At == A \cup t
             ta == t \cup {a}
  <2>0. IsFiniteSet(t)
    BY FS_Subset
  <2>1. /\ IsFiniteSet(At) /\ a \notin At /\ At \cup {a} = A \cup ta
        /\ \A x \in t \cup {a} : f[x] \in Int
        /\ \A x \in At \cup {a} : f[x] \in Int
    <3>1. IsFiniteSet(At)
      BY <2>0, FS_Union
    <3> QED BY <1>2, <3>1
  <2>2. SumOver(f, ta) = SumOver(f, t) + f[a]
    BY <1>2, <2>0, <2>1, SumAdd
  <2>3. SumOver(f, At) = SumOver(f, A) + SumOver(f, t)
    BY <1>2
  <2> HIDE DEF At
  <2>4. SumOver(f, At \cup {a}) = SumOver(f, At) + f[a]
    BY <2>1, SumAdd
  <2>5. SumOver(f, t) \in Int /\ f[a] \in Int
    BY <2>0, <2>1, SumType
  <2> HIDE DEF ta
  <2>6. SumOver(f, A \cup ta) = SumOver(f, At \cup {a})
    BY <2>1, Zenon
  <2>7. SumOver(f, A \cup ta) = SumOver(f, A) + SumOver(f, ta)
    BY <1>0, <2>2, <2>3, <2>4, <2>5, <2>6
  <2> QED BY <2>7 DEF ta
<1>3. B \in Good
  <2> HIDE DEF Good
  <2> QED BY <1>1, <1>2, SetInduction
<1> QED BY <1>3

(* Rows summed group by group. *)
LEMMA SumByGroup ==
    ASSUME NEW S, IsFiniteSet(S), NEW C, IsFiniteSet(C), NEW f, \A x \in S : f[x] \in Int,
           NEW g, \A x \in S : g[x] \in C,
           NEW of, \A c \in C : of[c] = {x \in S : g[x] = c},
           NEW h, \A c \in C : h[c] = SumOver(f, of[c])
    PROVE  SumOver(h, C) = SumOver(f, S)
<1> DEFINE Of(c) == {x \in S : g[x] = c}
           In(t) == {x \in S : g[x] \in t}
           Good == {t \in SUBSET C : SumOver(h, t) = SumOver(f, In(t))}
<1>1. {} \in Good
  <2>1. In({}) = {}
    OBVIOUS
  <2> QED BY <2>1, SumOfNone
<1>0. \A c \in C : IsFiniteSet(Of(c)) /\ h[c] = SumOver(f, Of(c)) /\ h[c] \in Int
  <2>1. TAKE c \in C
  <2>2. IsFiniteSet(Of(c))
    BY FS_Subset
  <2> QED BY <2>2, SumType
<1>2. ASSUME NEW t \in SUBSET C, NEW a \in C, t \in Good, a \notin t
      PROVE  t \cup {a} \in Good
  <2>1. In(t \cup {a}) = In(t) \cup Of(a) /\ In(t) \cap Of(a) = {}
    BY <1>2
  <2>2. IsFiniteSet(In(t)) /\ IsFiniteSet(Of(a)) /\ \A x \in In(t) \cup Of(a) : f[x] \in Int
    BY FS_Subset
  <2>3. IsFiniteSet(t) /\ \A c \in t \cup {a} : h[c] \in Int
    BY <1>0, FS_Subset
  <2>4. SumOver(h, t \cup {a}) = SumOver(h, t) + h[a]
    BY <1>2, <2>3, SumAdd
  <2> HIDE DEF In, Of
  <2>5. SumOver(f, In(t) \cup Of(a)) = SumOver(f, In(t)) + SumOver(f, Of(a))
    BY <2>1, <2>2, SumUnion
  <2> QED BY <1>0, <1>2, <2>1, <2>4, <2>5
<1>3. C \in Good
  <2> HIDE DEF Good
  <2> QED BY <1>1, <1>2, SetInduction
<1>4. In(C) = S
  OBVIOUS
<1> QED BY <1>3, <1>4

LEMMA CountIsSum ==
    ASSUME NEW S, IsFiniteSet(S), NEW f, \A x \in S : f[x] = 1
    PROVE  SumOver(f, S) = Cardinality(S)
<1> DEFINE Good == {t \in SUBSET S : SumOver(f, t) = Cardinality(t)}
<1>1. {} \in Good
  BY SumOfNone, FS_EmptySet
<1>2. ASSUME NEW t \in SUBSET S, NEW a \in S, t \in Good, a \notin t
      PROVE  t \cup {a} \in Good
  <2>1. IsFiniteSet(t) /\ \A x \in t \cup {a} : f[x] \in Int
    BY FS_Subset
  <2>2. SumOver(f, t \cup {a}) = SumOver(f, t) + f[a]
    BY <1>2, <2>1, SumAdd
  <2>3. Cardinality(t \cup {a}) = Cardinality(t) + 1
    BY <1>2, <2>1, FS_AddElement
  <2> QED BY <1>2, <2>2, <2>3
<1>3. S \in Good
  <2> HIDE DEF Good
  <2> QED BY <1>1, <1>2, SetInduction
<1> QED BY <1>3

(* The operators of the library, as the parts of Goods know them.             *)
LEMMA SpendingSums == ASSUME NEW f, NEW S PROVE Spending!SumOver(f, S) = SumOver(f, S)
  BY DEF Spending!SumOver, SumOver, Spending!MapThenSumSet, MapThenSumSet, Spending!MapThenFoldSet, MapThenFoldSet
LEMMA SpendingCounts == ASSUME NEW S PROVE Spending!Cardinality(S) = Cardinality(S)
  BY Zenon DEF Spending!Cardinality, Cardinality
LEMMA SpendingFinite == ASSUME NEW S PROVE Spending!IsFiniteSet(S) <=> IsFiniteSet(S)
  BY Zenon DEF Spending!IsFiniteSet, IsFiniteSet
LEMMA ShopCounts == ASSUME NEW S PROVE Shop!Cardinality(S) = Cardinality(S)
  BY Zenon DEF Shop!Cardinality, Cardinality
LEMMA ShopFinite == ASSUME NEW S PROVE Shop!IsFiniteSet(S) <=> IsFiniteSet(S)
  BY Zenon DEF Shop!IsFiniteSet, IsFiniteSet

-----------------------------------------------------------------------------
(* Expenses. *)

ExpenseRow == [category : Purposes, amountKobo : Int, key : Spending!Keys \cup Nat, occurredAt : Spending!Days,
               reversalOf : Nat \cup {None}]

Asked == [at : {"free"}]
         \cup [at : {"named", "failed"}, name : Purposes]
         \cup [at : {"posting", "absent", "created", "failed"}, key : Spending!Keys, expense : Nat \cup {None}]
         \cup [at : {"reversing", "standing", "created", "failed"}, reverses : Nat, expense : Nat \cup {None}]

(* A row a device posted is what it queued under the row's key; a reversal is *)
(* keyed by itself and takes back what an earlier row says.                   *)
IsPosted(i) == expenses[i].key \in Spending!Keys /\ expenses[i].amountKobo = Queued[expenses[i].key].amountKobo
IsReversal(i) ==
    LET r == expenses[i].reversalOf
    IN  r \in 1..(i - 1) /\ expenses[i].key = i /\ expenses[i].amountKobo = -expenses[r].amountKobo

ExpensesInv ==
    /\ purposes \subseteq Purposes /\ day \in Spending!Days /\ expenses \in Seq(ExpenseRow)
    /\ \A i \in Spending!Ids : /\ expenses[i].category \in purposes
                               /\ IF expenses[i].reversalOf = None THEN IsPosted(i) ELSE IsReversal(i)
    /\ \A i, j \in Spending!Ids : expenses[i].key = expenses[j].key => i = j

AnswersInv ==
    \A q \in Requests :
        /\ request[q] \in Asked
        /\ request[q].at = "created" /\ "key" \in DOMAIN request[q] =>
              request[q].expense \in Spending!Ids /\ expenses[request[q].expense].key = request[q].key
        /\ request[q].at = "standing" => request[q].reverses \in Spending!Ids

SpendingInv == ExpensesInv /\ AnswersInv /\ DOMAIN request = Requests

LEMMA SpendingInit == Spending!Init => SpendingInv
BY SpendingAssumption DEF Spending!Init, SpendingInv, ExpensesInv, AnswersInv, Spending!Ids, Spending!Free, Asked,
                          Spending!Days, Spending!BoundsAssumption

(* A row is added, or none. *)
LEMMA RowPosted ==
    ASSUME ExpensesInv, NEW e \in ExpenseRow, Spending!CreateExpense(e), UNCHANGED <<purposes, day>>,
           \/ /\ e.reversalOf = None /\ e.key \in Spending!Keys
              /\ e.amountKobo = Queued[e.key].amountKobo
           \/ /\ e.reversalOf \in Spending!Ids /\ e.key = Len(expenses) + 1
              /\ e.amountKobo = -expenses[e.reversalOf].amountKobo
    PROVE  /\ ExpensesInv' /\ Spending!Ids' = Spending!Ids \cup {Len(expenses) + 1}
           /\ Len(expenses) + 1 \in Spending!Ids'
           /\ \A i \in Spending!Ids : expenses'[i] = expenses[i]
           /\ expenses'[Len(expenses) + 1] = e
<1> DEFINE n == Len(expenses) + 1
<1>1. expenses \in Seq(ExpenseRow) /\ expenses' = Append(expenses, e) /\ Len(expenses) \in Nat
  BY DEF ExpensesInv, Spending!CreateExpense
<1>2. /\ expenses' \in Seq(ExpenseRow) /\ Spending!Ids = 1..Len(expenses) /\ Spending!Ids' = 1..n
      /\ \A i \in Spending!Ids : expenses'[i] = expenses[i]
      /\ expenses'[n] = e
  BY <1>1 DEF Spending!Ids
<1>3. /\ Spending!Ids' = Spending!Ids \cup {n} /\ n \in Spending!Ids' /\ n \notin Spending!Ids
      /\ Spending!Ids \subseteq Nat
  BY <1>1, <1>2
<1>4. e.category \in purposes /\ \A i \in Spending!Ids : expenses[i].key # e.key
  BY DEF Spending!CreateExpense, Spending!GetExpenseByIdempotencyKey
<1>5. \A i \in Spending!Ids' : expenses'[i].category \in purposes
  BY <1>2, <1>3, <1>4 DEF ExpensesInv
<1>6. \A i, j \in Spending!Ids' : expenses'[i].key = expenses'[j].key => i = j
  BY <1>2, <1>3, <1>4 DEF ExpensesInv
<1>7. ASSUME NEW i \in Spending!Ids' 
      PROVE IF expenses'[i].reversalOf = None THEN IsPosted(i)' ELSE IsReversal(i)'
  <2>1. CASE i = n
    <3>1. CASE e.reversalOf = None
      <4>1. e.key \in Spending!Keys /\ e.amountKobo = Queued[e.key].amountKobo
        BY <3>1, <1>2, <1>3, SpendingAssumption DEF Spending!NoneAssumption
      <4> QED BY <1>2, <2>1, <3>1, <4>1 DEF IsPosted
    <3>2. CASE e.reversalOf # None
      <4>1. /\ e.reversalOf \in Spending!Ids /\ e.key = n
            /\ e.amountKobo = -expenses[e.reversalOf].amountKobo
        BY <3>2
      <4>2. e.reversalOf \in 1..(n - 1) /\ expenses'[e.reversalOf] = expenses[e.reversalOf]
        BY <1>1, <1>2, <4>1
      <4> QED BY <1>2, <2>1, <3>2, <4>1, <4>2 DEF IsReversal
    <3> QED BY <3>1, <3>2
  <2>2. CASE i # n
    <3>1. i \in Spending!Ids /\ expenses'[i] = expenses[i]
      BY <1>2, <1>3, <2>2
    <3>2. CASE expenses[i].reversalOf = None
      BY <3>1, <3>2 DEF ExpensesInv, IsPosted
    <3>3. CASE expenses[i].reversalOf # None
      <4>1. IsReversal(i)
        BY <3>1, <3>3 DEF ExpensesInv
      <4>2. expenses[i].reversalOf \in Spending!Ids
        BY <1>1, <1>2, <3>1, <4>1 DEF IsReversal
      <4> QED BY <1>2, <3>1, <3>3, <4>1, <4>2 DEF IsReversal
    <3> QED BY <3>2, <3>3
  <2> QED BY <2>1, <2>2
<1>8. ExpensesInv'
  BY <1>2, <1>5, <1>6, <1>7 DEF ExpensesInv, Spending!Days
<1> QED BY <1>2, <1>3, <1>8

LEMMA OthersStay ==
    ASSUME AnswersInv, NEW q \in Requests, NEW r \in Requests, request'[r] = request[r],
           Spending!Ids \subseteq Spending!Ids', \A i \in Spending!Ids : expenses'[i] = expenses[i]
    PROVE  /\ request'[r] \in Asked
           /\ request'[r].at = "created" /\ "key" \in DOMAIN request'[r] =>
                request'[r].expense \in Spending!Ids' /\ expenses'[request'[r].expense].key = request'[r].key
           /\ request'[r].at = "standing" => request'[r].reverses \in Spending!Ids'
BY DEF AnswersInv

LEMMA AnswersAfter ==
    ASSUME SpendingInv, NEW q \in Requests, NEW t \in Asked, 
           DOMAIN request' = Requests, request'[q] = t, \A r \in Requests \ {q} : request'[r] = request[r],
           Spending!Ids \subseteq Spending!Ids', \A i \in Spending!Ids : expenses'[i] = expenses[i],
           t.at = "created" /\ "key" \in DOMAIN t => t.expense \in Spending!Ids' /\ expenses'[t.expense].key = t.key,
           t.at = "standing" => t.reverses \in Spending!Ids'
    PROVE  AnswersInv' /\ DOMAIN request' = Requests
<1>1. ASSUME NEW r \in Requests
      PROVE  /\ request'[r] \in Asked
             /\ request'[r].at = "created" /\ "key" \in DOMAIN request'[r] =>
                  request'[r].expense \in Spending!Ids' /\ expenses'[request'[r].expense].key = request'[r].key
             /\ request'[r].at = "standing" => request'[r].reverses \in Spending!Ids'
  <2>1. CASE r = q BY <2>1
  <2>2. CASE r # q BY <2>2, OthersStay DEF SpendingInv
  <2> QED BY <2>1, <2>2
<1> QED BY <1>1 DEF AnswersInv

(* One lemma for each step. *)
LEMMA BeginStep ==
    ASSUME SpendingInv, NEW q \in Requests, NEW t \in Asked, Spending!Begin(q, t), UNCHANGED <<expenses, day>>,
           ExpensesInv', t.at \in {"named", "failed", "posting", "reversing"}
    PROVE  SpendingInv'
<1>1. /\ request'[q] = t /\ \A r \in Requests \ {q} : request'[r] = request[r]
      /\ DOMAIN request' = Requests
  BY DEF SpendingInv, Spending!Begin
<1>2. Spending!Ids' = Spending!Ids
  BY DEF Spending!Ids
<1>3. AnswersInv' /\ DOMAIN request' = Requests
  BY <1>1, <1>2, AnswersAfter
<1> QED BY <1>3 DEF SpendingInv

LEMMA SameRows ==
    ASSUME ExpensesInv, UNCHANGED Spending!rows
    PROVE  ExpensesInv' /\ Spending!Ids' = Spending!Ids /\ expenses' = expenses
BY DEF ExpensesInv, Spending!rows, Spending!Ids, IsPosted, IsReversal, Spending!Days

LEMMA PurposeStep == ASSUME SpendingInv, NEW q \in Requests, Spending!createExpenseCategory(q) PROVE SpendingInv'
<1>1. PICK n \in Purposes :
        /\ Spending!Begin(q, [at |-> IF n \in purposes THEN "failed" ELSE "named", name |-> n])
        /\ IF n \in purposes THEN UNCHANGED Spending!rows
                             ELSE Spending!CreateExpenseCategory(n) /\ UNCHANGED <<expenses, day>>
  BY DEF Spending!createExpenseCategory
<1> DEFINE t == [at |-> IF n \in purposes THEN "failed" ELSE "named", name |-> n]
<1>2. t \in Asked /\ t.at \in {"named", "failed"}
  BY DEF Asked
<1>3. UNCHANGED <<expenses, day>> /\ purposes \subseteq purposes' /\ purposes' \subseteq Purposes
  BY <1>1 DEF Spending!rows, Spending!CreateExpenseCategory, SpendingInv, ExpensesInv
<1>4. ExpensesInv'
  BY <1>3 DEF SpendingInv, ExpensesInv, Spending!Ids, IsPosted, IsReversal, Spending!Days
<1> HIDE DEF t
<1>5. Spending!Begin(q, t)
  BY <1>1 DEF t
<1> QED BY <1>2, <1>3, <1>4, <1>5, BeginStep

LEMMA AsksStep ==
    ASSUME SpendingInv, NEW q \in Requests, Spending!recordExpense(q) \/ Spending!reverseExpense(q)
    PROVE  SpendingInv'
<1>1. UNCHANGED Spending!rows /\ ExpensesInv' /\ UNCHANGED <<expenses, day>>
  BY SameRows DEF SpendingInv, Spending!recordExpense, Spending!reverseExpense, Spending!rows
<1>2. PICK t \in Asked : Spending!Begin(q, t) /\ t.at \in {"posting", "reversing"}
  <2>1. CASE Spending!recordExpense(q)
    <3>1. PICK k \in Spending!Keys : Spending!Begin(q, [at |-> "posting", key |-> k, expense |-> None])
      BY <2>1 DEF Spending!recordExpense
    <3>2. [at |-> "posting", key |-> k, expense |-> None] \in Asked
      BY DEF Asked
    <3> QED BY <3>1, <3>2
  <2>2. CASE Spending!reverseExpense(q)
    <3>1. PICK i \in Spending!ListExpenses \union {Len(expenses) + 1} :
             Spending!Begin(q, [at |-> "reversing", reverses |-> i, expense |-> None])
      BY <2>2 DEF Spending!reverseExpense
    <3>2. i \in Nat
      BY DEF SpendingInv, ExpensesInv, Spending!Ids, Spending!ListExpenses, Spending!ListExpensesDetailed
    <3>3. [at |-> "reversing", reverses |-> i, expense |-> None] \in Asked
      BY <3>2 DEF Asked
    <3> QED BY <3>1, <3>3
  <2> QED BY <2>1, <2>2
<1> QED BY <1>1, <1>2, BeginStep

(* A request goes on, or is answered with a row. *)
LEMMA GoesOn ==
    ASSUME SpendingInv, NEW q \in Requests, NEW at \in {"posting", "absent", "reversing", "standing", "failed"},
           NEW t \in Asked, t = [request[q] EXCEPT !.at = at], 
           Spending!Proceed(q, at), ExpensesInv', Spending!Ids \subseteq Spending!Ids',
           \A i \in Spending!Ids : expenses'[i] = expenses[i],
           at = "standing" => t.reverses \in Spending!Ids
    PROVE  SpendingInv'
<1>1. /\ request'[q] = t /\ \A r \in Requests \ {q} : request'[r] = request[r]
      /\ DOMAIN request' = Requests
  BY DEF SpendingInv, Spending!Proceed
<1>2. t.at = at
  <2>1. request[q] \in Asked
    BY DEF SpendingInv, AnswersInv
  <2> QED BY <2>1 DEF Asked
<1>3. AnswersInv' /\ DOMAIN request' = Requests
  BY <1>1, <1>2, AnswersAfter
<1> QED BY <1>3 DEF SpendingInv

LEMMA IsAnswered ==
    ASSUME SpendingInv, NEW q \in Requests, NEW id \in Spending!Ids', id \in Nat, Spending!Created(q, id),
           ExpensesInv',
           Spending!Ids \subseteq Spending!Ids', \A i \in Spending!Ids : expenses'[i] = expenses[i],
           request[q].at \in {"posting", "absent", "standing"},
           "key" \in DOMAIN request[q] => expenses'[id].key = request[q].key
    PROVE  SpendingInv'
<1> DEFINE t == [request[q] EXCEPT !.at = "created", !.expense = id]
<1>1. request[q] \in Asked
  BY DEF SpendingInv, AnswersInv
<1>2. /\ t \in Asked /\ t.at = "created"
      /\ ("key" \in DOMAIN t => t.expense = id /\ "key" \in DOMAIN request[q] /\ t.key = request[q].key)
  BY <1>1 DEF Asked
<1>3. /\ request'[q] = t /\ \A r \in Requests \ {q} : request'[r] = request[r]
      /\ DOMAIN request' = Requests
  BY DEF SpendingInv, Spending!Created
<1> HIDE DEF t
<1>4. AnswersInv' /\ DOMAIN request' = Requests
  BY <1>2, <1>3, AnswersAfter
<1> QED BY <1>4 DEF SpendingInv


LEMMA RecordStep == ASSUME SpendingInv, NEW q \in Requests, Spending!RecordExpense(q) PROVE SpendingInv'
<1> DEFINE k == request[q].key
           found == Spending!GetExpenseByIdempotencyKey(k)
           posted == Spending!Expense(Queued[k].category, Queued[k].amountKobo, k, Queued[k].occurredAt, None)
<1>0. request[q] \in Asked /\ request[q].at \in {"posting", "absent"}
  BY DEF SpendingInv, AnswersInv, Spending!RecordExpense
<1>1. k \in Spending!Keys /\ "key" \in DOMAIN request[q]
  BY <1>0 DEF Asked
<1>2. ASSUME NEW at \in {"absent", "failed"}, Spending!Proceed(q, at), UNCHANGED Spending!rows
      PROVE  SpendingInv'
  <2> DEFINE t == [request[q] EXCEPT !.at = at]
  <2>1. t \in Asked
    BY <1>0 DEF Asked
  <2>2. ExpensesInv' /\ Spending!Ids' = Spending!Ids /\ expenses' = expenses
    BY <1>2, SameRows DEF SpendingInv
  <2>3. at # "standing"
    BY <1>2
  <2> HIDE DEF t
  <2>4. t = [request[q] EXCEPT !.at = at]
    BY DEF t
  <2> QED BY <1>2, <2>1, <2>2, <2>3, <2>4, GoesOn
<1>3. ASSUME NEW i \in found, Spending!Created(q, i), UNCHANGED Spending!rows
      PROVE  SpendingInv'
  <2>1. ExpensesInv' /\ Spending!Ids' = Spending!Ids /\ expenses' = expenses
    BY <1>3, SameRows DEF SpendingInv
  <2>2. i \in Spending!Ids' /\ i \in Nat /\ expenses'[i].key = request[q].key
    BY <2>1 DEF Spending!GetExpenseByIdempotencyKey, Spending!Ids, SpendingInv, ExpensesInv
  <2> QED BY <1>0, <1>3, <2>1, <2>2, IsAnswered
<1>4. ASSUME Spending!CreateExpense(posted), Spending!Created(q, Len(expenses) + 1), UNCHANGED <<purposes, day>>
      PROVE  SpendingInv'
  <2>1. posted \in ExpenseRow
    BY <1>1, SpendingAssumption DEF Spending!Expense, ExpenseRow, Spending!QueuedAssumption
  <2>2. posted.reversalOf = None /\ posted.key = k /\ posted.amountKobo = Queued[k].amountKobo
    BY DEF Spending!Expense
  <2> HIDE DEF posted, k
  <2>3. /\ ExpensesInv' /\ Spending!Ids' = Spending!Ids \cup {Len(expenses) + 1}
        /\ Len(expenses) + 1 \in Spending!Ids'
        /\ \A i \in Spending!Ids : expenses'[i] = expenses[i]
        /\ expenses'[Len(expenses) + 1] = posted
    BY <1>1, <1>4, <2>1, <2>2, RowPosted DEF SpendingInv
  <2>4. Len(expenses) + 1 \in Nat
    BY DEF SpendingInv, ExpensesInv
  <2>5. expenses'[Len(expenses) + 1].key = request[q].key
    BY <2>2, <2>3 DEF k
  <2> QED BY <1>0, <1>4, <2>3, <2>4, <2>5, IsAnswered
<1>5. CASE request[q].at = "posting"
  <2>1. /\ UNCHANGED Spending!rows
        /\ IF found = {} THEN Spending!Proceed(q, "absent") ELSE \E i \in found : Spending!Created(q, i)
    BY <1>5 DEF Spending!RecordExpense
  <2> QED BY <1>2, <1>3, <2>1
<1>6. CASE request[q].at = "absent"
  <2>1. CASE Spending!CreateExpense(posted) /\ Spending!Created(q, Len(expenses) + 1)
    BY <1>4, <1>6, <2>1 DEF Spending!RecordExpense
  <2>2. CASE Spending!Failed(q) /\ UNCHANGED expenses
    BY <1>2, <1>6, <2>2 DEF Spending!RecordExpense, Spending!Failed, Spending!rows
  <2> QED BY <1>6, <2>1, <2>2 DEF Spending!RecordExpense
<1> QED BY <1>0, <1>5, <1>6

LEMMA ReverseStep == ASSUME SpendingInv, NEW q \in Requests, Spending!ReverseExpense(q) PROVE SpendingInv'
<1> DEFINE id == request[q].reverses
           reversal == Spending!Expense(expenses[id].category, Spending!Opposite(expenses[id].amountKobo),
                               Len(expenses) + 1, day, id)
<1>0. request[q] \in Asked /\ request[q].at \in {"reversing", "standing"}
  BY DEF SpendingInv, AnswersInv, Spending!ReverseExpense
<1>1. CASE request[q].at = "reversing"
  <2>1. /\ UNCHANGED Spending!rows
        /\ IF Spending!GetExpenseByID(id) = {} \/ Spending!GetReversalOfExpense(id) # {}
           THEN Spending!Proceed(q, "failed") ELSE Spending!Proceed(q, "standing")
    BY <1>1 DEF Spending!ReverseExpense, Spending!Failed
  <2>2. ExpensesInv' /\ Spending!Ids' = Spending!Ids /\ expenses' = expenses
    BY <2>1, SameRows DEF SpendingInv
  <2>3. PICK at \in {"failed", "standing"} : Spending!Proceed(q, at) /\ (at = "standing" => id \in Spending!Ids)
    BY <2>1 DEF Spending!GetExpenseByID
  <2> DEFINE t == [request[q] EXCEPT !.at = at]
  <2>4. t \in Asked /\ t.reverses = id
    BY <1>0, <1>1 DEF Asked
  <2>5. t = [request[q] EXCEPT !.at = at]
    OBVIOUS
  <2> HIDE DEF t
  <2> QED BY <2>2, <2>3, <2>4, <2>5, GoesOn
<1>2. CASE request[q].at = "standing"
  <2>0. Spending!CreateExpense(reversal) /\ Spending!Created(q, Len(expenses) + 1) /\ UNCHANGED <<purposes, day>>
    BY <1>2 DEF Spending!ReverseExpense
  <2>1. id \in Spending!Ids /\ "key" \notin DOMAIN request[q]
    BY <1>0, <1>2 DEF SpendingInv, AnswersInv, Asked
  <2>2. expenses[id] \in ExpenseRow /\ id \in Nat /\ Len(expenses) + 1 \in Nat
    BY <2>1 DEF SpendingInv, ExpensesInv, Spending!Ids
  <2>3. reversal \in ExpenseRow
    BY <2>2 DEF Spending!Expense, ExpenseRow, Spending!Opposite, SpendingInv, ExpensesInv
  <2>4. /\ reversal.reversalOf = id /\ reversal.key = Len(expenses) + 1
        /\ reversal.amountKobo = -expenses[id].amountKobo
    BY <2>2 DEF Spending!Expense, Spending!Opposite
  <2> HIDE DEF reversal, id
  <2>5. /\ ExpensesInv' /\ Spending!Ids' = Spending!Ids \cup {Len(expenses) + 1}
        /\ Len(expenses) + 1 \in Spending!Ids'
        /\ \A i \in Spending!Ids : expenses'[i] = expenses[i]
    BY <2>0, <2>1, <2>3, <2>4, RowPosted DEF SpendingInv
  <2> QED BY <1>0, <1>2, <2>0, <2>1, <2>2, <2>5, IsAnswered
<1> QED BY <1>0, <1>1, <1>2

LEMMA AnswerStep == ASSUME SpendingInv, NEW q \in Requests, Spending!Answer(q) PROVE SpendingInv'
<1>1. Spending!Free \in Asked /\ Spending!Free.at = "free"
  BY DEF Spending!Free, Asked
<1>2. /\ request'[q] = Spending!Free /\ (\A r \in Requests \ {q} : request'[r] = request[r])
      /\ DOMAIN request' = Requests
  BY DEF SpendingInv, Spending!Answer
<1>3. ExpensesInv' /\ Spending!Ids' = Spending!Ids /\ expenses' = expenses
  BY SameRows DEF SpendingInv, Spending!Answer
<1>4. AnswersInv' /\ DOMAIN request' = Requests
  BY <1>1, <1>2, <1>3, AnswersAfter
<1> QED BY <1>3, <1>4 DEF SpendingInv

LEMMA SpendingStep == SpendingInv /\ [Spending!Next]_Spending!vars => SpendingInv'
<1> SUFFICES ASSUME SpendingInv, [Spending!Next]_Spending!vars PROVE SpendingInv'
  OBVIOUS
<1>1. CASE UNCHANGED Spending!vars
  BY <1>1 DEF Spending!vars, SpendingInv, ExpensesInv, AnswersInv, Spending!Ids, IsPosted, IsReversal, Spending!Days
<1>2. CASE Spending!Midnight
  <2>1. day' \in Spending!Days /\ UNCHANGED <<purposes, expenses, request>>
    BY <1>2, SpendingAssumption DEF Spending!Midnight, Spending!Days, SpendingInv, ExpensesInv,
                                    Spending!BoundsAssumption
  <2> QED BY <2>1 DEF SpendingInv, ExpensesInv, AnswersInv, Spending!Ids, IsPosted, IsReversal, Spending!Days
<1>3. ASSUME NEW q \in Requests,
             \/ Spending!createExpenseCategory(q)
             \/ Spending!recordExpense(q) \/ Spending!RecordExpense(q)
             \/ Spending!reverseExpense(q) \/ Spending!ReverseExpense(q)
             \/ Spending!Answer(q)
      PROVE  SpendingInv'
  BY <1>3, PurposeStep, AsksStep, RecordStep, ReverseStep, AnswerStep
<1> QED BY <1>1, <1>2, <1>3 DEF Spending!Next

LEMMA SpendingTypes == ASSUME SpendingInv PROVE Spending!TypeOK
<1>1. \A i \in Spending!Ids : /\ expenses[i].category \in purposes
                              /\ expenses[i].occurredAt \in Spending!Days
                              /\ expenses[i].reversalOf \in (1..(i - 1)) \union {None}
  <2>1. TAKE i \in Spending!Ids
  <2>2. expenses[i] \in ExpenseRow
    BY DEF SpendingInv, ExpensesInv, Spending!Ids
  <2>3. expenses[i].category \in purposes /\ expenses[i].occurredAt \in Spending!Days
    BY <2>2 DEF ExpenseRow, SpendingInv, ExpensesInv
  <2> QED BY <2>3 DEF SpendingInv, ExpensesInv, IsReversal
<1>2. \A q \in Requests : request[q].at \in {"free", "named", "posting", "absent", "reversing", "standing",
                                            "created", "failed"}
  BY DEF SpendingInv, AnswersInv, Asked
<1> QED BY <1>1, <1>2 DEF SpendingInv, ExpensesInv, Spending!TypeOK

LEMMA PostedOnceHolds == ASSUME SpendingInv PROVE Spending!PostedOnce
<1> SUFFICES ASSUME NEW p \in Requests, request[p].at = "created", "key" \in DOMAIN request[p]
             PROVE  /\ {i \in Spending!Ids : expenses[i].key = request[p].key} = {request[p].expense}
                    /\ Spending!Kobo[request[p].expense] = Queued[request[p].key].amountKobo
  BY DEF Spending!PostedOnce
<1> DEFINE e == request[p].expense
<1>1. e \in Spending!Ids /\ expenses[e].key = request[p].key /\ request[p].key \in Spending!Keys
  BY DEF SpendingInv, AnswersInv, Asked
<1>2. \A i \in Spending!Ids : expenses[i].key = expenses[e].key => i = e
  BY <1>1 DEF SpendingInv, ExpensesInv
<1>3. e \notin Spending!Keys
  BY <1>1, SpendingAssumption DEF Spending!KeysAssumption, SpendingInv, ExpensesInv, Spending!Ids
<1>4. IsPosted(e)
  BY <1>1, <1>3 DEF SpendingInv, ExpensesInv, IsReversal
<1> QED BY <1>1, <1>2, <1>4 DEF IsPosted, Spending!Kobo


(* Figures *)

One == [i \in Spending!Ids |-> IF expenses[i].reversalOf = None THEN 1 ELSE 0]

LEMMA RowsAreFinite ==
    ASSUME SpendingInv
    PROVE  /\ IsFiniteSet(Spending!Ids) /\ Spending!Ids \subseteq Nat
           /\ \A i \in Spending!Ids : expenses[i] \in ExpenseRow
           /\ \A i \in Spending!Ids : Spending!Kobo[i] \in Int /\ One[i] \in Int
<1>1. Spending!Ids = 1..Len(expenses) /\ Len(expenses) \in Nat /\ \A i \in Spending!Ids : expenses[i] \in ExpenseRow
  BY DEF SpendingInv, ExpensesInv, Spending!Ids
<1>2. IsFiniteSet(Spending!Ids)
  BY <1>1, FS_Interval
<1> QED BY <1>1, <1>2 DEF Spending!Kobo, One, ExpenseRow

(* Both figures are sums. *)
LEMMA FiguresAreSums ==
    ASSUME SpendingInv, NEW those \in SUBSET Spending!Ids
    PROVE  /\ IsFiniteSet(those)
           /\ Spending!Figures(those).totalKobo = SumOver(Spending!Kobo, those)
           /\ Spending!Figures(those).count = SumOver(One, those)
           /\ SumOver(Spending!Kobo, those) \in Int /\ SumOver(One, those) \in Int
<1>1. /\ IsFiniteSet(those)
      /\ \A i \in those : Spending!Kobo[i] \in Int /\ One[i] \in Int
  BY RowsAreFinite, FS_Subset
<1> DEFINE posts == {i \in those : expenses[i].reversalOf = None}
<1>2. posts \in SUBSET those /\ IsFiniteSet(posts)
  BY <1>1, FS_Subset
<1>3. (\A i \in posts : One[i] = 1) /\ \A i \in those \ posts : One[i] = 0
  BY DEF One
<1>4. /\ Spending!Figures(those).totalKobo = SumOver(Spending!Kobo, those)
      /\ Spending!Figures(those).count = Cardinality(posts)
  BY SpendingSums, SpendingCounts DEF Spending!Figures
<1> HIDE DEF posts
<1>5. SumOver(One, posts) = Cardinality(posts)
  BY <1>2, <1>3, CountIsSum
<1>6. SumOver(One, those) = SumOver(One, posts)
  BY <1>1, <1>2, <1>3, SumWithoutZeros
<1> QED BY <1>1, <1>4, <1>5, <1>6, SumType

LEMMA FiguresAgreeHolds == ASSUME SpendingInv PROVE Spending!FiguresAgree
<1> SUFFICES ASSUME NEW start \in 1..(LastDay + 1), NEW end \in 1..(LastDay + 1), start <= end
             PROVE  LET report == Spending!reportExpenses(start, end)
                    IN /\ SumOver([c \in purposes |-> report[c].totalKobo], purposes) =
                              Spending!SumExpensesSince(start).totalKobo - Spending!SumExpensesSince(end).totalKobo
                       /\ SumOver([c \in purposes |-> report[c].count], purposes) =
                              Spending!SumExpensesSince(start).count - Spending!SumExpensesSince(end).count
  BY SpendingSums DEF Spending!FiguresAgree
<1> DEFINE since(s) == {i \in Spending!Ids : expenses[i].occurredAt >= s}
           within == {i \in Spending!Ids : expenses[i].occurredAt \in start..(end - 1)}
           ofOne(c) == {i \in Spending!Ids : expenses[i].category = c /\ expenses[i].occurredAt \in start..(end - 1)}
           report == Spending!reportExpenses(start, end)
           totals == [c \in purposes |-> report[c].totalKobo]
           counts == [c \in purposes |-> report[c].count]
           category == [i \in Spending!Ids |-> expenses[i].category]
           of == [c \in purposes |-> ofOne(c)]
<1>1. \A i \in Spending!Ids : expenses[i].occurredAt \in Int /\ expenses[i].category \in purposes
  <2>1. LastDay \in Nat
    BY SpendingAssumption DEF Spending!BoundsAssumption
  <2> QED BY <2>1, RowsAreFinite DEF ExpenseRow, Spending!Days, SpendingInv, ExpensesInv
<1>2. start \in Int /\ end \in Int
  BY SpendingAssumption DEF Spending!BoundsAssumption
<1>3. since(start) = within \cup since(end) /\ within \cap since(end) = {}
  BY <1>1, <1>2
<1>4. IsFiniteSet(purposes)
  BY SpendingAssumption, SpendingFinite, FS_Subset DEF Spending!BoundsAssumption, SpendingInv, ExpensesInv
<1>5. \A c \in purposes : of[c] = ofOne(c) /\ of[c] = {i \in within : category[i] = c}
  OBVIOUS
<1>6. \A i \in within : category[i] \in purposes
  BY <1>1
<1>7. /\ since(start) \in SUBSET Spending!Ids /\ since(end) \in SUBSET Spending!Ids
      /\ within \in SUBSET Spending!Ids /\ \A c : ofOne(c) \in SUBSET Spending!Ids
  OBVIOUS
<1>8. /\ Spending!SumExpensesSince(start) = Spending!Figures(since(start))
      /\ Spending!SumExpensesSince(end) = Spending!Figures(since(end))
      /\ \A c \in purposes : report[c] = Spending!Figures(ofOne(c))
  BY DEF Spending!SumExpensesSince, Spending!SumExpensesTotalSince, Spending!reportExpenses,
         Spending!ExpensesByCategory, Spending!SumExpensesByCategory
<1>9. \A c \in purposes : totals[c] = report[c].totalKobo /\ counts[c] = report[c].count
  OBVIOUS
<1> HIDE DEF since, within, ofOne, of, report, totals, counts, category
<1>10. /\ \A c \in purposes : totals[c] = SumOver(Spending!Kobo, of[c])
       /\ \A c \in purposes : counts[c] = SumOver(One, of[c])
  BY <1>5, <1>7, <1>8, <1>9, FiguresAreSums
<1>11. /\ IsFiniteSet(within) /\ IsFiniteSet(since(end))
       /\ \A i \in within \cup since(end) : Spending!Kobo[i] \in Int /\ One[i] \in Int
  BY <1>7, FS_Subset, RowsAreFinite
<1>12. SumOver(totals, purposes) = SumOver(Spending!Kobo, within)
  BY <1>4, <1>5, <1>6, <1>10, <1>11, SumByGroup
<1>13. SumOver(counts, purposes) = SumOver(One, within)
  BY <1>4, <1>5, <1>6, <1>10, <1>11, SumByGroup
<1>14. SumOver(Spending!Kobo, since(start)) = SumOver(Spending!Kobo, within) + SumOver(Spending!Kobo, since(end))
  BY <1>3, <1>11, SumUnion
<1>15. SumOver(One, since(start)) = SumOver(One, within) + SumOver(One, since(end))
  BY <1>3, <1>11, SumUnion
<1>16. /\ Spending!SumExpensesSince(start).totalKobo = SumOver(Spending!Kobo, since(start))
       /\ Spending!SumExpensesSince(start).count = SumOver(One, since(start))
       /\ Spending!SumExpensesSince(end).totalKobo = SumOver(Spending!Kobo, since(end))
       /\ Spending!SumExpensesSince(end).count = SumOver(One, since(end))
       /\ SumOver(Spending!Kobo, since(end)) \in Int /\ SumOver(One, since(end)) \in Int
       /\ SumOver(Spending!Kobo, within) \in Int /\ SumOver(One, within) \in Int
  BY <1>7, <1>8, FiguresAreSums
<1>17. /\ SumOver(totals, purposes) =
              Spending!SumExpensesSince(start).totalKobo - Spending!SumExpensesSince(end).totalKobo
       /\ SumOver(counts, purposes) =
              Spending!SumExpensesSince(start).count - Spending!SumExpensesSince(end).count
  BY <1>12, <1>13, <1>14, <1>15, <1>16
<1> QED BY <1>17 DEF totals, counts, report


(* Reversals are later rows, so which rows stand is determined from the last. *)
Right(g, k) == \A i \in Spending!Ids :
    i >= k => (g[i] <=> \A j \in Spending!Ids : expenses[j].reversalOf = i => ~g[j])

LEMMA ReversalsAreLater ==
    ASSUME SpendingInv
    PROVE  \A i, j \in Spending!Ids : expenses[j].reversalOf = i => i < j /\ Spending!Kobo[j] = -Spending!Kobo[i]
<1> SUFFICES ASSUME NEW i \in Spending!Ids, NEW j \in Spending!Ids, expenses[j].reversalOf = i
             PROVE  i < j /\ Spending!Kobo[j] = -Spending!Kobo[i]
  OBVIOUS
<1>1. i \in Nat /\ j \in Nat
  BY RowsAreFinite
<1>2. IsReversal(j)
  BY <1>1, SpendingAssumption DEF Spending!NoneAssumption, SpendingInv, ExpensesInv
<1> QED BY <1>1, <1>2 DEF IsReversal, Spending!Kobo

LEMMA SomeRight == ASSUME SpendingInv PROVE \E g \in [Spending!Ids -> BOOLEAN] : Right(g, 1)
<1> DEFINE n == Len(expenses)
           Bad == {m \in 0..n : ~ \E g \in [Spending!Ids -> BOOLEAN] : Right(g, n + 1 - m)}
<1>1. n \in Nat /\ Spending!Ids = 1..n
  BY DEF SpendingInv, ExpensesInv, Spending!Ids
<1>2. Bad = {}
  <2> SUFFICES ASSUME Bad # {} PROVE FALSE
    OBVIOUS
  <2>1. PICK m \in Bad : \A k \in Bad : m <= k
    <3>1. Bad \in SUBSET Nat
      BY <1>1
    <3> HIDE DEF Bad
    <3> QED BY <3>1, SmallestOf
  <2>2. m # 0
    <3> SUFFICES ASSUME m = 0 PROVE FALSE
      OBVIOUS
    <3> DEFINE all == [i \in Spending!Ids |-> TRUE]
    <3>1. all \in [Spending!Ids -> BOOLEAN] /\ Right(all, n + 1)
      BY <1>1 DEF Right
    <3>2. n + 1 - m = n + 1
      BY <1>1
    <3> HIDE DEF all
    <3> QED BY <3>1, <3>2
  <2>3. m - 1 \in 0..n /\ m - 1 \notin Bad
    BY <1>1, <2>1, <2>2
  <2>4. PICK k \in Spending!Ids : k = n + 1 - m
    BY <1>1, <2>2
  <2>5. n + 1 - (m - 1) = k + 1
    BY <1>1, <2>4
  <2>6. PICK g \in [Spending!Ids -> BOOLEAN] : Right(g, k + 1)
    BY <2>3, <2>5
  <2> DEFINE at == \A j \in Spending!Ids : expenses[j].reversalOf = k => ~g[j]
             h == [i \in Spending!Ids |-> IF i = k THEN at ELSE g[i]]
  <2>7. h \in [Spending!Ids -> BOOLEAN] /\ (h[k] <=> at) /\ \A i \in Spending!Ids : i # k => h[i] = g[i]
    BY <2>6
  <2> HIDE DEF h
  <2>8. ASSUME NEW i \in Spending!Ids, i >= k
        PROVE  h[i] <=> \A j \in Spending!Ids : expenses[j].reversalOf = i => ~h[j]
    <3>1. \A j \in Spending!Ids : expenses[j].reversalOf = i => j # k
      BY <1>1, <2>8, ReversalsAreLater
    <3>2. CASE i = k
      BY <2>7, <3>1, <3>2
    <3>3. CASE i # k
      <4>1. i >= k + 1
        BY <1>1, <2>8, <3>3
      <4> QED BY <2>6, <2>7, <3>1, <3>3, <4>1 DEF Right
    <3> QED BY <3>2, <3>3
  <2>9. Right(h, k)
    BY <2>8 DEF Right
  <2> QED BY <2>1, <2>4, <2>7, <2>9
<1>3. n \notin Bad /\ n \in 0..n /\ n + 1 - n = 1
  BY <1>1, <1>2
<1> QED BY <1>3

LEMMA StandsIs ==
    ASSUME SpendingInv
    PROVE  \A i \in Spending!Ids :
               Spending!Stands[i] <=> \A j \in Spending!Ids : expenses[j].reversalOf = i => ~Spending!Stands[j]
<1> DEFINE Of(g) == [i \in Spending!Ids |-> \A j \in Spending!Ids : expenses[j].reversalOf = i => ~g[j]]
<1>1. PICK g \in [Spending!Ids -> BOOLEAN] : Right(g, 1)
  BY SomeRight
<1>2. g = Of(g)
  <2>1. \A i \in Spending!Ids : i >= 1
    BY DEF SpendingInv, ExpensesInv, Spending!Ids
  <2>2. \A i \in Spending!Ids : g[i] <=> \A j \in Spending!Ids : expenses[j].reversalOf = i => ~g[j]
    BY <1>1, <2>1 DEF Right
  <2>3. \A i \in Spending!Ids : g[i] = Of(g)[i]
    BY <2>2
  <2>4. Of(g) \in [Spending!Ids -> BOOLEAN]
    OBVIOUS
  <2> QED BY <2>3, <2>4
<1>3. Spending!Stands = CHOOSE f : f = Of(f)
  BY DEF Spending!Stands
<1>4. Spending!Stands = Of(Spending!Stands)
  BY <1>2, <1>3
<1> QED BY <1>4


(* Of the rows from some row on, those that stand and reverse none of them    *)
(* add up to all of them.                                                     *)
LEMMA StandingRowsAddUp ==
    ASSUME SpendingInv, Spending!ReversedOnce
    PROVE  SumOver(Spending!Kobo, Spending!Ids) =
           SumOver(Spending!Kobo, {i \in Spending!Ids :
                                      expenses[i].reversalOf \notin Spending!Ids /\ Spending!Stands[i]})
<1> DEFINE n == Len(expenses)
           Up(k) == {i \in Spending!Ids : i >= k}
           Left(k) == {i \in Up(k) : expenses[i].reversalOf \notin Up(k) /\ Spending!Stands[i]}
           Bad == {m \in 0..n : SumOver(Spending!Kobo, Up(n + 1 - m)) # SumOver(Spending!Kobo, Left(n + 1 - m))}
<1>1. /\ n \in Nat /\ Spending!Ids = 1..n /\ IsFiniteSet(Spending!Ids)
      /\ \A i \in Spending!Ids : Spending!Kobo[i] \in Int
  BY RowsAreFinite DEF SpendingInv, ExpensesInv, Spending!Ids
<1>2. \A k : /\ Up(k) \in SUBSET Spending!Ids /\ Left(k) \in SUBSET Spending!Ids /\ IsFiniteSet(Up(k))
             /\ IsFiniteSet(Left(k))
  BY <1>1, FS_Subset
<1>3. ASSUME NEW k \in Spending!Ids, SumOver(Spending!Kobo, Up(k + 1)) = SumOver(Spending!Kobo, Left(k + 1))
      PROVE  SumOver(Spending!Kobo, Up(k)) = SumOver(Spending!Kobo, Left(k))
  <2>1. Up(k) = Up(k + 1) \cup {k} /\ k \notin Up(k + 1) /\ Left(k + 1) \subseteq Up(k + 1)
    BY <1>1
  <2>2. expenses[k].reversalOf \notin Up(k)
    BY <1>1, ReversalsAreLater
  <2>3. SumOver(Spending!Kobo, Up(k)) = SumOver(Spending!Kobo, Left(k + 1)) + Spending!Kobo[k]
    <3> HIDE DEF Up, Left
    <3>1. SumOver(Spending!Kobo, Up(k + 1) \cup {k}) = SumOver(Spending!Kobo, Up(k + 1)) + Spending!Kobo[k]
      BY <1>1, <1>2, <2>1, SumAdd
    <3> QED BY <1>3, <2>1, <3>1
  <2>4. CASE \A j \in Spending!Ids : expenses[j].reversalOf = k => ~Spending!Stands[j]
    <3>1. Spending!Stands[k]
      BY <2>4, StandsIs
    <3>2. Left(k) = Left(k + 1) \cup {k}
      BY <2>1, <2>2, <2>4, <3>1
    <3>3. k \notin Left(k + 1)
      BY <2>1
    <3> HIDE DEF Up, Left
    <3>4. SumOver(Spending!Kobo, Left(k + 1) \cup {k}) = SumOver(Spending!Kobo, Left(k + 1)) + Spending!Kobo[k]
      BY <1>1, <1>2, <3>3, SumAdd
    <3> QED BY <2>3, <3>2, <3>4
  <2>5. ASSUME NEW r \in Spending!Ids, expenses[r].reversalOf = k, Spending!Stands[r]
        PROVE  SumOver(Spending!Kobo, Up(k)) = SumOver(Spending!Kobo, Left(k))
    <3>1. ~Spending!Stands[k]
      BY <2>5, StandsIs
    <3>2. \A j \in Spending!Ids : expenses[j].reversalOf = k => j = r
      <4>1. k # None
        BY <1>1, SpendingAssumption DEF Spending!NoneAssumption
      <4> QED BY <2>5, <4>1 DEF Spending!ReversedOnce
    <3>3. r > k /\ Spending!Kobo[r] = -Spending!Kobo[k] /\ r \in Up(k + 1)
      BY <1>1, <2>5, ReversalsAreLater
    <3>4. r \in Left(k + 1)
      BY <2>1, <2>5, <3>3
    <3>5. Left(k) = Left(k + 1) \ {r}
      BY <2>1, <2>5, <3>1, <3>2
    <3> HIDE DEF Up, Left
    <3>6. SumOver(Spending!Kobo, Left(k + 1)) = Spending!Kobo[r] + SumOver(Spending!Kobo, Left(k + 1) \ {r})
      <4>1. IsFiniteSet(Left(k + 1)) /\ \A i \in Left(k + 1) : Spending!Kobo[i] \in Int
        BY <1>1, <1>2
      <4> HIDE DEF Spending!Kobo
      <4> QED BY <3>4, <4>1, SumTake
    <3>7. SumOver(Spending!Kobo, Left(k)) \in Int
      BY <1>1, <1>2, SumType
    <3> QED BY <1>1, <2>3, <3>3, <3>5, <3>6, <3>7
  <2> QED BY <2>4, <2>5
<1> HIDE DEF Up, Left
<1>4. Bad = {}
  <2> SUFFICES ASSUME Bad # {} PROVE FALSE
    OBVIOUS
  <2>1. PICK m \in Bad : \A k \in Bad : m <= k
    <3>1. Bad \in SUBSET Nat
      BY <1>1
    <3> HIDE DEF Bad
    <3> QED BY <3>1, SmallestOf
  <2>2. m # 0
    <3> SUFFICES ASSUME m = 0 PROVE FALSE
      OBVIOUS
    <3>1. n + 1 - m = n + 1 /\ Up(n + 1) = {} /\ Left(n + 1) = {}
      BY <1>1 DEF Up, Left
    <3> QED BY <3>1
  <2>3. m - 1 \in 0..n /\ m - 1 \notin Bad
    <3>1. m \in 0..n
      OBVIOUS
    <3>2. m - 1 \in 0..n /\ ~(m <= m - 1)
      BY <1>1, <2>2, <3>1
    <3> HIDE DEF Bad
    <3> QED BY <2>1, <3>2
  <2>4. PICK k \in Spending!Ids : k = n + 1 - m
    <3>1. m \in 0..n
      OBVIOUS
    <3> QED BY <1>1, <2>2, <3>1
  <2>5. n + 1 - (m - 1) = k + 1
    BY <1>1, <2>4
  <2>6. SumOver(Spending!Kobo, Up(k + 1)) = SumOver(Spending!Kobo, Left(k + 1))
    BY <2>3, <2>5
  <2> QED BY <1>3, <2>1, <2>4, <2>6
<1>5. Up(1) = Spending!Ids
  BY <1>1 DEF Up
<1>6. SumOver(Spending!Kobo, Up(1)) = SumOver(Spending!Kobo, Left(1))
  <2>1. n \notin Bad
    <3> HIDE DEF Bad
    <3> QED BY <1>4
  <2>2. n \in 0..n /\ n + 1 - n = 1
    BY <1>1
  <2> QED BY <2>1, <2>2
<1>7. Left(1) = {i \in Spending!Ids : expenses[i].reversalOf \notin Spending!Ids /\ Spending!Stands[i]}
  BY <1>5 DEF Left
<1> QED BY <1>5, <1>6, <1>7

LEMMA TotalStandsHolds == ASSUME SpendingInv PROVE Spending!TotalStands
<1> SUFFICES ASSUME Spending!ReversedOnce
             PROVE  Spending!SumExpensesSince(1).totalKobo
                    = SumOver(Spending!Kobo, {i \in Spending!Ids :
                                                 expenses[i].reversalOf = None /\ Spending!Stands[i]})
  BY SpendingSums DEF Spending!TotalStands
<1> DEFINE since == {i \in Spending!Ids : expenses[i].occurredAt >= 1}
           left == {i \in Spending!Ids : expenses[i].reversalOf \notin Spending!Ids /\ Spending!Stands[i]}
<1>1. since = Spending!Ids
  <2>1. LastDay \in Nat
    BY SpendingAssumption DEF Spending!BoundsAssumption
  <2> QED BY <2>1, RowsAreFinite DEF ExpenseRow, Spending!Days
<1>2. Spending!SumExpensesSince(1) = Spending!Figures(since)
  BY DEF Spending!SumExpensesSince, Spending!SumExpensesTotalSince
<1>3. \A i \in Spending!Ids : expenses[i].reversalOf \notin Spending!Ids <=> expenses[i].reversalOf = None
  <2>1. TAKE i \in Spending!Ids
  <2>2. None \notin Spending!Ids
    BY SpendingAssumption, RowsAreFinite DEF Spending!NoneAssumption
  <2>3. CASE expenses[i].reversalOf # None
    <3>1. expenses[i].reversalOf \in 1..(i - 1) /\ Spending!Ids = 1..Len(expenses) /\ Len(expenses) \in Nat
      BY <2>3 DEF SpendingInv, ExpensesInv, IsReversal, Spending!Ids
    <3> QED BY <2>3, <3>1
  <2> QED BY <2>2, <2>3
<1>4. left = {i \in Spending!Ids : expenses[i].reversalOf = None /\ Spending!Stands[i]}
  BY <1>3
<1>5. SumOver(Spending!Kobo, Spending!Ids) = SumOver(Spending!Kobo, left)
  BY StandingRowsAddUp
<1> HIDE DEF since, left
<1>6. Spending!SumExpensesSince(1).totalKobo = SumOver(Spending!Kobo, since)
  BY <1>1, <1>2, FiguresAreSums
<1> QED BY <1>1, <1>4, <1>5, <1>6

(* The expenses add up: of whatever a device queues and however often and     *)
(* whoever posts it (RecordExpense), there is one row; the report by category *)
(* and the summary tell the same of every range of days; and the total is     *)
(* that of the expenses that stand while none is reversed twice.              *)
THEOREM ExpensesAlwaysAddUp == Spending!Spec => []ExpensesAddUp
<1>1. SpendingInv => ExpensesAddUp
  BY SpendingTypes, PostedOnceHolds, FiguresAgreeHolds, TotalStandsHolds DEF ExpensesAddUp
<1> QED BY <1>1, SpendingInit, SpendingStep, PTL DEF Spending!Spec

-----------------------------------------------------------------------------
(* Catalogue. *)

(* Rows *)
CategoryRow == [name : Names, active : BOOLEAN]
ProductRow == [name : Names, category : Nat, active : BOOLEAN, template : Names \cup {Shop!Null}]
VariantRow == [product : Nat, name : Names, active : BOOLEAN, tracks : BOOLEAN]
PriceRow == [variant : Nat, amountKobo : Int, validFrom : Nat, validTo : Nat]

Moments == 1..LastMoment
Suggests(suggested) == DOMAIN suggested \subseteq Names /\ \A n \in DOMAIN suggested : suggested[n] \in Int

TablesInv ==
    /\ categories \in Seq(CategoryRow) /\ products \in Seq(ProductRow)
    /\ variants \in Seq(VariantRow) /\ prices \in Seq(PriceRow)
    /\ DOMAIN templates \subseteq Names
    /\ \A n \in DOMAIN templates : templates[n].category \in Names /\ Suggests(templates[n].variants)
    /\ release \in 0..Len(Releases) /\ clock \in (1 + Skew)..LastMoment

(* A row refers to rows there are. *)
OfProduct(row) == row \in ProductRow /\ row.category \in DOMAIN categories \cup {Shop!Null}
OfVariant(row) == row \in VariantRow /\ row.product \in DOMAIN products

RefersInv ==
    /\ \A p \in DOMAIN products : OfProduct(products[p])
    /\ \A v \in DOMAIN variants : OfVariant(variants[v])
    /\ \A i \in DOMAIN prices : prices[i].variant \in DOMAIN variants /\ prices[i].validFrom \in Moments

NamesInv ==
    /\ \A p, r \in DOMAIN products : products[p].name = products[r].name => p = r
    /\ \A v, w \in DOMAIN variants :
          variants[v].product = variants[w].product /\ variants[v].name = variants[w].name => v = w

(* The prices of a variant: all but the current one are closed, after they   *)
(* began and not after the current one did; and one holds from some moment on.*)
Single(set) == \E x : set = {x}
Closed(i, c) == prices[i].validTo > prices[i].validFrom /\ prices[i].validTo <= prices[c].validFrom
History(v, c) ==
    /\ prices[c].variant = v /\ prices[c].validTo = Shop!Null
    /\ \A i \in DOMAIN prices : prices[i].variant = v /\ i # c => Closed(i, c)
Throughout(v) == \E born \in Moments : \A t \in 1..(LastMoment + 1) :
                     IF t < born THEN Shop!GetPriceAt(v, t) = {} ELSE Single(Shop!GetPriceAt(v, t))
PricesInv == \A v \in DOMAIN variants : Throughout(v) /\ \E c \in DOMAIN prices : History(v, c)

(* What a request knows of the rows. *)
Closes(r) == /\ r.closes \in DOMAIN prices
             /\ prices[r.closes].variant = r.variant
Holds(r) == /\ prices[r.closes].validTo = Shop!Null
            /\ r.now > prices[r.closes].validFrom
Knows(r) ==
    /\ r.at \in {"free", "priced", "timed", "waiting", "closed", "listing", "products", "variants", "page",
                 "sent", "templates", "read", "resolved"}
    /\ r.at \in {"priced", "timed", "waiting", "closed"} => r.variant \in DOMAIN variants /\ r.amount \in Amounts
    /\ r.at \in {"timed", "waiting", "closed"} => r.now \in Moments
    /\ r.at = "waiting" => Closes(r)
    /\ r.at = "closed" /\ r.closes # Shop!Null => Closes(r) /\ Holds(r)
    /\ r.at \in {"products", "variants", "page"} =>
          DOMAIN r.products \subseteq DOMAIN products /\ \A p \in DOMAIN r.products : OfProduct(r.products[p])
    /\ r.at \in {"variants", "page"} =>
          DOMAIN r.variants \subseteq DOMAIN variants /\ \A v \in DOMAIN r.variants : OfVariant(r.variants[v])
    /\ r.at = "page" => \A v \in DOMAIN r.variants : v \in DOMAIN r.prices /\ Single(r.prices[v])
    /\ r.at = "sent" => /\ r.table \in {"products", "variants"}
                        /\ r.table = "products" => r.id \in DOMAIN products /\ OfProduct(r.row)
                        /\ r.table = "variants" => r.id \in DOMAIN variants /\ OfVariant(r.row)
    /\ r.at \in {"templates", "read", "resolved"} =>
          DOMAIN r.category \subseteq Names /\ \A t \in DOMAIN r.category : r.category[t] \in Names
    /\ r.at = "templates" => DOMAIN r.category \subseteq DOMAIN templates
    /\ r.at \in {"read", "resolved"} => \A t \in DOMAIN r.category : Suggests(r.variants[t])
    /\ r.at = "resolved" => /\ DOMAIN r.found = {r.category[t] : t \in DOMAIN r.category}
                            /\ \A n \in DOMAIN r.found : r.found[n] \in DOMAIN categories \cup {Shop!Null}

CallsInv == DOMAIN call = Requests /\ \A q \in Requests : Knows(call[q])

(* A row is closed by one request at a time. *)
LocksInv == \A q, r \in Requests :
    Shop!At(q, "closed") /\ Shop!At(r, "closed") /\ call[q].closes = call[r].closes /\ call[q].closes # Shop!Null
        => q = r

ShopInv == TablesInv /\ RefersInv /\ NamesInv /\ PricesInv /\ CallsInv /\ LocksInv

LEMMA ShopInit == Shop!Init => ShopInv
<1> SUFFICES ASSUME Shop!Init PROVE ShopInv
  OBVIOUS
<1>1. Len(Releases) \in Nat /\ LastMoment \in Nat /\ Skew \in Nat /\ Skew < LastMoment
  BY ShopAssumption DEF Shop!ReleasesAssumption, Shop!MomentsAssumption
<1>2. TablesInv
  BY <1>1 DEF Shop!Init, TablesInv
<1>3. RefersInv /\ NamesInv /\ PricesInv
  BY DEF Shop!Init, RefersInv, NamesInv, PricesInv
<1>4. CallsInv /\ LocksInv
  BY DEF Shop!Init, CallsInv, LocksInv, Knows, Shop!Free, Shop!At
<1> QED BY <1>2, <1>3, <1>4 DEF ShopInv

(* No row goes, and none moves to another variant. *)
Grows ==
    /\ DOMAIN categories \subseteq DOMAIN categories' /\ DOMAIN products \subseteq DOMAIN products'
    /\ DOMAIN variants \subseteq DOMAIN variants' /\ DOMAIN prices \subseteq DOMAIN prices'
    /\ DOMAIN templates \subseteq DOMAIN templates'
    /\ \A i \in DOMAIN prices : prices'[i].variant = prices[i].variant /\ prices'[i].validFrom = prices[i].validFrom

LEMMA KnowsStill ==
    ASSUME Grows, NEW r, Knows(r),
           r.at = "closed" /\ r.closes # Shop!Null => prices'[r.closes].validTo = prices[r.closes].validTo
    PROVE  Knows(r)'
BY DEF Grows, Knows, Closes, Holds, OfProduct, OfVariant, Suggests

LEMMA CallsAfter ==
    ASSUME ShopInv, Grows, NEW q \in Requests, NEW r, Knows(r)', call' = [call EXCEPT ![q] = r],
           \A s \in Requests \ {q} : Shop!At(s, "closed") /\ call[s].closes # Shop!Null =>
               prices'[call[s].closes].validTo = prices[call[s].closes].validTo
    PROVE  CallsInv'
<1>1. /\ DOMAIN call' = Requests /\ call'[q] = r
      /\ \A s \in Requests \ {q} : call'[s] = call[s]
  BY DEF ShopInv, CallsInv
<1>2. ASSUME NEW s \in Requests PROVE Knows(call[s])'
  <2>1. CASE s = q
    BY <1>1, <2>1
  <2>2. CASE s # q
    <3>1. PICK x : x = call[s]
      OBVIOUS
    <3>2. /\ Knows(x)
          /\ (x.at = "closed" /\ x.closes # Shop!Null => prices'[x.closes].validTo = prices[x.closes].validTo)
      BY <2>2, <3>1 DEF ShopInv, CallsInv, Shop!At
    <3>3. Knows(x)'
      BY <3>2, KnowsStill
    <3> QED BY <1>1, <2>2, <3>1, <3>3
  <2> QED BY <2>1, <2>2
<1> QED BY <1>1, <1>2 DEF CallsInv

LEMMA PricesStay ==
    ASSUME PricesInv, prices' = prices, DOMAIN variants' = DOMAIN variants
    PROVE  PricesInv'
<1> SUFFICES ASSUME NEW v \in DOMAIN variants' PROVE (Throughout(v) /\ \E c \in DOMAIN prices : History(v, c))'
  BY DEF PricesInv
<1>1. Throughout(v) /\ \E c \in DOMAIN prices : History(v, c)
  BY DEF PricesInv
<1>2. \A t : Shop!GetPriceAt(v, t)' = Shop!GetPriceAt(v, t)
  BY DEF Shop!GetPriceAt
<1>3. Throughout(v)'
  BY <1>1, <1>2 DEF Throughout
<1>4. \A c : History(v, c)' <=> History(v, c)
  BY DEF History, Closed
<1> QED BY <1>1, <1>3, <1>4

(* A request that changes no row. *)
LEMMA Quiet ==
    ASSUME ShopInv, UNCHANGED <<Shop!rows, clock>>, NEW q \in Requests, NEW r, Knows(r),
           call' = [call EXCEPT ![q] = r],
           r.at = "closed" /\ r.closes # Shop!Null => ~Shop!Locked(r.closes)
    PROVE  ShopInv'
<1>1. Grows /\ UNCHANGED <<categories, products, variants, prices, templates, release, clock>>
  BY DEF Grows, Shop!rows
<1>2. Knows(r)'
  BY <1>1, KnowsStill
<1>3. CallsInv'
  BY <1>1, <1>2, CallsAfter
<1>4. TablesInv' /\ RefersInv' /\ NamesInv' /\ PricesInv'
  BY <1>1, PricesStay DEF ShopInv, TablesInv, RefersInv, NamesInv, OfProduct, OfVariant
<1>5. LocksInv'
  <2>1. call'[q] = r /\ \A s \in Requests \ {q} : call'[s] = call[s]
    BY DEF ShopInv, CallsInv
  <2> QED BY <2>1 DEF ShopInv, LocksInv, Shop!At, Shop!Locked, Shop!Open
<1> QED BY <1>3, <1>4, <1>5 DEF ShopInv

LEMMA SetsPrice == ASSUME ShopInv, NEW q \in Requests, Shop!setVariantPrice(q) PROVE ShopInv'
<1>1. PICK v \in DOMAIN variants, amount \in Amounts :
         call' = [call EXCEPT ![q] = [at |-> "priced", variant |-> v, amount |-> amount]]
  BY DEF Shop!setVariantPrice, Shop!Begin
<1> DEFINE r == [at |-> "priced", variant |-> v, amount |-> amount]
<1>2. Knows(r) /\ r.at # "closed"
  BY DEF Knows
<1> HIDE DEF r
<1>3. call' = [call EXCEPT ![q] = r] /\ UNCHANGED <<Shop!rows, clock>>
  BY <1>1 DEF r, Shop!setVariantPrice
<1> QED BY <1>2, <1>3, Quiet

LEMMA NowIsAMoment == ASSUME ShopInv PROVE Shop!Now \subseteq Moments
BY ShopAssumption DEF ShopInv, TablesInv, Shop!Now, Moments, Shop!MomentsAssumption

LEMMA ReadsClock == ASSUME ShopInv, NEW q \in Requests, Shop!ReadClock(q) PROVE ShopInv'
<1>1. PICK now \in Shop!Now :
         call' = [call EXCEPT ![q] = [at |-> "timed", variant |-> Shop!Open(q).variant,
                                      amount |-> Shop!Open(q).amount, now |-> now]]
  BY DEF Shop!ReadClock, Shop!Proceed
<1>2. PICK r : r = [at |-> "timed", variant |-> Shop!Open(q).variant, amount |-> Shop!Open(q).amount, now |-> now]
  OBVIOUS
<1>3. now \in Moments /\ Knows(call[q]) /\ call[q].at = "priced"
  BY NowIsAMoment DEF ShopInv, CallsInv, Shop!ReadClock, Shop!At
<1>4. Knows(r) /\ r.at # "closed"
  BY <1>2, <1>3 DEF Knows, Shop!Open
<1>5. call' = [call EXCEPT ![q] = r] /\ UNCHANGED <<Shop!rows, clock>>
  BY <1>1, <1>2 DEF Shop!ReadClock
<1> QED BY <1>4, <1>5, Quiet

LEMMA FreeKnows == Knows(Shop!Free) /\ Shop!Free.at = "free"
BY DEF Knows, Shop!Free

LEMMA ClosesPrice == ASSUME ShopInv, NEW q \in Requests, Shop!CloseCurrentPrice(q) PROVE ShopInv'
<1>1. PICK x : x = call[q]
  OBVIOUS
<1>2. Knows(x) /\ x.at \in {"timed", "waiting"} /\ UNCHANGED <<Shop!rows, clock>>
  BY <1>1 DEF ShopInv, CallsInv, Shop!CloseCurrentPrice, Shop!At
<1> DEFINE closing(at, i) == [at |-> at, variant |-> x.variant, amount |-> x.amount, now |-> x.now, closes |-> i]
<1>3. ASSUME NEW at \in {"waiting", "closed"}, NEW i \in DOMAIN prices \cup {Shop!Null}, Shop!Closing(q, at, i),
             at = "waiting" => i \in DOMAIN prices /\ prices[i].variant = x.variant,
             at = "closed" /\ i # Shop!Null => /\ i \in DOMAIN prices /\ prices[i].variant = x.variant
                                               /\ prices[i].validTo = Shop!Null /\ x.now > prices[i].validFrom
                                               /\ ~Shop!Locked(i)
      PROVE  ShopInv'
  <2>1. PICK r : r = closing(at, i)
    OBVIOUS
  <2>2. Knows(r) /\ (r.at = "closed" /\ r.closes # Shop!Null => ~Shop!Locked(r.closes))
    BY <1>2, <1>3, <2>1 DEF Knows, Closes, Holds
  <2>3. call' = [call EXCEPT ![q] = r]
    BY <1>1, <1>3, <2>1 DEF Shop!Closing, Shop!Proceed, Shop!Open
  <2> QED BY <1>2, <2>2, <2>3, Quiet
<1>4. ASSUME NEW i \in DOMAIN prices, Shop!Close(q, i), ~Shop!Locked(i), prices[i].variant = x.variant,
             prices[i].validTo = Shop!Null
      PROVE  ShopInv'
  <2>1. CASE Shop!CheckValidTo(i, Shop!Open(q).now)
    <3>1. Shop!Closing(q, "closed", i) /\ x.now > prices[i].validFrom
      BY <1>1, <1>4, <2>1 DEF Shop!Close, Shop!CheckValidTo, Shop!Open
    <3> QED BY <1>3, <1>4, <3>1
  <2>2. CASE ~Shop!CheckValidTo(i, Shop!Open(q).now)
    <3>1. call' = [call EXCEPT ![q] = Shop!Free]
      BY <1>4, <2>2 DEF Shop!Close, Shop!Proceed
    <3> QED BY <1>2, <3>1, FreeKnows, Quiet
  <2> QED BY <2>1, <2>2
<1>5. CASE x.at = "timed"
  <2>1. PICK i \in Shop!GetCurrentPrice(x.variant) :
           IF Shop!Locked(i) THEN Shop!Closing(q, "waiting", i) ELSE Shop!Close(q, i)
    BY <1>1, <1>5 DEF Shop!CloseCurrentPrice, Shop!At, Shop!Open
  <2>2. i \in DOMAIN prices /\ prices[i].variant = x.variant /\ prices[i].validTo = Shop!Null
    BY <2>1 DEF Shop!GetCurrentPrice
  <2>3. CASE Shop!Locked(i)
    BY <1>3, <2>1, <2>2, <2>3
  <2>4. CASE ~Shop!Locked(i)
    BY <1>4, <2>1, <2>2, <2>4
  <2> QED BY <2>3, <2>4
<1>6. CASE x.at = "waiting"
  <2>1. /\ ~Shop!Locked(x.closes)
        /\ IF prices[x.closes].validTo = Shop!Null
           THEN Shop!Close(q, x.closes)
           ELSE Shop!Closing(q, "closed", Shop!Null)
    BY <1>1, <1>6 DEF Shop!CloseCurrentPrice, Shop!At, Shop!Open
  <2>2. x.closes \in DOMAIN prices /\ prices[x.closes].variant = x.variant
    BY <1>2, <1>6 DEF Knows, Closes
  <2>3. CASE prices[x.closes].validTo = Shop!Null
    BY <1>4, <2>1, <2>2, <2>3
  <2>4. CASE prices[x.closes].validTo # Shop!Null
    BY <1>3, <2>1, <2>4
  <2> QED BY <2>3, <2>4
<1> QED BY <1>2, <1>5, <1>6

LEMMA ListStep == ASSUME ShopInv, NEW q \in Requests, Shop!Listed(q) PROVE ShopInv'
<1>0. UNCHANGED <<Shop!rows, clock>>
  BY DEF Shop!Listed, Shop!listProducts, Shop!ListCatalogue, Shop!Leave
<1>1. PICK x : x = call[q]
  OBVIOUS
<1>2. Knows(x)
  BY <1>1 DEF ShopInv, CallsInv
<1>3. CASE Shop!listProducts(q)
  <2>1. PICK r : r = [at |-> "listing"]
    OBVIOUS
  <2>2. Knows(r) /\ r.at # "closed" /\ call' = [call EXCEPT ![q] = r]
    BY <1>3, <2>1 DEF Knows, Shop!listProducts, Shop!Begin
  <2> QED BY <1>0, <2>2, Quiet
<1>4. CASE Shop!Leave(q)
  BY <1>0, <1>4, FreeKnows, Quiet DEF Shop!Leave, Shop!Proceed
<1>5. CASE Shop!ListCatalogue(q)
  <2>1. CASE Shop!At(q, "listing") /\ Shop!Proceed(q, [at |-> "products", products |-> Shop!ListProducts])
    <3>1. PICK r : r = [at |-> "products", products |-> products]
      OBVIOUS
    <3>2. Knows(r) /\ r.at # "closed"
      BY <3>1 DEF Knows, ShopInv, RefersInv
    <3>3. call' = [call EXCEPT ![q] = r]
      BY <2>1, <3>1 DEF Shop!Proceed, Shop!ListProducts
    <3> QED BY <1>0, <3>2, <3>3, Quiet
  <2>2. CASE Shop!At(q, "products") /\ Shop!Proceed(q, [at |-> "variants", products |-> Shop!Open(q).products,
                                                          variants |-> Shop!ListVariantsByBusiness])
    <3>1. PICK r : r = [at |-> "variants", products |-> x.products, variants |-> variants]
      OBVIOUS
    <3>2. Knows(r) /\ r.at # "closed"
      BY <1>1, <1>2, <2>2, <3>1 DEF Knows, ShopInv, RefersInv, Shop!At
    <3>3. call' = [call EXCEPT ![q] = r]
      BY <1>1, <2>2, <3>1 DEF Shop!Proceed, Shop!ListVariantsByBusiness, Shop!Open
    <3> QED BY <1>0, <3>2, <3>3, Quiet
  <2>3. CASE Shop!At(q, "variants") /\ Shop!Proceed(q, [at |-> "page", products |-> Shop!Open(q).products,
                                                    variants |-> Shop!Open(q).variants,
                                                     prices |-> Shop!ListCurrentPricesByBusiness])
    <3> DEFINE current == Shop!ListCurrentPricesByBusiness
    <3>1. PICK r : r = [at |-> "page", products |-> x.products, variants |-> x.variants, prices |-> current]
      OBVIOUS
    <3>2. x.at = "variants" /\ DOMAIN x.variants \subseteq DOMAIN variants
      BY <1>1, <1>2, <2>3 DEF Knows, Shop!At
    <3>3. DOMAIN current = DOMAIN variants /\ \A v \in DOMAIN variants : Single(current[v])
      <4>1. DOMAIN current = DOMAIN variants /\ \A v \in DOMAIN variants : current[v] = Shop!GetCurrentPrice(v)
        BY DEF Shop!ListCurrentPricesByBusiness
      <4> HIDE DEF current
      <4>2. ASSUME NEW v \in DOMAIN variants PROVE Single(Shop!GetCurrentPrice(v))
        <5>1. PICK c \in DOMAIN prices : History(v, c)
          BY DEF ShopInv, PricesInv
        <5>2. \A i \in DOMAIN prices : prices[i].variant = v /\ prices[i].validTo = Shop!Null => i = c
          BY <5>1 DEF History, Closed, ShopInv, RefersInv, Moments, Shop!Null
        <5>3. Shop!GetCurrentPrice(v) = {c}
          BY <5>1, <5>2 DEF Shop!GetCurrentPrice, History
        <5> QED BY <5>3 DEF Single
      <4> QED BY <4>1, <4>2
    <3> HIDE DEF current
    <3>4. Knows(r) /\ r.at # "closed"
      BY <1>2, <3>1, <3>2, <3>3 DEF Knows
    <3>5. call' = [call EXCEPT ![q] = r]
      BY <1>1, <2>3, <3>1 DEF Shop!Proceed, Shop!Open, current
    <3> QED BY <1>0, <3>4, <3>5, Quiet
  <2> QED BY <1>5, <2>1, <2>2, <2>3 DEF Shop!ListCatalogue
<1> QED BY <1>3, <1>4, <1>5 DEF Shop!Listed

LEMMA SendStep ==
    ASSUME ShopInv, NEW q \in Requests, NEW table, NEW id, NEW field, NEW row, Shop!Send(q, table, id, field, row),
           \/ table = "products" /\ id \in DOMAIN products /\ OfProduct(row)
           \/ table = "variants" /\ id \in DOMAIN variants /\ OfVariant(row)
    PROVE  ShopInv'
<1>1. PICK r : r = [at |-> "sent", table |-> table, id |-> id, field |-> field, row |-> row]
  OBVIOUS
<1>2. Knows(r) /\ r.at # "closed"
  BY <1>1 DEF Knows
<1>3. call' = [call EXCEPT ![q] = r] /\ UNCHANGED <<Shop!rows, clock>>
  BY <1>1 DEF Shop!Send, Shop!Proceed
<1> QED BY <1>2, <1>3, Quiet

LEMMA UpdateSent ==
    ASSUME ShopInv, NEW q \in Requests, Shop!updateProduct(q) \/ Shop!updateVariant(q)
    PROVE  ShopInv'
<1>1. PICK x : x = call[q]
  OBVIOUS
<1>2. Knows(x) /\ x.at = "page"
  BY <1>1 DEF ShopInv, CallsInv, Shop!updateProduct, Shop!updateVariant, Shop!At
<1>3. ASSUME NEW p \in DOMAIN x.products
      PROVE  /\ p \in DOMAIN products
             /\ \A n \in Names : OfProduct([x.products[p] EXCEPT !.name = n])
             /\ \A b \in BOOLEAN : OfProduct([x.products[p] EXCEPT !.active = b])
             /\ \A c \in DOMAIN categories \cup {Shop!Null} : OfProduct([x.products[p] EXCEPT !.category = c])
  <2>1. p \in DOMAIN products /\ OfProduct(x.products[p])
    BY <1>2 DEF Knows
  <2>2. \A c \in DOMAIN categories \cup {Shop!Null} : c \in Nat
    BY DEF ShopInv, TablesInv, Shop!Null
  <2> QED BY <2>1, <2>2 DEF OfProduct, ProductRow
<1>4. ASSUME NEW v \in DOMAIN x.variants
      PROVE  /\ v \in DOMAIN variants
             /\ \A n \in Names : OfVariant([x.variants[v] EXCEPT !.name = n])
             /\ \A b \in BOOLEAN : OfVariant([x.variants[v] EXCEPT !.active = b])
             /\ \A b \in BOOLEAN : OfVariant([x.variants[v] EXCEPT !.tracks = b])
  <2>1. v \in DOMAIN variants /\ OfVariant(x.variants[v])
    BY <1>2 DEF Knows
  <2> QED BY <2>1 DEF OfVariant, VariantRow
<1>5. CASE Shop!updateProduct(q)
  <2>1. PICK p \in DOMAIN x.products :
           \/ \E n \in Names : Shop!Send(q, "products", p, "name", [x.products[p] EXCEPT !.name = n])
           \/ \E b \in BOOLEAN : Shop!Send(q, "products", p, "active", [x.products[p] EXCEPT !.active = b])
           \/ \E c \in Shop!ListCategories \union {Shop!Null} :
                 Shop!Send(q, "products", p, "category", [x.products[p] EXCEPT !.category = c])
    BY <1>1, <1>5 DEF Shop!updateProduct, Shop!Open
  <2>2. ASSUME NEW n \in Names, Shop!Send(q, "products", p, "name", [x.products[p] EXCEPT !.name = n])
        PROVE  ShopInv'
    <3>1. PICK row : row = [x.products[p] EXCEPT !.name = n]
      OBVIOUS
    <3>2. p \in DOMAIN products /\ OfProduct(row)
      BY <1>3, <3>1
    <3> QED BY <2>2, <3>1, <3>2, SendStep
  <2>3. ASSUME NEW b \in BOOLEAN, Shop!Send(q, "products", p, "active", [x.products[p] EXCEPT !.active = b])
        PROVE  ShopInv'
    <3>1. PICK row : row = [x.products[p] EXCEPT !.active = b]
      OBVIOUS
    <3>2. p \in DOMAIN products /\ OfProduct(row)
      BY <1>3, <3>1
    <3> QED BY <2>3, <3>1, <3>2, SendStep
  <2>4. ASSUME NEW c \in DOMAIN categories \cup {Shop!Null},
               Shop!Send(q, "products", p, "category", [x.products[p] EXCEPT !.category = c])
        PROVE  ShopInv'
    <3>1. PICK row : row = [x.products[p] EXCEPT !.category = c]
      OBVIOUS
    <3>2. p \in DOMAIN products /\ OfProduct(row)
      BY <1>3, <3>1
    <3> QED BY <2>4, <3>1, <3>2, SendStep
  <2> QED BY <2>1, <2>2, <2>3, <2>4 DEF Shop!ListCategories
<1>6. CASE Shop!updateVariant(q)
  <2>1. PICK v \in DOMAIN x.variants :
           \/ \E n \in Names : Shop!Send(q, "variants", v, "name", [x.variants[v] EXCEPT !.name = n])
           \/ \E b \in BOOLEAN : Shop!Send(q, "variants", v, "active", [x.variants[v] EXCEPT !.active = b])
           \/ \E b \in BOOLEAN : Shop!Send(q, "variants", v, "tracks", [x.variants[v] EXCEPT !.tracks = b])
    BY <1>1, <1>6 DEF Shop!updateVariant, Shop!Open, Shop!toProductResponse
  <2>2. ASSUME NEW n \in Names, Shop!Send(q, "variants", v, "name", [x.variants[v] EXCEPT !.name = n])
        PROVE  ShopInv'
    <3>1. PICK row : row = [x.variants[v] EXCEPT !.name = n]
      OBVIOUS
    <3>2. v \in DOMAIN variants /\ OfVariant(row)
      BY <1>4, <3>1
    <3> QED BY <2>2, <3>1, <3>2, SendStep
  <2>3. ASSUME NEW b \in BOOLEAN, Shop!Send(q, "variants", v, "active", [x.variants[v] EXCEPT !.active = b])
        PROVE  ShopInv'
    <3>1. PICK row : row = [x.variants[v] EXCEPT !.active = b]
      OBVIOUS
    <3>2. v \in DOMAIN variants /\ OfVariant(row)
      BY <1>4, <3>1
    <3> QED BY <2>3, <3>1, <3>2, SendStep
  <2>4. ASSUME NEW b \in BOOLEAN, Shop!Send(q, "variants", v, "tracks", [x.variants[v] EXCEPT !.tracks = b])
        PROVE  ShopInv'
    <3>1. PICK row : row = [x.variants[v] EXCEPT !.tracks = b]
      OBVIOUS
    <3>2. v \in DOMAIN variants /\ OfVariant(row)
      BY <1>4, <3>1
    <3> QED BY <2>4, <3>1, <3>2, SendStep
  <2> QED BY <2>1, <2>2, <2>3, <2>4
<1> QED BY <1>5, <1>6

LEMMA ChoosesStep ==
    ASSUME ShopInv, NEW q \in Requests,
           \/ Shop!applyCatalogueTemplates(q) \/ Shop!ListCatalogueTemplateVariantsByTemplateIDs(q)
           \/ Shop!getOrCreateCategory(q)
    PROVE  ShopInv'
<1>0. UNCHANGED <<Shop!rows, clock>>
  BY DEF Shop!applyCatalogueTemplates, Shop!ListCatalogueTemplateVariantsByTemplateIDs, Shop!getOrCreateCategory
<1>1. PICK x : x = call[q]
  OBVIOUS
<1>2. Knows(x)
  BY <1>1 DEF ShopInv, CallsInv
<1>3. /\ DOMAIN templates \subseteq Names
      /\ \A n \in DOMAIN templates : templates[n].category \in Names /\ Suggests(templates[n].variants)
  BY DEF ShopInv, TablesInv
<1>4. CASE Shop!applyCatalogueTemplates(q)
  <2>1. PICK chosen \in SUBSET DOMAIN templates :
           call' = [call EXCEPT ![q] = [at |-> "templates", category |-> [t \in chosen |-> templates[t].category]]]
    BY <1>4 DEF Shop!applyCatalogueTemplates, Shop!Begin, Shop!ListTemplates, Shop!ListCatalogueTemplates,
                Shop!ListCatalogueTemplatesByIDs
  <2>2. PICK r : r = [at |-> "templates", category |-> [t \in chosen |-> templates[t].category]]
    OBVIOUS
  <2>3. Knows(r) /\ r.at # "closed"
    BY <1>3, <2>2 DEF Knows
  <2> QED BY <1>0, <2>1, <2>2, <2>3, Quiet
<1>5. CASE Shop!ListCatalogueTemplateVariantsByTemplateIDs(q)
  <2>1. PICK r : r = [at |-> "read", category |-> x.category,
                      variants |-> [t \in DOMAIN x.category |-> templates[t].variants]]
    OBVIOUS
  <2>2. x.at = "templates" /\ call' = [call EXCEPT ![q] = r]
    BY <1>1, <1>5, <2>1 DEF Shop!ListCatalogueTemplateVariantsByTemplateIDs, Shop!At, Shop!Proceed, Shop!Open
  <2>3. Knows(r) /\ r.at # "closed"
    BY <1>2, <1>3, <2>1, <2>2 DEF Knows
  <2> QED BY <1>0, <2>2, <2>3, Quiet
<1>6. CASE Shop!getOrCreateCategory(q)
  <2> DEFINE found == [n \in Shop!Wanted(q) |->
                 IF Shop!GetCategoryByName(n) = {} THEN Shop!Null ELSE CHOOSE c \in Shop!GetCategoryByName(n) : TRUE]
  <2>1. PICK r : r = [at |-> "resolved", category |-> x.category, variants |-> x.variants, found |-> found]
    OBVIOUS
  <2>2. x.at = "read" /\ call' = [call EXCEPT ![q] = r]
    BY <1>1, <1>6, <2>1 DEF Shop!getOrCreateCategory, Shop!At, Shop!Proceed, Shop!Open
  <2>3. DOMAIN found = {x.category[t] : t \in DOMAIN x.category}
    BY <1>1 DEF Shop!Wanted, Shop!Open
  <2>4. \A n \in DOMAIN found : found[n] \in DOMAIN categories \cup {Shop!Null}
    BY DEF Shop!GetCategoryByName
  <2> HIDE DEF found
  <2>5. Knows(r) /\ r.at # "closed"
    BY <1>2, <2>1, <2>2, <2>3, <2>4 DEF Knows
  <2> QED BY <1>0, <2>2, <2>5, Quiet
<1> QED BY <1>4, <1>5, <1>6

LEMMA CallsStay ==
    ASSUME ShopInv, Grows, call' = call,
           \A i \in DOMAIN prices : prices'[i].validTo = prices[i].validTo
    PROVE  CallsInv' /\ LocksInv'
<1>1. ASSUME NEW q \in Requests PROVE Knows(call[q])'
  <2>1. PICK r : r = call[q]
    OBVIOUS
  <2>2. /\ Knows(r)
        /\ (r.at = "closed" /\ r.closes # Shop!Null => prices'[r.closes].validTo = prices[r.closes].validTo)
    BY <2>1 DEF ShopInv, CallsInv, Knows, Closes
  <2>3. Knows(r)'
    BY <2>2, KnowsStill
  <2> QED BY <2>1, <2>3
<1>2. CallsInv'
  BY <1>1 DEF ShopInv, CallsInv
<1> QED BY <1>2 DEF ShopInv, LocksInv, Shop!At

LEMMA FreedAfter ==
    ASSUME ShopInv, Grows, NEW q \in Requests, call' = [call EXCEPT ![q] = Shop!Free],
           \A i \in DOMAIN prices : ~(\E s \in Requests \ {q} : Shop!At(s, "closed") /\ call[s].closes = i)
                                    \/ prices'[i].validTo = prices[i].validTo
    PROVE  CallsInv' /\ LocksInv'
<1>1. Knows(Shop!Free)'
  BY DEF Knows, Shop!Free
<1>2. ASSUME NEW s \in Requests \ {q}, Shop!At(s, "closed"), call[s].closes # Shop!Null
      PROVE  prices'[call[s].closes].validTo = prices[call[s].closes].validTo
  <2>1. call[s].closes \in DOMAIN prices
    BY <1>2 DEF ShopInv, CallsInv, Knows, Shop!At, Closes
  <2> QED BY <1>2, <2>1
<1>3. CallsInv'
  BY <1>1, <1>2, CallsAfter
<1>4. call'[q].at # "closed" /\ \A s \in Requests \ {q} : call'[s] = call[s]
  BY DEF ShopInv, CallsInv, Shop!Free
<1> QED BY <1>3, <1>4 DEF ShopInv, LocksInv, Shop!At

LEMMA Appended ==
    ASSUME NEW S, NEW s \in Seq(S), NEW e \in S, NEW t, t = Append(s, e)
    PROVE  /\ t \in Seq(S) /\ Len(s) \in Nat /\ DOMAIN s = 1..Len(s)
           /\ DOMAIN t = DOMAIN s \cup {Len(s) + 1} /\ Len(s) + 1 \notin DOMAIN s
           /\ t[Len(s) + 1] = e /\ \A i \in DOMAIN s : t[i] = s[i]
OBVIOUS

LEMMA CategoriesStep == ASSUME ShopInv, Shop!createCategory \/ Shop!updateCategory PROVE ShopInv'
<1>1. UNCHANGED <<products, variants, prices, templates, release, clock, call>>
  BY DEF Shop!createCategory, Shop!updateCategory, Shop!CreateCategory, Shop!UpdateCategory
<1>2. categories' \in Seq(CategoryRow) /\ DOMAIN categories \subseteq DOMAIN categories'
  <2>0. categories \in Seq(CategoryRow)
    BY DEF ShopInv, TablesInv
  <2>1. CASE Shop!createCategory
    <3>1. PICK n \in Names : categories' = Append(categories, Shop!Category(n))
      BY <2>1 DEF Shop!createCategory, Shop!CreateCategory, Shop!CreateCategoryRow
    <3>2. Shop!Category(n) \in CategoryRow
      BY DEF Shop!Category, CategoryRow
    <3> QED BY <2>0, <3>1, <3>2
  <2>2. CASE Shop!updateCategory
    <3>1. PICK c \in DOMAIN categories, n \in Names, b \in BOOLEAN :
             categories' = [categories EXCEPT ![c] = [name |-> n, active |-> b]]
      BY <2>2 DEF Shop!updateCategory, Shop!UpdateCategory, Shop!UpdateCategoryRow, Shop!ListCategories
    <3>2. [name |-> n, active |-> b] \in CategoryRow
      BY DEF CategoryRow
    <3> QED BY <2>0, <3>1, <3>2
  <2> QED BY <2>1, <2>2
<1>3. Grows
  BY <1>1, <1>2 DEF Grows
<1>4. TablesInv'
  BY <1>1, <1>2 DEF ShopInv, TablesInv
<1>5. RefersInv' /\ NamesInv' /\ PricesInv'
  BY <1>1, <1>2, PricesStay DEF ShopInv, RefersInv, NamesInv, OfProduct, OfVariant
<1>6. CallsInv' /\ LocksInv'
  BY <1>1, <1>3, CallsStay
<1> QED BY <1>4, <1>5, <1>6 DEF ShopInv

LEMMA ProductsStep == ASSUME ShopInv, Shop!createProduct PROVE ShopInv'
<1>1. UNCHANGED <<categories, variants, prices, templates, release, clock, call>>
  BY DEF Shop!createProduct, Shop!CreateProduct
<1>2. PICK n \in Names, c \in DOMAIN categories \cup {Shop!Null}, template \in Names \cup {Shop!Null} :
         Shop!ProductNamed(n) = {} /\ products' = Append(products, Shop!Product(n, c, template))
  BY DEF Shop!createProduct, Shop!CreateProduct, Shop!CreateProductRow, Shop!ListCategories,
         Shop!FindCatalogueTemplateIDByName, ShopInv, TablesInv
<1>3. PICK row : row = Shop!Product(n, c, template)
  OBVIOUS
<1>4. row \in ProductRow /\ row.category \in DOMAIN categories \cup {Shop!Null} /\ row.name = n
  BY <1>3 DEF Shop!Product, ProductRow, ShopInv, TablesInv, Shop!Null
<1>5. /\ products' \in Seq(ProductRow) /\ DOMAIN products' = DOMAIN products \cup {Len(products) + 1}
      /\ products'[Len(products) + 1] = row /\ \A p \in DOMAIN products : products'[p] = products[p]
  <2>1. products \in Seq(ProductRow) /\ products' = Append(products, row)
    BY <1>2, <1>3 DEF ShopInv, TablesInv
  <2> QED BY <1>4, <2>1, Appended
<1>6. Grows
  BY <1>1, <1>5 DEF Grows
<1>7. TablesInv'
  BY <1>1, <1>5 DEF ShopInv, TablesInv
<1>8. RefersInv'
  BY <1>1, <1>4, <1>5 DEF ShopInv, RefersInv, OfProduct, OfVariant
<1>9. NamesInv'
  <2>1. \A p \in DOMAIN products : products[p].name # n
    BY <1>2 DEF Shop!ProductNamed
  <2> QED BY <1>1, <1>4, <1>5, <2>1 DEF ShopInv, NamesInv
<1>10. PricesInv'
  BY <1>1, PricesStay DEF ShopInv
<1>11. CallsInv' /\ LocksInv'
  BY <1>1, <1>6, CallsStay
<1> QED BY <1>7, <1>8, <1>9, <1>10, <1>11 DEF ShopInv

LEMMA UpdatesProduct == ASSUME ShopInv, NEW q \in Requests, Shop!UpdateProduct(q) PROVE ShopInv'
<1>0. /\ UNCHANGED <<categories, variants, prices, templates, release, clock>>
      /\ call' = [call EXCEPT ![q] = Shop!Free]
  BY DEF Shop!UpdateProduct, Shop!Proceed
<1>1. PICK r : r = call[q]
  OBVIOUS
<1>2. r.id \in DOMAIN products /\ OfProduct(r.row)
  BY <1>1 DEF Shop!UpdateProduct, Shop!At, Shop!Open, ShopInv, CallsInv, Knows
<1>3. \/ products' = products
      \/ products' = [products EXCEPT ![r.id] = r.row] /\ Shop!ProductNamed(r.row.name) \subseteq {r.id}
  BY <1>1 DEF Shop!UpdateProduct, Shop!UpdateProductRow, Shop!Open
<1>4. /\ products' \in Seq(ProductRow) /\ DOMAIN products' = DOMAIN products
      /\ \A p \in DOMAIN products : OfProduct(products'[p])
  <2>1. products \in Seq(ProductRow) /\ r.row \in ProductRow /\ \A p \in DOMAIN products : OfProduct(products[p])
    BY <1>2 DEF ShopInv, TablesInv, RefersInv, OfProduct
  <2>2. products' \in Seq(ProductRow) /\ DOMAIN products' = DOMAIN products
    BY <1>2, <1>3, <2>1
  <2>3. \A p \in DOMAIN products : products'[p] = products[p] \/ products'[p] = r.row
    BY <1>2, <1>3, <2>1
  <2> QED BY <1>2, <2>1, <2>2, <2>3
<1>5. Grows
  BY <1>0, <1>4 DEF Grows
<1>6. TablesInv'
  BY <1>0, <1>4 DEF ShopInv, TablesInv
<1>7. RefersInv'
  BY <1>0, <1>4 DEF ShopInv, RefersInv, OfProduct, OfVariant
<1>8. NamesInv'
  <2>1. CASE products' = products
    BY <1>0, <2>1 DEF ShopInv, NamesInv
  <2>2. CASE products' = [products EXCEPT ![r.id] = r.row] /\ Shop!ProductNamed(r.row.name) \subseteq {r.id}
    <3>1. /\ products'[r.id] = r.row
          /\ \A p \in DOMAIN products \ {r.id} : products'[p] = products[p] /\ products[p].name # r.row.name
      BY <1>2, <2>2 DEF Shop!ProductNamed
    <3> QED BY <1>0, <1>4, <3>1 DEF ShopInv, NamesInv
  <2> QED BY <1>3, <2>1, <2>2
<1>9. PricesInv'
  BY <1>0, PricesStay DEF ShopInv
<1>10. CallsInv' /\ LocksInv'
  BY <1>0, <1>5, FreedAfter
<1> QED BY <1>6, <1>7, <1>8, <1>9, <1>10 DEF ShopInv

LEMMA UpdatesVariant == ASSUME ShopInv, NEW q \in Requests, Shop!UpdateVariant(q) PROVE ShopInv'
<1>0. /\ UNCHANGED <<categories, products, prices, templates, release, clock>>
      /\ call' = [call EXCEPT ![q] = Shop!Free]
  BY DEF Shop!UpdateVariant, Shop!Proceed
<1>1. PICK r : r = call[q]
  OBVIOUS
<1>2. r.id \in DOMAIN variants /\ OfVariant(r.row)
  BY <1>1 DEF Shop!UpdateVariant, Shop!At, Shop!Open, ShopInv, CallsInv, Knows
<1>3. \/ variants' = variants
      \/ /\ variants' = [variants EXCEPT ![r.id] = r.row]
         /\ Shop!VariantNamed(r.row.product, r.row.name) \subseteq {r.id}
  BY <1>1 DEF Shop!UpdateVariant, Shop!UpdateVariantRow, Shop!Open
<1>4. /\ variants' \in Seq(VariantRow) /\ DOMAIN variants' = DOMAIN variants
      /\ \A v \in DOMAIN variants : OfVariant(variants'[v])
  <2>1. variants \in Seq(VariantRow) /\ r.row \in VariantRow /\ \A v \in DOMAIN variants : OfVariant(variants[v])
    BY <1>2 DEF ShopInv, TablesInv, RefersInv, OfVariant
  <2>2. variants' \in Seq(VariantRow) /\ DOMAIN variants' = DOMAIN variants
    BY <1>2, <1>3, <2>1
  <2>3. \A v \in DOMAIN variants : variants'[v] = variants[v] \/ variants'[v] = r.row
    BY <1>2, <1>3, <2>1
  <2> QED BY <1>2, <2>1, <2>2, <2>3
<1>5. Grows
  BY <1>0, <1>4 DEF Grows
<1>6. TablesInv'
  BY <1>0, <1>4 DEF ShopInv, TablesInv
<1>7. RefersInv'
  BY <1>0, <1>4 DEF ShopInv, RefersInv, OfProduct, OfVariant
<1>8. NamesInv'
  <2>1. CASE variants' = variants
    BY <1>0, <2>1 DEF ShopInv, NamesInv
  <2>2. CASE /\ variants' = [variants EXCEPT ![r.id] = r.row]
             /\ Shop!VariantNamed(r.row.product, r.row.name) \subseteq {r.id}
    <3>1. variants'[r.id] = r.row /\ \A v \in DOMAIN variants \ {r.id} :
             variants'[v] = variants[v] /\ ~(variants[v].product = r.row.product /\ variants[v].name = r.row.name)
      BY <1>2, <2>2 DEF Shop!VariantNamed
    <3> QED BY <1>0, <1>4, <3>1 DEF ShopInv, NamesInv
  <2> QED BY <1>3, <2>1, <2>2
<1>9. PricesInv'
  BY <1>0, <1>4, PricesStay DEF ShopInv
<1>10. CallsInv' /\ LocksInv'
  BY <1>0, <1>5, FreedAfter
<1> QED BY <1>6, <1>7, <1>8, <1>9, <1>10 DEF ShopInv

LEMMA SeedsStep == ASSUME ShopInv, Shop!SeedTemplates PROVE ShopInv'
<1>1. UNCHANGED <<categories, products, variants, prices, clock, call>> /\ release' = release + 1
  BY DEF Shop!SeedTemplates
<1>2. PICK r \in 1..Len(Releases) : r = release + 1
  BY ShopAssumption DEF Shop!SeedTemplates, ShopInv, TablesInv, Shop!ReleasesAssumption
<1>3. /\ DOMAIN Releases[r] \subseteq Names
      /\ \A n \in DOMAIN Releases[r] : Releases[r][n].category \in Names /\ Suggests(Releases[r][n].variants)
  BY ShopAssumption DEF Shop!ReleasesAssumption, Suggests
<1> DEFINE seeds == Releases[r]
           given == [n \in DOMAIN seeds |-> Shop!UpsertCatalogueTemplate(n, seeds[n])]
<1>4. templates' = Shop!Upserted(templates, given)
  BY <1>2 DEF Shop!SeedTemplates
<1>5. /\ DOMAIN templates \subseteq Names
      /\ \A n \in DOMAIN templates : templates[n].category \in Names /\ Suggests(templates[n].variants)
  BY DEF ShopInv, TablesInv
<1>6. ASSUME NEW n \in DOMAIN seeds
      PROVE  given[n].category \in Names /\ Suggests(given[n].variants)
  <2>1. PICK old, new : old = templates[n].variants /\ new = seeds[n].variants
    OBVIOUS
  <2>2. Suggests(new) /\ (n \in DOMAIN templates => Suggests(old))
    BY <1>3, <1>5, <1>6, <2>1
  <2>3. n \in DOMAIN templates => Suggests(Shop!Upserted(old, new))
    BY <2>2 DEF Suggests, Shop!Upserted
  <2>4. /\ given[n].category = seeds[n].category
        /\ given[n].variants = IF n \in DOMAIN templates THEN Shop!Upserted(old, new) ELSE new
    BY <1>6, <2>1 DEF Shop!UpsertCatalogueTemplate, Shop!UpsertCatalogueTemplateVariant
  <2> HIDE DEF given
  <2> QED BY <1>3, <1>6, <2>2, <2>3, <2>4
<1>7. DOMAIN given = DOMAIN seeds
  OBVIOUS
<1> HIDE DEF given
<1>8. /\ DOMAIN templates' = DOMAIN templates \cup DOMAIN given
      /\ \A n \in DOMAIN templates' : templates'[n] = IF n \in DOMAIN given THEN given[n] ELSE templates[n]
  BY <1>4 DEF Shop!Upserted
<1>9. /\ DOMAIN templates' \subseteq Names
      /\ \A n \in DOMAIN templates' : templates'[n].category \in Names /\ Suggests(templates'[n].variants)
  BY <1>3, <1>5, <1>6, <1>7, <1>8
<1>10. TablesInv'
  BY <1>1, <1>2, <1>9 DEF ShopInv, TablesInv
<1>11. Grows
  BY <1>1, <1>8 DEF Grows
<1>12. RefersInv' /\ NamesInv' /\ PricesInv'
  BY <1>1, PricesStay DEF ShopInv, RefersInv, NamesInv, OfProduct, OfVariant
<1>13. CallsInv' /\ LocksInv'
  BY <1>1, <1>11, CallsStay
<1> QED BY <1>10, <1>12, <1>13 DEF ShopInv

LEMMA TickStep == ASSUME ShopInv, Shop!Tick PROVE ShopInv'
<1>1. UNCHANGED <<categories, products, variants, prices, templates, release, call>>
  BY DEF Shop!Tick, Shop!rows
<1>2. TablesInv'
  BY <1>1, ShopAssumption DEF ShopInv, TablesInv, Shop!Tick, Shop!MomentsAssumption
<1>3. Grows
  BY <1>1 DEF Grows
<1>4. RefersInv' /\ NamesInv' /\ PricesInv'
  BY <1>1, PricesStay DEF ShopInv, RefersInv, NamesInv, OfProduct, OfVariant
<1>5. CallsInv' /\ LocksInv'
  BY <1>1, <1>3, CallsStay
<1> QED BY <1>2, <1>4, <1>5 DEF ShopInv

(* New variants, each with its first price. *)
LEMMA PricesAdded ==
    ASSUME ShopInv, NEW n \in Nat, NEW now \in Moments,
           DOMAIN variants' = 1..(Len(variants) + n), DOMAIN prices' = 1..(Len(prices) + n),
           \A i \in DOMAIN prices : prices'[i] = prices[i],
           \A k \in 1..n : /\ prices'[Len(prices) + k].variant = Len(variants) + k
                           /\ prices'[Len(prices) + k].validFrom = now
                           /\ prices'[Len(prices) + k].validTo = Shop!Null
    PROVE  PricesInv'
<1>1. /\ DOMAIN variants = 1..Len(variants) /\ Len(variants) \in Nat
      /\ DOMAIN prices = 1..Len(prices) /\ Len(prices) \in Nat
      /\ \A i \in DOMAIN prices : prices[i].variant \in DOMAIN variants
  BY DEF ShopInv, TablesInv, RefersInv
<1>2. \A i \in DOMAIN prices' : i \notin DOMAIN prices => \E k \in 1..n : i = Len(prices) + k
  <2>1. TAKE i \in DOMAIN prices'
  <2>2. CASE i \notin DOMAIN prices
    <3>1. i - Len(prices) \in 1..n /\ i = Len(prices) + (i - Len(prices))
      BY <1>1, <2>2
    <3> QED BY <3>1
  <2> QED BY <2>2
<1>3. ASSUME NEW v \in DOMAIN variants
      PROVE  (Throughout(v) /\ \E c \in DOMAIN prices : History(v, c))'
  <2>1. \A i \in DOMAIN prices' : i \notin DOMAIN prices => prices'[i].variant # v
    <3>1. TAKE i \in DOMAIN prices'
    <3>2. CASE i \notin DOMAIN prices
      <4>1. PICK k \in 1..n : i = Len(prices) + k
        BY <1>2, <3>2
      <4>2. prices'[i].variant = Len(variants) + k /\ k \in Nat /\ k > 0
        BY <4>1
      <4>3. Len(variants) + k \notin 1..Len(variants)
        BY <1>1, <4>2
      <4> QED BY <1>1, <1>3, <4>2, <4>3
    <3> QED BY <3>2
  <2>2. DOMAIN prices \subseteq DOMAIN prices'
    BY <1>1
  <2>3. Throughout(v) /\ \E c \in DOMAIN prices : History(v, c)
    BY DEF ShopInv, PricesInv
  <2>4. \A t : Shop!GetPriceAt(v, t)' = Shop!GetPriceAt(v, t)
    BY <2>1, <2>2 DEF Shop!GetPriceAt
  <2>5. Throughout(v)'
    BY <2>3, <2>4 DEF Throughout
  <2>6. PICK c \in DOMAIN prices : History(v, c)
    BY <2>3
  <2>7. History(v, c)'
    BY <2>1, <2>2, <2>6 DEF History, Closed
  <2> QED BY <2>2, <2>5, <2>7
<1>4. ASSUME NEW k \in 1..n, NEW v, v = Len(variants) + k
      PROVE  (Throughout(v) /\ \E c \in DOMAIN prices : History(v, c))'
  <2>1. PICK c : c = Len(prices) + k
    OBVIOUS
  <2>2. c \in DOMAIN prices' /\ v \notin DOMAIN variants /\ k \in Nat
    BY <1>1, <1>4, <2>1
  <2>3. \A i \in DOMAIN prices' : prices'[i].variant = v => i = c
    <3>1. TAKE i \in DOMAIN prices'
    <3>2. CASE i \in DOMAIN prices
      BY <1>1, <2>2, <3>2
    <3>3. CASE i \notin DOMAIN prices
      <4>1. PICK m \in 1..n : i = Len(prices) + m
        BY <1>2, <3>3
      <4>2. prices'[i].variant = Len(variants) + m
        BY <4>1
      <4>3. prices'[i].variant = v => m = k
        BY <1>1, <1>4, <2>2, <4>2
      <4> QED BY <2>1, <4>1, <4>3
    <3> QED BY <3>2, <3>3
  <2>4. prices'[c].variant = v /\ prices'[c].validFrom = now /\ prices'[c].validTo = Shop!Null
    BY <1>4, <2>1
  <2>5. History(v, c)'
    BY <2>3, <2>4 DEF History
  <2>6. \A t \in 1..(LastMoment + 1) : IF t < now THEN Shop!GetPriceAt(v, t)' = {} ELSE Shop!GetPriceAt(v, t)' = {c}
    <3>1. TAKE t \in 1..(LastMoment + 1)
    <3>2. t \in Int /\ now \in Int
      BY ShopAssumption DEF Shop!MomentsAssumption, Moments
    <3>3. CASE t < now
      BY <2>3, <2>4, <3>2, <3>3 DEF Shop!GetPriceAt
    <3>4. CASE ~(t < now)
      BY <2>2, <2>3, <2>4, <3>2, <3>4 DEF Shop!GetPriceAt
    <3> QED BY <3>3, <3>4
  <2>7. Throughout(v)'
    BY <2>6 DEF Throughout, Single
  <2> QED BY <2>2, <2>5, <2>7
<1>5. ASSUME NEW v \in DOMAIN variants', v \notin DOMAIN variants
      PROVE  \E k \in 1..n : v = Len(variants) + k
  <2>1. v - Len(variants) \in 1..n /\ v = Len(variants) + (v - Len(variants))
    BY <1>1, <1>5
  <2> QED BY <2>1
<1> QED BY <1>1, <1>3, <1>4, <1>5 DEF PricesInv
LEMMA VariantsStep == ASSUME ShopInv, Shop!createVariant PROVE ShopInv'
<1>1. UNCHANGED <<categories, products, templates, release, clock, call>>
  BY DEF Shop!createVariant, Shop!CreateVariant
<1>2. PICK p \in DOMAIN products, n \in Names, amount \in Amounts, tracks \in BOOLEAN, now \in Shop!Now :
         /\ Shop!VariantNamed(p, n) = {} /\ variants' = Append(variants, Shop!Variant(p, n, tracks))
         /\ prices' = Append(prices, Shop!Price(Len(variants) + 1, amount, now))
  BY DEF Shop!createVariant, Shop!CreateVariant, Shop!CreateVariantRow, Shop!CreatePriceRow
<1>3. PICK row, first : row = Shop!Variant(p, n, tracks) /\ first = Shop!Price(Len(variants) + 1, amount, now)
  OBVIOUS
<1>4. now \in Moments /\ now \in Nat /\ amount \in Int /\ p \in Nat
  BY NowIsAMoment, ShopAssumption DEF Moments, Shop!MomentsAssumption, Shop!AmountsAssumption, ShopInv, TablesInv
<1>5. OfVariant(row) /\ row.product = p /\ row.name = n
  BY <1>3, <1>4 DEF Shop!Variant, OfVariant, VariantRow
<1>6. /\ variants' \in Seq(VariantRow) /\ DOMAIN variants' = DOMAIN variants \cup {Len(variants) + 1}
      /\ variants'[Len(variants) + 1] = row /\ \A v \in DOMAIN variants : variants'[v] = variants[v]
      /\ Len(variants) \in Nat /\ DOMAIN variants = 1..Len(variants)
  <2>1. variants \in Seq(VariantRow) /\ variants' = Append(variants, row) /\ row \in VariantRow
    BY <1>2, <1>3, <1>5 DEF ShopInv, TablesInv, OfVariant
  <2> QED BY <2>1, Appended
<1>7. first \in PriceRow /\ first.variant = Len(variants) + 1 /\ first.validFrom = now /\ first.validTo = Shop!Null
  BY <1>3, <1>4, <1>6 DEF Shop!Price, PriceRow, Shop!Null
<1>8. /\ prices' \in Seq(PriceRow) /\ DOMAIN prices' = DOMAIN prices \cup {Len(prices) + 1}
      /\ prices'[Len(prices) + 1] = first /\ \A i \in DOMAIN prices : prices'[i] = prices[i]
      /\ Len(prices) \in Nat /\ DOMAIN prices = 1..Len(prices)
  <2>1. prices \in Seq(PriceRow) /\ prices' = Append(prices, first)
    BY <1>2, <1>3 DEF ShopInv, TablesInv
  <2> QED BY <1>7, <2>1, Appended
<1>9. Grows
  BY <1>1, <1>6, <1>8 DEF Grows
<1>10. TablesInv'
  BY <1>1, <1>6, <1>8 DEF ShopInv, TablesInv
<1>11. RefersInv'
  BY <1>1, <1>4, <1>5, <1>6, <1>7, <1>8 DEF ShopInv, RefersInv, OfProduct, OfVariant
<1>12. NamesInv'
  <2>1. \A v \in DOMAIN variants : ~(variants[v].product = p /\ variants[v].name = n)
    BY <1>2 DEF Shop!VariantNamed
  <2> QED BY <1>1, <1>5, <1>6, <2>1 DEF ShopInv, NamesInv
<1>13. PricesInv'
  <2>1. DOMAIN variants' = 1..(Len(variants) + 1) /\ DOMAIN prices' = 1..(Len(prices) + 1)
    BY <1>6, <1>8
  <2>2. \A k \in 1..1 : /\ prices'[Len(prices) + k].variant = Len(variants) + k
                        /\ prices'[Len(prices) + k].validFrom = now
                        /\ prices'[Len(prices) + k].validTo = Shop!Null
    BY <1>7, <1>8
  <2> QED BY <1>4, <1>8, <2>1, <2>2, PricesAdded
<1>14. CallsInv' /\ LocksInv'
  BY <1>1, <1>8, <1>9, CallsStay
<1> QED BY <1>10, <1>11, <1>12, <1>13, <1>14 DEF ShopInv

(* A price closed, and the next one in its place. *)
LEMMA PriceFollows ==
    ASSUME ShopInv, NEW i \in DOMAIN prices, NEW now \in Moments, prices[i].validTo = Shop!Null,
           now > prices[i].validFrom,
           NEW new, new = Len(prices) + 1,
           DOMAIN variants' = DOMAIN variants, DOMAIN prices' = DOMAIN prices \cup {new},
           \A j \in DOMAIN prices \ {i} : prices'[j] = prices[j],
           prices'[i].variant = prices[i].variant, prices'[i].validFrom = prices[i].validFrom,
           prices'[i].validTo = now,
           prices'[new].variant = prices[i].variant, prices'[new].validFrom = now, prices'[new].validTo = Shop!Null
    PROVE  PricesInv'
<1>1. /\ new \notin DOMAIN prices
      /\ \A j \in DOMAIN prices : prices[j].variant \in DOMAIN variants /\ prices[j].validFrom \in Moments
                                                           /\ prices[j].validTo \in Nat
  <2>1. prices \in Seq(PriceRow)
    BY DEF ShopInv, TablesInv
  <2>2. new \notin DOMAIN prices /\ \A j \in DOMAIN prices : prices[j].validTo \in Nat
    <3>1. new \notin DOMAIN prices
      BY <2>1
    <3>2. \A j \in DOMAIN prices : prices[j] \in PriceRow
      BY <2>1
    <3> QED BY <3>1, <3>2 DEF PriceRow
  <2> QED BY <2>2 DEF ShopInv, RefersInv
<1>2. ASSUME NEW v \in DOMAIN variants, v # prices[i].variant
      PROVE  (Throughout(v) /\ \E c \in DOMAIN prices : History(v, c))'
  <2>1. Throughout(v) /\ \E c \in DOMAIN prices : History(v, c)
    BY DEF ShopInv, PricesInv
  <2>2. \A t : Shop!GetPriceAt(v, t)' = Shop!GetPriceAt(v, t)
    BY <1>1, <1>2 DEF Shop!GetPriceAt
  <2>3. Throughout(v)'
    BY <2>1, <2>2 DEF Throughout
  <2>4. PICK c \in DOMAIN prices : History(v, c)
    BY <2>1
  <2>5. History(v, c)'
    BY <1>1, <1>2, <2>4 DEF History, Closed
  <2> QED BY <2>3, <2>5
<1>3. ASSUME NEW v, v = prices[i].variant
      PROVE  (Throughout(v) /\ \E c \in DOMAIN prices : History(v, c))'
  <2>1. v \in DOMAIN variants
    BY <1>1, <1>3
  <2>2. PICK c \in DOMAIN prices : History(v, c)
    BY <2>1 DEF ShopInv, PricesInv
  <2>3. c = i
    BY <1>1, <1>3, <2>2 DEF History, Closed, Moments, Shop!Null
  <2>4. \A j \in DOMAIN prices : prices[j].variant = v /\ j # i =>
            prices[j].validTo > prices[j].validFrom /\ prices[j].validTo <= prices[i].validFrom
    BY <2>2, <2>3 DEF History, Closed
  <2>5. now \in Int /\ now > 0 /\ \A j \in DOMAIN prices : prices[j].validFrom \in Int /\ prices[j].validFrom > 0
    BY <1>1 DEF Moments
  <2>6. History(v, new)'
    <3>1. \A j \in DOMAIN prices : prices'[j].variant = v =>
             prices'[j].validTo > prices'[j].validFrom /\ prices'[j].validTo <= now
      BY <1>1, <1>3, <2>4, <2>5
    <3> QED BY <1>1, <1>3, <3>1 DEF History, Closed
  <2>7. \A t \in 1..(LastMoment + 1) :
           IF t < now THEN Shop!GetPriceAt(v, t)' = Shop!GetPriceAt(v, t) ELSE Shop!GetPriceAt(v, t)' = {new}
    <3>1. TAKE t \in 1..(LastMoment + 1)
    <3>2. t \in Int /\ t > 0
      BY ShopAssumption DEF Shop!MomentsAssumption
    <3>3. CASE t < now
      <4>1. \A j \in DOMAIN prices' : j \in Shop!GetPriceAt(v, t)' <=> j \in Shop!GetPriceAt(v, t)
        BY <1>1, <1>3, <2>5, <3>2, <3>3 DEF Shop!GetPriceAt, Shop!Null
      <4> QED BY <3>3, <4>1 DEF Shop!GetPriceAt
    <3>4. CASE ~(t < now)
      <4>1. \A j \in DOMAIN prices : j \notin Shop!GetPriceAt(v, t)'
        BY <1>1, <1>3, <2>4, <2>5, <3>2, <3>4 DEF Shop!GetPriceAt, Shop!Null
      <4>2. new \in Shop!GetPriceAt(v, t)'
        BY <1>3, <2>5, <3>2, <3>4 DEF Shop!GetPriceAt
      <4> QED BY <3>4, <4>1, <4>2 DEF Shop!GetPriceAt
    <3> QED BY <3>3, <3>4
  <2>8. PICK born \in Moments : \A t \in 1..(LastMoment + 1) :
                     IF t < born THEN Shop!GetPriceAt(v, t) = {} ELSE Single(Shop!GetPriceAt(v, t))
    BY <2>1 DEF ShopInv, PricesInv, Throughout
  <2>9. born <= now
    <3>1. prices[i].validFrom \in 1..(LastMoment + 1) /\ i \in Shop!GetPriceAt(v, prices[i].validFrom)
      BY <1>1, <1>3, <2>5, ShopAssumption DEF Shop!GetPriceAt, Moments, Shop!MomentsAssumption
    <3>2. ~(prices[i].validFrom < born)
      BY <2>8, <3>1
    <3> QED BY <2>5, <3>2 DEF Moments
  <2>10. Throughout(v)'
    <3>1. \A t \in 1..(LastMoment + 1) :
             IF t < born THEN Shop!GetPriceAt(v, t)' = {} ELSE Single(Shop!GetPriceAt(v, t)')
      <4>1. TAKE t \in 1..(LastMoment + 1)
      <4>2. t \in Int /\ born \in Int
        BY ShopAssumption DEF Moments, Shop!MomentsAssumption
      <4>3. CASE t < now
        <5>1. Shop!GetPriceAt(v, t)' = Shop!GetPriceAt(v, t)
          BY <2>7, <4>3
        <5>2. IF t < born THEN Shop!GetPriceAt(v, t) = {} ELSE Single(Shop!GetPriceAt(v, t))
          BY <2>8
        <5> QED BY <5>1, <5>2 DEF Single
      <4>4. CASE ~(t < now)
        <5>1. Shop!GetPriceAt(v, t)' = {new}
          BY <2>7, <4>4
        <5>2. ~(t < born)
          BY <2>5, <2>9, <4>2, <4>4
        <5> QED BY <5>1, <5>2 DEF Single
      <4> QED BY <4>3, <4>4
    <3> QED BY <3>1 DEF Throughout, Single
  <2> QED BY <2>6, <2>10
<1> QED BY <1>2, <1>3 DEF PricesInv

LEMMA SetsVariantPrice == ASSUME ShopInv, NEW q \in Requests, Shop!SetVariantPrice(q) PROVE ShopInv'
<1>0. /\ UNCHANGED <<categories, products, variants, templates, release, clock>>
      /\ call' = [call EXCEPT ![q] = Shop!Free]
  BY DEF Shop!SetVariantPrice, Shop!Proceed
<1>1. PICK x : x = call[q]
  OBVIOUS
<1>2. Knows(x) /\ x.at = "closed"
  BY <1>1 DEF ShopInv, CallsInv, Shop!SetVariantPrice, Shop!At
<1>3. CASE UNCHANGED prices
  <2>1. Grows
    BY <1>0, <1>3 DEF Grows
  <2>2. TablesInv' /\ RefersInv' /\ NamesInv' /\ PricesInv'
    BY <1>0, <1>3, PricesStay DEF ShopInv, TablesInv, RefersInv, NamesInv, OfProduct, OfVariant
  <2>3. CallsInv' /\ LocksInv'
    BY <1>0, <1>3, <2>1, FreedAfter
  <2> QED BY <2>2, <2>3 DEF ShopInv
<1>4. CASE Shop!IsUnique(q) /\ Shop!CreatePrice(q)
  <2> DEFINE i == x.closes
             new == Len(prices) + 1
             shut == [j \in DOMAIN prices |-> IF j = i THEN [prices[j] EXCEPT !.validTo = x.now] ELSE prices[j]]
  <2>1. x.variant \in DOMAIN variants /\ x.amount \in Int /\ x.now \in Moments /\ x.now \in Nat /\ x.variant \in Nat
    <3>1. x.variant \in DOMAIN variants /\ x.amount \in Amounts /\ x.now \in Moments
      BY <1>2 DEF Knows
    <3>2. variants \in Seq(VariantRow)
      BY DEF ShopInv, TablesInv
    <3>3. x.variant \in Nat
      BY <3>1, <3>2
    <3>4. Moments \subseteq Nat /\ Amounts \subseteq Int
      BY ShopAssumption DEF Shop!AmountsAssumption, Moments, Shop!MomentsAssumption
    <3> QED BY <3>1, <3>3, <3>4
  <2>2. /\ i \in DOMAIN prices /\ prices[i].variant = x.variant /\ prices[i].validTo = Shop!Null
        /\ x.now > prices[i].validFrom
    <3>1. PICK c \in DOMAIN prices : History(x.variant, c)
      BY <2>1 DEF ShopInv, PricesInv
    <3>2. c \in Shop!GetCurrentPrice(x.variant)
      BY <3>1 DEF History, Shop!GetCurrentPrice
    <3>3. i = c
      BY <1>1, <1>4, <3>2 DEF Shop!IsUnique, Shop!Open
    <3>4. c # Shop!Null
      BY DEF ShopInv, TablesInv, Shop!Null
    <3> QED BY <1>2, <3>3, <3>4 DEF Knows, Closes, Holds
  <2>3. PICK row : row = Shop!Price(x.variant, x.amount, x.now)
    OBVIOUS
  <2>4. row \in PriceRow /\ row.variant = x.variant /\ row.validFrom = x.now /\ row.validTo = Shop!Null
    BY <2>1, <2>3 DEF Shop!Price, PriceRow, Shop!Null
  <2>5. prices' = Append(shut, row)
    BY <1>1, <1>4, <2>3 DEF Shop!CreatePrice, Shop!Open
  <2>6. prices \in Seq(PriceRow)
    BY DEF ShopInv, TablesInv
  <2>7. [prices[i] EXCEPT !.validTo = x.now] \in PriceRow
    <3>1. prices[i] \in PriceRow
      BY <2>2, <2>6
    <3> QED BY <2>1, <3>1 DEF PriceRow
  <2>8. shut \in Seq(PriceRow) /\ Len(shut) = Len(prices) /\ DOMAIN shut = DOMAIN prices
    BY <2>6, <2>7
  <2>9. /\ \A j \in DOMAIN prices \ {i} : shut[j] = prices[j]
        /\ shut[i].variant = prices[i].variant /\ shut[i].validFrom = prices[i].validFrom /\ shut[i].validTo = x.now
    <3>1. prices[i] \in PriceRow
      BY <2>2, <2>6
    <3> QED BY <2>2, <3>1 DEF PriceRow
  <2> HIDE DEF shut
  <2>10. /\ prices' \in Seq(PriceRow) /\ DOMAIN prices' = DOMAIN prices \cup {new} /\ new \notin DOMAIN prices
         /\ prices'[new] = row /\ \A j \in DOMAIN prices : prices'[j] = shut[j]
    BY <2>4, <2>5, <2>8, Appended
  <2> HIDE DEF new
  <2>11. Grows
    BY <1>0, <2>9, <2>10 DEF Grows
  <2>12. TablesInv'
    BY <1>0, <2>10 DEF ShopInv, TablesInv
  <2>13. RefersInv' /\ NamesInv'
    BY <1>0, <2>1, <2>4, <2>9, <2>10 DEF ShopInv, RefersInv, NamesInv, OfProduct, OfVariant
  <2>14. PricesInv'
    BY <1>0, <2>1, <2>2, <2>4, <2>9, <2>10, PriceFollows DEF new
  <2>15. CallsInv' /\ LocksInv'
    <3>1. \A s \in Requests \ {q} : ~(Shop!At(s, "closed") /\ call[s].closes = i)
      BY <1>1, <1>2, <2>2 DEF ShopInv, LocksInv, TablesInv, Shop!At, Shop!Null
    <3>2. \A j \in DOMAIN prices : j # i => prices'[j].validTo = prices[j].validTo
      BY <2>9, <2>10
    <3> QED BY <1>0, <2>11, <3>1, <3>2, FreedAfter
  <2> QED BY <2>12, <2>13, <2>14, <2>15 DEF ShopInv
<1> QED BY <1>3, <1>4 DEF Shop!SetVariantPrice

(* A finite set in some order: every element once. *)
LEMMA Ordered ==
    ASSUME NEW S, IsFiniteSet(S), NEW s, s = Shop!SetToSeq(S), NEW n, n = Cardinality(S)
    PROVE  /\ n \in Nat /\ DOMAIN s = 1..n /\ \A k \in 1..n : s[k] \in S
           /\ \A k, m \in 1..n : s[k] = s[m] => k = m
           /\ \A e \in S : \E k \in 1..n : s[k] = e
<1>1. n \in Nat /\ ExistsBijection(1..n, S)
  BY FS_CardinalityType
<1>2. \E f \in [1..n -> S] : IsInjective(f)
  BY <1>1 DEF ExistsBijection, Bijection, Injection
<1>3. s \in [1..n -> S] /\ IsInjective(s)
  BY <1>2, ShopCounts DEF Shop!SetToSeq, Shop!IsInjective, IsInjective
<1>4. s \in Injection(1..n, S)
  BY <1>3 DEF Injection
<1>5. Cardinality(1..n) = n
  BY <1>1, FS_Interval
<1>6. s \in Surjection(1..n, S)
  BY <1>4, <1>5, FS_Injection
<1> QED BY <1>1, <1>3, <1>6 DEF IsInjective, Surjection

(* t is s with n more. *)
Extended(s, t, n) == /\ DOMAIN s = 1..Len(s) /\ Len(s) \in Nat /\ DOMAIN t = 1..(Len(s) + n)
                     /\ \A i \in DOMAIN s : t[i] = s[i]
                     /\ \A k \in 1..n : Len(s) + k \notin DOMAIN s

With(S, s, t, n, f) == t \in Seq(S) /\ Extended(s, t, n) /\ \A k \in 1..n : t[Len(s) + k] = f[k]

LEMMA AllAppended ==
    ASSUME NEW S, NEW s \in Seq(S), NEW n \in Nat, NEW f \in [1..n -> S], NEW t, t = s \o f
    PROVE  With(S, s, t, n, f)
<1>1. f \in Seq(S) /\ Len(f) = n
  OBVIOUS
<1>2. t \in Seq(S) /\ Len(t) = Len(s) + n /\ Len(s) \in Nat
  <2>1. \A g \in Seq(S) : s \o g \in Seq(S) /\ Len(s \o g) = Len(s) + Len(g) /\ Len(s) \in Nat
    OBVIOUS
  <2> QED BY <1>1, <2>1
<1>3. \A i \in 1..Len(s) : t[i] = s[i]
  BY <1>1
<1>4. ASSUME NEW k \in 1..n PROVE Len(s) + k \notin 1..Len(s) /\ t[Len(s) + k] = f[k]
  <2>1. Len(s) + k \in 1..(Len(s) + n) /\ Len(s) + k > Len(s) /\ (Len(s) + k) - Len(s) = k
    BY <1>2
  <2> QED BY <1>1, <1>2, <2>1
<1> QED BY <1>2, <1>3, <1>4 DEF Extended, With

(* The places that were added. *)
LEMMA PlacesAdded ==
    ASSUME NEW m \in Nat, NEW n \in Nat, NEW i \in 1..(m + n), i \notin 1..m
    PROVE  \E k \in 1..n : i = m + k
<1>1. i - m \in 1..n /\ i = m + (i - m)
  OBVIOUS
<1> QED BY <1>1

(* What a copy of templates adds. *)
Lists(s, n, S) == /\ DOMAIN s = 1..n /\ \A k \in 1..n : s[k] \in S
                  /\ \A k, m \in 1..n : s[k] = s[m] => k = m
                  /\ \A e \in S : \E k \in 1..n : s[k] = e
InItsCategory(q, t, c) ==
    LET n == Shop!Open(q).category[t]
    IN /\ c \in DOMAIN categories'
       /\ IF Shop!Open(q).found[n] = Shop!Null THEN categories'[c].name = n ELSE c = Shop!Open(q).found[n]
NewProducts(q, n, order) == \A k \in 1..n : LET row == products'[Len(products) + k]
                                            IN /\ row.name = order[k] /\ row.template = order[k]
                                               /\ InItsCategory(q, order[k], row.category)
NewVariants(m, copies) == \A k \in 1..m : LET row == variants'[Len(variants) + k]
                                          IN row.product = Len(products) + copies[k][1] /\ row.name = copies[k][2]
NewPrices(q, m, order, copies, now) == \A k \in 1..m :
    LET row == prices'[Len(prices) + k]
    IN /\ row.variant = Len(variants) + k /\ row.validFrom = now /\ row.validTo = Shop!Null
       /\ row.amountKobo = Shop!Open(q).variants[order[copies[k][1]]][copies[k][2]]
Copy(q, a, n, m, now, order, copies) ==
    /\ Lists(order, n, DOMAIN Shop!Open(q).category) /\ Lists(copies, m, Shop!Copies(q, order))
    /\ categories' \in Seq(CategoryRow) /\ Extended(categories, categories', a)
    /\ products' \in Seq(ProductRow) /\ Extended(products, products', n) /\ NewProducts(q, n, order)
    /\ variants' \in Seq(VariantRow) /\ Extended(variants, variants', m) /\ NewVariants(m, copies)
    /\ prices' \in Seq(PriceRow) /\ Extended(prices, prices', m) /\ NewPrices(q, m, order, copies, now)

LEMMA Copied ==
    ASSUME ShopInv, NEW q \in Requests, Shop!ApplyTemplates(q), Shop!NamesAreFree(q)
    PROVE  \E order, copies : \E a, n, m \in Nat, now \in Moments : Copy(q, a, n, m, now, order, copies)
<1> DEFINE x == Shop!Open(q)
           order == Shop!SetToSeq(DOMAIN x.category)
           missing == Shop!SetToSeq(Shop!Missing(q))
           copies == Shop!SetToSeq(Shop!Copies(q, order))
           categoryOf(t) == LET c == x.category[t]
                            IN IF x.found[c] # Shop!Null THEN x.found[c]
                               ELSE Len(categories) + (CHOOSE k \in DOMAIN missing : missing[k] = c)
           newCategories == [k \in DOMAIN missing |-> Shop!Category(missing[k])]
           newProducts == [k \in DOMAIN order |-> Shop!Product(order[k], categoryOf(order[k]), order[k])]
           newVariants == [k \in DOMAIN copies |-> Shop!Variant(Len(products) + copies[k][1], copies[k][2], TRUE)]
           newPrices(now) == [k \in DOMAIN copies |->
               Shop!Price(Len(variants) + k, x.variants[order[copies[k][1]]][copies[k][2]], now)]
<1>16. /\ categories' = categories \o newCategories /\ products' = products \o newProducts
       /\ variants' = variants \o newVariants /\ \E now \in Shop!Now : prices' = prices \o newPrices(now)
  BY Zenon DEF Shop!ApplyTemplates
<1>1. x = call[q] /\ order = Shop!SetToSeq(DOMAIN x.category) /\ missing = Shop!SetToSeq(Shop!Missing(q))
      /\ copies = Shop!SetToSeq(Shop!Copies(q, order))
  BY DEF Shop!Open
<1> HIDE DEF x, order, missing, copies
<1>2. Knows(x) /\ x.at = "resolved"
  BY <1>1 DEF ShopInv, CallsInv, Shop!ApplyTemplates, Shop!At
<1>3. /\ DOMAIN x.category \subseteq Names /\ \A t \in DOMAIN x.category : x.category[t] \in Names
      /\ \A t \in DOMAIN x.category : Suggests(x.variants[t])
      /\ DOMAIN x.found = {x.category[t] : t \in DOMAIN x.category}
      /\ \A n \in DOMAIN x.found : x.found[n] \in DOMAIN categories \cup {Shop!Null}
  BY <1>2 DEF Knows
<1>7. PICK n : n = Cardinality(DOMAIN x.category)
  OBVIOUS
<1>8. PICK a : a = Cardinality(Shop!Missing(q))
  OBVIOUS
<1>9. PICK m : m = Cardinality(Shop!Copies(q, order))
  OBVIOUS
<1>10. IsFiniteSet(Names)
  BY ShopFinite, ShopAssumption DEF Shop!NamesAssumption
<1>11. n \in Nat /\ Lists(order, n, DOMAIN x.category)
  <2>1. IsFiniteSet(DOMAIN x.category)
    BY <1>3, <1>10, FS_Subset
  <2> QED BY <1>1, <1>7, <2>1, Ordered DEF Lists
<1>12. Shop!Missing(q) = {e \in DOMAIN x.found : x.found[e] = Shop!Null} /\ Shop!Missing(q) \subseteq Names
  BY <1>1, <1>3 DEF Shop!Missing, Shop!Open
<1>13. a \in Nat /\ Lists(missing, a, Shop!Missing(q))
  <2>1. IsFiniteSet(Shop!Missing(q))
    BY <1>10, <1>12, FS_Subset
  <2> QED BY <1>1, <1>8, <2>1, Ordered DEF Lists
<1>14. Shop!Copies(q, order) = {c \in (1..n) \X Names : c[2] \in DOMAIN x.variants[order[c[1]]]}
  BY <1>1, <1>11 DEF Shop!Copies, Shop!Open, Lists
<1>15. m \in Nat /\ Lists(copies, m, Shop!Copies(q, order))
  <2>1. IsFiniteSet(1..n)
    BY <1>11, FS_Interval
  <2>2. IsFiniteSet((1..n) \X Names)
    BY <1>10, <2>1, FS_Product
  <2>3. IsFiniteSet(Shop!Copies(q, order))
    BY <1>14, <2>2, FS_Subset
  <2> QED BY <1>1, <1>9, <2>3, Ordered DEF Lists
<1>0. DOMAIN missing = 1..a /\ DOMAIN order = 1..n /\ DOMAIN copies = 1..m
  BY <1>11, <1>13, <1>15 DEF Lists
<1>17. PICK now \in Shop!Now : prices' = prices \o newPrices(now)
  BY <1>16
<1>18. now \in Moments /\ now \in Nat
  BY NowIsAMoment, ShopAssumption DEF Moments, Shop!MomentsAssumption
<1>19. /\ categories \in Seq(CategoryRow) /\ products \in Seq(ProductRow)
       /\ variants \in Seq(VariantRow) /\ prices \in Seq(PriceRow)
  BY DEF ShopInv, TablesInv
<1>20. /\ categories' \in Seq(CategoryRow) /\ Extended(categories, categories', a)
       /\ \A k \in 1..a : categories'[Len(categories) + k].name = missing[k]
  <2>1. \A k \in 1..a : Shop!Category(missing[k]) \in CategoryRow /\ Shop!Category(missing[k]).name = missing[k]
    BY <1>12, <1>13 DEF Shop!Category, CategoryRow, Lists
  <2>2. newCategories \in [1..a -> CategoryRow] /\ \A k \in 1..a : newCategories[k].name = missing[k]
    BY <1>0, <2>1
  <2>3. PICK new : new = newCategories
    OBVIOUS
  <2>4. categories' = categories \o new
    BY <1>16, <2>3
  <2>5. new \in [1..a -> CategoryRow] /\ \A k \in 1..a : new[k].name = missing[k]
    BY <2>2, <2>3
  <2> HIDE DEF newCategories
  <2>6. With(CategoryRow, categories, categories', a, new)
    BY <1>13, <1>19, <2>4, <2>5, AllAppended
  <2> QED BY <2>5, <2>6 DEF With
<1>21. ASSUME NEW t \in DOMAIN x.category PROVE InItsCategory(q, t, categoryOf(t)) /\ categoryOf(t) \in Nat
  <2>1. PICK c : c = x.category[t]
    OBVIOUS
  <2>2. c \in DOMAIN x.found
    BY <1>3, <2>1
  <2>3. /\ Len(categories) \in Nat /\ DOMAIN categories = 1..Len(categories)
        /\ DOMAIN categories' = 1..(Len(categories) + a)
    BY <1>20 DEF Extended
  <2>4. CASE x.found[c] # Shop!Null
    <3>1. categoryOf(t) = x.found[c] /\ x.found[c] \in DOMAIN categories
      BY <1>3, <2>1, <2>2, <2>4
    <3>2. categoryOf(t) \in DOMAIN categories' /\ categoryOf(t) \in Nat
      BY <1>13, <2>3, <3>1
    <3> QED BY <1>1, <2>1, <2>4, <3>1, <3>2 DEF InItsCategory, Shop!Open
  <2>5. CASE x.found[c] = Shop!Null
    <3> DEFINE place == CHOOSE k \in DOMAIN missing : missing[k] = c
    <3>1. \E k \in DOMAIN missing : missing[k] = c
      BY <1>12, <1>13, <2>2, <2>5 DEF Lists
    <3>2. place \in DOMAIN missing /\ missing[place] = c
      BY <3>1
    <3>3. place \in 1..a
      BY <1>13, <3>2 DEF Lists
    <3>4. categoryOf(t) = Len(categories) + place
      BY <2>1, <2>5
    <3> HIDE DEF place, categoryOf
    <3>5. categoryOf(t) \in DOMAIN categories' /\ categoryOf(t) \in Nat
      BY <1>13, <2>3, <3>3, <3>4
    <3>6. categories'[categoryOf(t)].name = c
      BY <1>20, <3>2, <3>3, <3>4
    <3> QED BY <1>1, <2>1, <2>5, <3>5, <3>6 DEF InItsCategory, Shop!Open
  <2> QED BY <2>4, <2>5
<1> HIDE DEF categoryOf
<1>22. products' \in Seq(ProductRow) /\ Extended(products, products', n) /\ NewProducts(q, n, order)
  <2>1. ASSUME NEW k \in 1..n
        PROVE  /\ newProducts[k] \in ProductRow
               /\ newProducts[k].name = order[k] /\ newProducts[k].template = order[k]
               /\ newProducts[k].category = categoryOf(order[k])
    <3>1. order[k] \in DOMAIN x.category /\ order[k] \in Names /\ k \in DOMAIN order
      BY <1>0, <1>3, <1>11 DEF Lists
    <3>2. categoryOf(order[k]) \in Nat
      BY <1>21, <3>1
    <3> QED BY <3>1, <3>2 DEF Shop!Product, ProductRow
  <2>2. newProducts \in [1..n -> ProductRow]
    BY <1>0, <2>1
  <2>3. /\ products' \in Seq(ProductRow) /\ Extended(products, products', n)
        /\ \A k \in 1..n : products'[Len(products) + k] = newProducts[k]
    <3>1. PICK new : new = newProducts
      OBVIOUS
    <3>2. products' = products \o new
      BY <1>16, <3>1
    <3> HIDE DEF newProducts
    <3>3. With(ProductRow, products, products', n, new)
      BY <1>11, <1>19, <2>2, <3>1, <3>2, AllAppended
    <3> QED BY <3>1, <3>3 DEF With
  <2> HIDE DEF newProducts
  <2>4. ASSUME NEW k \in 1..n PROVE InItsCategory(q, order[k], categoryOf(order[k]))
    BY <1>11, <1>21 DEF Lists
  <2> QED BY <2>1, <2>3, <2>4 DEF NewProducts
<1>23. ASSUME NEW k \in 1..m
       PROVE  /\ copies[k][1] \in 1..n /\ copies[k][2] \in Names
              /\ copies[k][2] \in DOMAIN x.variants[order[copies[k][1]]]
  BY <1>14, <1>15 DEF Lists
<1>24. variants' \in Seq(VariantRow) /\ Extended(variants, variants', m) /\ NewVariants(m, copies)
  <2>1. ASSUME NEW k \in 1..m
        PROVE  /\ newVariants[k] \in VariantRow
               /\ newVariants[k].product = Len(products) + copies[k][1] /\ newVariants[k].name = copies[k][2]
    <3>1. Len(products) \in Nat /\ k \in DOMAIN copies
      BY <1>0, <1>19
    <3>2. Len(products) + copies[k][1] \in Nat
      BY <1>11, <1>23, <3>1
    <3> QED BY <1>23, <3>1, <3>2 DEF Shop!Variant, VariantRow
  <2>2. newVariants \in [1..m -> VariantRow]
    BY <1>0, <2>1
  <2>3. /\ variants' \in Seq(VariantRow) /\ Extended(variants, variants', m)
        /\ \A k \in 1..m : variants'[Len(variants) + k] = newVariants[k]
    <3>1. PICK new : new = newVariants
      OBVIOUS
    <3>2. variants' = variants \o new
      BY <1>16, <3>1
    <3> HIDE DEF newVariants
    <3>3. With(VariantRow, variants, variants', m, new)
      BY <1>15, <1>19, <2>2, <3>1, <3>2, AllAppended
    <3> QED BY <3>1, <3>3 DEF With
  <2> HIDE DEF newVariants
  <2> QED BY <2>1, <2>3 DEF NewVariants
<1>25. prices' \in Seq(PriceRow) /\ Extended(prices, prices', m) /\ NewPrices(q, m, order, copies, now)
  <2>1. PICK new : new = newPrices(now)
    OBVIOUS
  <2>2. ASSUME NEW k \in 1..m
        PROVE  /\ new[k] \in PriceRow
               /\ new[k].variant = Len(variants) + k /\ new[k].validFrom = now /\ new[k].validTo = Shop!Null
               /\ new[k].amountKobo = x.variants[order[copies[k][1]]][copies[k][2]]
    <3>1. Len(variants) + k \in Nat
      BY <1>15, <1>19
    <3>2. x.variants[order[copies[k][1]]][copies[k][2]] \in Int
      BY <1>3, <1>11, <1>23 DEF Lists, Suggests
    <3> QED BY <1>0, <1>18, <2>1, <3>1, <3>2 DEF Shop!Price, PriceRow, Shop!Null
  <2>3. new \in [1..m -> PriceRow]
    BY <1>0, <2>1, <2>2
  <2>4. /\ prices' \in Seq(PriceRow) /\ Extended(prices, prices', m)
        /\ \A k \in 1..m : prices'[Len(prices) + k] = new[k]
    <3>1. With(PriceRow, prices, prices', m, new)
      BY <1>15, <1>17, <1>19, <2>1, <2>3, AllAppended
    <3> QED BY <3>1 DEF With
  <2>5. NewPrices(q, m, order, copies, now)
    <3>1. Shop!Open(q) = x
      BY <1>1 DEF Shop!Open
    <3>2. \A k \in 1..m : /\ prices'[Len(prices) + k].variant = Len(variants) + k
                          /\ prices'[Len(prices) + k].validFrom = now
                          /\ prices'[Len(prices) + k].validTo = Shop!Null
                          /\ prices'[Len(prices) + k].amountKobo = x.variants[order[copies[k][1]]][copies[k][2]]
      <4>1. TAKE k \in 1..m
      <4>2. prices'[Len(prices) + k] = new[k]
        BY <2>4
      <4> QED BY <2>2, <4>2
    <3> QED BY <3>1, <3>2, Zenon DEF NewPrices
  <2> QED BY <2>4, <2>5
<1>26. Copy(q, a, n, m, now, order, copies)
  BY <1>1, <1>11, <1>15, <1>20, <1>22, <1>24, <1>25 DEF Copy, Shop!Open
<1> QED BY <1>11, <1>13, <1>15, <1>18, <1>26

LEMMA AppliesTemplates == ASSUME ShopInv, NEW q \in Requests, Shop!ApplyTemplates(q) PROVE ShopInv'
<1>0. UNCHANGED <<templates, release, clock>> /\ call' = [call EXCEPT ![q] = Shop!Free]
  BY DEF Shop!ApplyTemplates, Shop!Proceed
<1>1. CASE ~Shop!NamesAreFree(q)
  <2>1. UNCHANGED <<categories, products, variants, prices>>
    BY <1>1, Zenon DEF Shop!ApplyTemplates
  <2>2. Grows
    BY <1>0, <2>1 DEF Grows
  <2>3. TablesInv' /\ RefersInv' /\ NamesInv' /\ PricesInv'
    BY <1>0, <2>1, PricesStay DEF ShopInv, TablesInv, RefersInv, NamesInv, OfProduct, OfVariant
  <2>4. CallsInv' /\ LocksInv'
    BY <1>0, <2>1, <2>2, FreedAfter
  <2> QED BY <2>3, <2>4 DEF ShopInv
<1>2. CASE Shop!NamesAreFree(q)
  <2>0. PICK order, copies : \E a, n, m \in Nat, now \in Moments : Copy(q, a, n, m, now, order, copies)
    BY <1>2, Copied
  <2>1. PICK a, n, m \in Nat, now \in Moments : Copy(q, a, n, m, now, order, copies)
    BY <2>0
  <2>2. /\ Extended(categories, categories', a) /\ Extended(products, products', n)
        /\ Extended(variants, variants', m) /\ Extended(prices, prices', m)
    BY <2>1 DEF Copy
  <2>3. /\ DOMAIN products = 1..Len(products) /\ DOMAIN products' = 1..(Len(products) + n) /\ Len(products) \in Nat
        /\ DOMAIN variants = 1..Len(variants) /\ DOMAIN variants' = 1..(Len(variants) + m) /\ Len(variants) \in Nat
        /\ DOMAIN prices = 1..Len(prices) /\ DOMAIN prices' = 1..(Len(prices) + m) /\ Len(prices) \in Nat
        /\ \A p \in DOMAIN products : products'[p] = products[p]
        /\ \A v \in DOMAIN variants : variants'[v] = variants[v]
        /\ \A i \in DOMAIN prices : prices'[i] = prices[i]
    BY <2>2 DEF Extended
  <2>4. Grows
    <3>1. /\ DOMAIN categories \subseteq DOMAIN categories' /\ DOMAIN products \subseteq DOMAIN products'
          /\ DOMAIN variants \subseteq DOMAIN variants' /\ DOMAIN prices \subseteq DOMAIN prices'
      BY <2>2 DEF Extended
    <3> QED BY <1>0, <2>3, <3>1 DEF Grows
  <2>5. TablesInv'
    BY <1>0, <2>1 DEF ShopInv, TablesInv, Copy
  <2>6. \A p \in DOMAIN products' : p \notin DOMAIN products => \E k \in 1..n : p = Len(products) + k
    <3>1. TAKE p \in DOMAIN products'
    <3> QED BY <2>3, <3>1, PlacesAdded
  <2>7. \A v \in DOMAIN variants' : v \notin DOMAIN variants => \E k \in 1..m : v = Len(variants) + k
    <3>1. TAKE v \in DOMAIN variants'
    <3> QED BY <2>3, <3>1, PlacesAdded
  <2>8. \A i \in DOMAIN prices' : i \notin DOMAIN prices => \E k \in 1..m : i = Len(prices) + k
    <3>1. TAKE i \in DOMAIN prices'
    <3> QED BY <2>3, <3>1, PlacesAdded
  <2>9. ASSUME NEW k \in 1..n
        PROVE  /\ order[k] \in DOMAIN Shop!Open(q).category
               /\ products'[Len(products) + k].name = order[k]
               /\ products'[Len(products) + k].category \in DOMAIN categories'
    BY <2>1 DEF Copy, Lists, NewProducts, InItsCategory
  <2>10. ASSUME NEW k \in 1..m
         PROVE  /\ copies[k][1] \in 1..n /\ copies[k] = <<copies[k][1], copies[k][2]>>
                /\ variants'[Len(variants) + k].product = Len(products) + copies[k][1]
                /\ variants'[Len(variants) + k].name = copies[k][2]
    <3>1. copies[k] \in Shop!Copies(q, order) /\ DOMAIN order = 1..n
      BY <2>1 DEF Copy, Lists
    <3>2. copies[k] \in (1..n) \X Names
      BY <3>1 DEF Shop!Copies
    <3> QED BY <2>1, <3>2 DEF Copy, NewVariants
  <2>11. RefersInv'
    <3>1. ASSUME NEW p \in DOMAIN products'
          PROVE  products'[p] \in ProductRow /\ products'[p].category \in DOMAIN categories' \cup {Shop!Null}
      <4>1. products' \in Seq(ProductRow) /\ DOMAIN categories \subseteq DOMAIN categories'
        BY <2>1, <2>4 DEF Copy, Grows
      <4>2. CASE p \in DOMAIN products
        BY <2>3, <4>1, <4>2 DEF ShopInv, RefersInv, OfProduct
      <4>3. CASE p \notin DOMAIN products
        <5>1. PICK k \in 1..n : p = Len(products) + k
          BY <2>6, <4>3
        <5>2. products'[p].category \in DOMAIN categories'
          BY <2>9, <5>1
        <5> QED BY <4>1, <5>2
      <4> QED BY <4>2, <4>3
    <3>2. ASSUME NEW v \in DOMAIN variants'
          PROVE  variants'[v] \in VariantRow /\ variants'[v].product \in DOMAIN products'
      <4>1. variants' \in Seq(VariantRow)
        BY <2>1 DEF Copy
      <4>2. CASE v \in DOMAIN variants
        <5>1. variants[v].product \in DOMAIN products
          BY <4>2 DEF ShopInv, RefersInv, OfVariant
        <5> QED BY <2>3, <4>1, <4>2, <5>1
      <4>3. CASE v \notin DOMAIN variants
        <5>1. PICK k \in 1..m : v = Len(variants) + k
          BY <2>7, <4>3
        <5>2. variants'[v].product = Len(products) + copies[k][1] /\ copies[k][1] \in 1..n
          BY <2>10, <5>1
        <5> QED BY <2>3, <4>1, <5>2
      <4> QED BY <4>2, <4>3
    <3>3. ASSUME NEW i \in DOMAIN prices'
          PROVE  prices'[i].variant \in DOMAIN variants' /\ prices'[i].validFrom \in Moments
      <4>1. CASE i \in DOMAIN prices
        <5>1. prices[i].variant \in DOMAIN variants /\ prices[i].validFrom \in Moments
          BY <4>1 DEF ShopInv, RefersInv
        <5> QED BY <2>3, <4>1, <5>1
      <4>2. CASE i \notin DOMAIN prices
        <5>1. PICK k \in 1..m : i = Len(prices) + k
          BY <2>8, <4>2
        <5>2. prices'[i].variant = Len(variants) + k /\ prices'[i].validFrom = now
          BY <2>1, <5>1 DEF Copy, NewPrices
        <5> QED BY <2>3, <5>2
      <4> QED BY <4>1, <4>2
    <3> QED BY <3>1, <3>2, <3>3 DEF RefersInv, OfProduct, OfVariant
  <2>12. NamesInv'
    <3>1. ASSUME NEW p \in DOMAIN products, NEW k \in 1..n PROVE products[p].name # order[k]
      <4>1. Shop!ProductNamed(order[k]) = {}
        BY <1>2, <2>9 DEF Shop!NamesAreFree
      <4> QED BY <4>1 DEF Shop!ProductNamed
    <3>2. \A j, k \in 1..n : order[j] = order[k] => j = k
      BY <2>1 DEF Copy, Lists
    <3>3. ASSUME NEW p \in DOMAIN products', NEW r \in DOMAIN products', products'[p].name = products'[r].name
          PROVE  p = r
      <4>1. CASE p \in DOMAIN products /\ r \in DOMAIN products
        BY <2>3, <3>3, <4>1 DEF ShopInv, NamesInv
      <4>2. CASE p \notin DOMAIN products /\ r \notin DOMAIN products
        <5>1. PICK j \in 1..n : p = Len(products) + j
          BY <2>6, <4>2
        <5>2. PICK k \in 1..n : r = Len(products) + k
          BY <2>6, <4>2
        <5>3. order[j] = order[k]
          BY <2>9, <3>3, <5>1, <5>2
        <5> QED BY <3>2, <5>1, <5>2, <5>3
      <4>3. CASE p \in DOMAIN products /\ r \notin DOMAIN products
        <5>1. PICK k \in 1..n : r = Len(products) + k
          BY <2>6, <4>3
        <5>2. products[p].name = order[k]
          BY <2>3, <2>9, <3>3, <4>3, <5>1
        <5> QED BY <3>1, <4>3, <5>2
      <4>4. CASE p \notin DOMAIN products /\ r \in DOMAIN products
        <5>1. PICK k \in 1..n : p = Len(products) + k
          BY <2>6, <4>4
        <5>2. products[r].name = order[k]
          BY <2>3, <2>9, <3>3, <4>4, <5>1
        <5> QED BY <3>1, <4>4, <5>2
      <4> QED BY <4>1, <4>2, <4>3, <4>4
    <3>4. ASSUME NEW v \in DOMAIN variants, NEW k \in 1..m PROVE variants[v].product # Len(products) + copies[k][1]
      <4>1. variants[v].product \in 1..Len(products)
        BY <2>3 DEF ShopInv, RefersInv, OfVariant
      <4> QED BY <2>3, <2>10, <4>1
    <3>5. ASSUME NEW j \in 1..m, NEW k \in 1..m, copies[j][2] = copies[k][2],
                 Len(products) + copies[j][1] = Len(products) + copies[k][1]
          PROVE  j = k
      <4>1. copies[j][1] = copies[k][1]
        <5>1. copies[j][1] \in Int /\ copies[k][1] \in Int
          BY <2>10
        <5>2. \A l \in Nat : \A y, z \in Int : l + y = l + z => y = z
          OBVIOUS
        <5>3. Len(products) \in Nat
          BY <2>3
        <5> QED BY <3>5, <5>1, <5>2, <5>3
      <4>2. copies[j] = copies[k]
        BY <2>10, <3>5, <4>1
      <4> QED BY <2>1, <4>2 DEF Copy, Lists
    <3>6. ASSUME NEW v \in DOMAIN variants', NEW w \in DOMAIN variants',
                 variants'[v].product = variants'[w].product, variants'[v].name = variants'[w].name
          PROVE  v = w
      <4>1. CASE v \in DOMAIN variants /\ w \in DOMAIN variants
        BY <2>3, <3>6, <4>1 DEF ShopInv, NamesInv
      <4>2. CASE v \notin DOMAIN variants /\ w \notin DOMAIN variants
        <5>1. PICK j \in 1..m : v = Len(variants) + j
          BY <2>7, <4>2
        <5>2. PICK k \in 1..m : w = Len(variants) + k
          BY <2>7, <4>2
        <5>3. copies[j][2] = copies[k][2] /\ Len(products) + copies[j][1] = Len(products) + copies[k][1]
          BY <2>10, <3>6, <5>1, <5>2
        <5> QED BY <3>5, <5>1, <5>2, <5>3
      <4>3. CASE v \in DOMAIN variants /\ w \notin DOMAIN variants
        <5>1. PICK k \in 1..m : w = Len(variants) + k
          BY <2>7, <4>3
        <5>2. variants[v].product = Len(products) + copies[k][1]
          BY <2>3, <2>10, <3>6, <4>3, <5>1
        <5> QED BY <3>4, <4>3, <5>2
      <4>4. CASE v \notin DOMAIN variants /\ w \in DOMAIN variants
        <5>1. PICK k \in 1..m : v = Len(variants) + k
          BY <2>7, <4>4
        <5>2. variants[w].product = Len(products) + copies[k][1]
          BY <2>3, <2>10, <3>6, <4>4, <5>1
        <5> QED BY <3>4, <4>4, <5>2
      <4> QED BY <4>1, <4>2, <4>3, <4>4
    <3> QED BY <3>3, <3>6 DEF NamesInv
  <2>13. PricesInv'
    <3>1. \A k \in 1..m : /\ prices'[Len(prices) + k].variant = Len(variants) + k
                          /\ prices'[Len(prices) + k].validFrom = now
                          /\ prices'[Len(prices) + k].validTo = Shop!Null
      BY <2>1 DEF Copy, NewPrices
    <3> QED BY <2>3, <3>1, PricesAdded
  <2>14. CallsInv' /\ LocksInv'
    BY <1>0, <2>3, <2>4, FreedAfter
  <2> QED BY <2>5, <2>11, <2>12, <2>13, <2>14 DEF ShopInv
<1> QED BY <1>1, <1>2

LEMMA ShopStep == ShopInv /\ [Shop!Next]_Shop!vars => ShopInv'
<1> SUFFICES ASSUME ShopInv, [Shop!Next]_Shop!vars PROVE ShopInv'
  OBVIOUS
<1>1. CASE UNCHANGED Shop!vars
  <2>1. UNCHANGED <<categories, products, variants, prices, templates, release, clock, call>>
    BY <1>1 DEF Shop!vars, Shop!rows
  <2>2. Grows
    BY <2>1 DEF Grows
  <2>3. TablesInv' /\ RefersInv' /\ NamesInv' /\ PricesInv'
    BY <2>1, PricesStay DEF ShopInv, TablesInv, RefersInv, NamesInv, OfProduct, OfVariant
  <2>4. CallsInv' /\ LocksInv'
    BY <2>1, <2>2, CallsStay
  <2> QED BY <2>3, <2>4 DEF ShopInv
<1>2. ASSUME NEW q \in Requests, Shop!Priced(q) PROVE ShopInv'
  BY <1>2, SetsPrice, ReadsClock, ClosesPrice, SetsVariantPrice DEF Shop!Priced
<1>3. ASSUME NEW q \in Requests, Shop!Changed(q) PROVE ShopInv'
  BY <1>3, UpdateSent, UpdatesProduct, UpdatesVariant DEF Shop!Changed
<1>4. ASSUME NEW q \in Requests, Shop!Applied(q) PROVE ShopInv'
  BY <1>4, ChoosesStep, AppliesTemplates DEF Shop!Applied
<1> QED BY <1>1, <1>2, <1>3, <1>4, ListStep, CategoriesStep, ProductsStep, VariantsStep, SeedsStep,
           TickStep DEF Shop!Next

LEMMA ShopTypes == ShopInv => Shop!TypeOK
<1> SUFFICES ASSUME ShopInv PROVE Shop!TypeOK
  OBVIOUS
<1>1. clock \in 1..LastMoment /\ release \in 0..Len(Releases)
  BY ShopAssumption DEF ShopInv, TablesInv, Shop!MomentsAssumption
<1>2. ASSUME NEW p \in DOMAIN products
      PROVE  /\ products[p].category \in DOMAIN categories \union {Shop!Null}
             /\ Shop!ProductNamed(products[p].name) = {p}
  BY DEF ShopInv, RefersInv, NamesInv, OfProduct, Shop!ProductNamed
<1>3. ASSUME NEW v \in DOMAIN variants
      PROVE  /\ variants[v].product \in DOMAIN products
             /\ Shop!VariantNamed(variants[v].product, variants[v].name) = {v}
  BY DEF ShopInv, RefersInv, NamesInv, OfVariant, Shop!VariantNamed
<1>4. \A i \in DOMAIN prices : prices[i].variant \in DOMAIN variants /\ prices[i].validFrom \in 1..LastMoment
  BY DEF ShopInv, RefersInv, Moments
<1> QED BY <1>1, <1>2, <1>3, <1>4 DEF Shop!TypeOK

LEMMA OnePriceHolds == ShopInv => Shop!OnePriceAlways
<1> SUFFICES ASSUME ShopInv, NEW v \in DOMAIN variants
             PROVE  \E born \in 1..LastMoment : \A t \in 1..(LastMoment + 1) :
                        Cardinality(Shop!GetPriceAt(v, t)) = IF t < born THEN 0 ELSE 1
  BY ShopCounts DEF Shop!OnePriceAlways
<1>1. PICK born \in 1..LastMoment : \A t \in 1..(LastMoment + 1) :
         IF t < born THEN Shop!GetPriceAt(v, t) = {} ELSE Single(Shop!GetPriceAt(v, t))
  BY DEF ShopInv, PricesInv, Throughout, Moments
<1>2. ASSUME NEW t \in 1..(LastMoment + 1)
      PROVE  Cardinality(Shop!GetPriceAt(v, t)) = IF t < born THEN 0 ELSE 1
  <2>1. CASE t < born
    <3>1. Shop!GetPriceAt(v, t) = {}
      BY <1>1, <2>1
    <3>2. Cardinality(Shop!GetPriceAt(v, t)) = 0
      BY <3>1, FS_EmptySet
    <3> QED BY <2>1, <3>2
  <2>2. CASE ~(t < born)
    <3>1. Single(Shop!GetPriceAt(v, t))
      BY <1>1, <2>2
    <3>2. PICK i : Shop!GetPriceAt(v, t) = {i}
      BY <3>1 DEF Single
    <3>3. Cardinality(Shop!GetPriceAt(v, t)) = 1
      BY <3>2, FS_Singleton
    <3> QED BY <2>2, <3>3
  <2> QED BY <2>1, <2>2
<1> QED BY <1>2

LEMMA NewestHolds == ShopInv => Shop!NewestIsCurrent
<1> SUFFICES ASSUME ShopInv, NEW v \in DOMAIN variants
             PROVE  Cardinality(Shop!GetCurrentPrice(v)) = 1 /\ Shop!Newest(v) = Shop!GetCurrentPrice(v)
  BY ShopCounts DEF Shop!NewestIsCurrent
<1>1. PICK c \in DOMAIN prices : History(v, c)
  BY DEF ShopInv, PricesInv
<1>2. \A i \in DOMAIN prices : prices[i].validFrom \in Int /\ prices[i].validTo \in Int /\ prices[i].validFrom > 0
  <2>1. prices \in Seq(PriceRow) /\ \A i \in DOMAIN prices : prices[i].validFrom \in Moments
    BY DEF ShopInv, TablesInv, RefersInv
  <2>2. \A i \in DOMAIN prices : prices[i] \in PriceRow
    BY <2>1
  <2> QED BY <2>1, <2>2 DEF PriceRow, Moments
<1>3. /\ prices[c].variant = v /\ prices[c].validTo = Shop!Null
      /\ \A i \in DOMAIN prices : prices[i].variant = v /\ i # c =>
            prices[i].validTo > prices[i].validFrom /\ prices[i].validTo <= prices[c].validFrom
  BY <1>1 DEF History, Closed
<1>4. Shop!GetCurrentPrice(v) = {c}
  BY <1>2, <1>3 DEF Shop!GetCurrentPrice, Shop!Null
<1>5. Shop!Newest(v) = {c}
  <2>1. \A i \in DOMAIN prices : prices[i].variant = v => prices[i].validFrom <= prices[c].validFrom
    BY <1>2, <1>3
  <2>2. \A i \in DOMAIN prices : prices[i].variant = v /\ i # c => ~(prices[c].validFrom <= prices[i].validFrom)
    BY <1>2, <1>3
  <2> QED BY <1>3, <2>1, <2>2 DEF Shop!Newest, Shop!ListPriceHistory
<1> QED BY <1>4, <1>5, FS_Singleton

LEMMA ShownHolds == ShopInv => Shop!ShownArePriced
<1> SUFFICES ASSUME ShopInv, NEW q \in Requests, Shop!At(q, "page"), NEW v \in Shop!toProductResponse(q)
             PROVE  v \in DOMAIN Shop!Open(q).prices /\ Cardinality(Shop!Open(q).prices[v]) = 1
  BY ShopCounts DEF Shop!ShownArePriced
<1>1. v \in DOMAIN Shop!Open(q).prices /\ Single(Shop!Open(q).prices[v])
  BY DEF ShopInv, CallsInv, Knows, Shop!At, Shop!Open, Shop!toProductResponse
<1>2. PICK i : Shop!Open(q).prices[v] = {i}
  BY <1>1 DEF Single
<1> QED BY <1>1, <1>2, FS_Singleton

LEMMA CopiesHold == ShopInv /\ [Shop!Next]_Shop!vars => Shop!CopiesAreWhole
<1> SUFFICES ASSUME ShopInv, [Shop!Next]_Shop!vars, NEW q \in Requests,
                    Shop!At(q, "resolved") /\ ~Shop!At(q, "resolved")' /\ products' # products,
                    NEW t \in DOMAIN Shop!Open(q).category
             PROVE  \E p \in DOMAIN products' \ DOMAIN products :
                       /\ products'[p].template = t
                       /\ LET n == Shop!Open(q).category[t] c == products'[p].category
                          IN IF Shop!Open(q).found[n] = Shop!Null THEN categories'[c].name = n
                                                                  ELSE c = Shop!Open(q).found[n]
                       /\ \A n \in DOMAIN Shop!Open(q).variants[t] :
                             \E v \in DOMAIN variants' :
                                /\ variants'[v].product = p /\ variants'[v].name = n
                                /\ \E i \in DOMAIN prices' : /\ prices'[i].variant = v
                                                             /\ prices'[i].amountKobo = Shop!Open(q).variants[t][n]
  BY DEF Shop!CopiesAreWhole
<1>1. Shop!ApplyTemplates(q)
  <2>1. call'[q] # call[q]
    BY DEF Shop!At
  <2>2. ~UNCHANGED products /\ ~UNCHANGED call
    BY <2>1
  <2>3. /\ ~UNCHANGED Shop!vars /\ ~Shop!createCategory /\ ~Shop!createProduct /\ ~Shop!createVariant
        /\ ~Shop!updateCategory /\ ~Shop!SeedTemplates /\ ~Shop!Tick
    BY <2>2 DEF Shop!vars, Shop!createCategory, Shop!CreateCategory, Shop!createProduct, Shop!CreateProduct,
                Shop!createVariant, Shop!CreateVariant,
                Shop!updateCategory, Shop!UpdateCategory, Shop!SeedTemplates, Shop!Tick
  <2>4. PICK r \in Requests : Shop!Priced(r) \/ Shop!Listed(r) \/ Shop!Changed(r) \/ Shop!Applied(r)
    BY <2>3 DEF Shop!Next
  <2>5. ~Shop!Priced(r) /\ ~Shop!Listed(r)
    BY <2>2 DEF Shop!Priced, Shop!setVariantPrice, Shop!ReadClock, Shop!CloseCurrentPrice, Shop!SetVariantPrice,
                Shop!Listed, Shop!listProducts, Shop!ListCatalogue, Shop!Leave, Shop!rows
  <2>6. ~Shop!updateProduct(r) /\ ~Shop!updateVariant(r) /\ ~Shop!UpdateVariant(r)
    BY <2>2 DEF Shop!updateProduct, Shop!updateVariant, Shop!Send, Shop!UpdateVariant, Shop!rows
  <2>7. /\ ~Shop!applyCatalogueTemplates(r) /\ ~Shop!ListCatalogueTemplateVariantsByTemplateIDs(r)
        /\ ~Shop!getOrCreateCategory(r)
    BY <2>2 DEF Shop!applyCatalogueTemplates, Shop!ListCatalogueTemplateVariantsByTemplateIDs,
                Shop!getOrCreateCategory, Shop!rows
  <2>8. Shop!UpdateProduct(r) \/ Shop!ApplyTemplates(r)
    BY <2>4, <2>5, <2>6, <2>7 DEF Shop!Changed, Shop!Applied
  <2>9. call' = [call EXCEPT ![r] = Shop!Free]
    BY <2>8 DEF Shop!UpdateProduct, Shop!ApplyTemplates, Shop!Proceed
  <2>10. r = q
    BY <2>1, <2>9 DEF ShopInv, CallsInv
  <2>11. ~Shop!UpdateProduct(q)
    BY DEF Shop!UpdateProduct, Shop!At
  <2> QED BY <2>8, <2>10, <2>11
<1>2. Shop!NamesAreFree(q)
  BY <1>1, Zenon DEF Shop!ApplyTemplates
<1>0. PICK order, copies : \E a, n, m \in Nat, now \in Moments : Copy(q, a, n, m, now, order, copies)
  BY <1>1, <1>2, Copied
<1>3. PICK a, n, m \in Nat, now \in Moments : Copy(q, a, n, m, now, order, copies)
  BY <1>0
<1>4. PICK k \in 1..n : order[k] = t
  BY <1>3 DEF Copy, Lists
<1>5. PICK p : p = Len(products) + k
  OBVIOUS
<1>6. p \in DOMAIN products' \ DOMAIN products
  <2>1. /\ DOMAIN products' = 1..(Len(products) + n) /\ Len(products) \in Nat
        /\ Len(products) + k \notin DOMAIN products
    BY <1>3 DEF Copy, Extended
  <2> QED BY <1>5, <2>1
<1>7. products'[p].template = t /\ InItsCategory(q, t, products'[p].category)
  BY <1>3, <1>4, <1>5 DEF Copy, NewProducts
<1>8. ASSUME NEW e \in DOMAIN Shop!Open(q).variants[t]
      PROVE  \E v \in DOMAIN variants' :
                /\ variants'[v].product = p /\ variants'[v].name = e
                /\ \E i \in DOMAIN prices' : /\ prices'[i].variant = v
                                             /\ prices'[i].amountKobo = Shop!Open(q).variants[t][e]
  <2>1. e \in Names
    BY DEF ShopInv, CallsInv, Knows, Suggests, Shop!At, Shop!Open
  <2>2. DOMAIN order = 1..n
    BY <1>3 DEF Copy, Lists
  <2>3. <<k, e>> \in Shop!Copies(q, order)
    BY <1>4, <2>1, <2>2 DEF Shop!Copies
  <2>4. PICK j \in 1..m : copies[j] = <<k, e>>
    BY <1>3, <2>3 DEF Copy, Lists
  <2>5. copies[j][1] = k /\ copies[j][2] = e
    BY <2>4
  <2>6. PICK v, i : v = Len(variants) + j /\ i = Len(prices) + j
    OBVIOUS
  <2>7. v \in DOMAIN variants' /\ i \in DOMAIN prices'
    <3>1. /\ DOMAIN variants' = 1..(Len(variants) + m) /\ Len(variants) \in Nat
          /\ DOMAIN prices' = 1..(Len(prices) + m) /\ Len(prices) \in Nat
      BY <1>3 DEF Copy, Extended
    <3> QED BY <2>6, <3>1
  <2>8. variants'[v].product = p /\ variants'[v].name = e
    BY <1>3, <1>5, <2>5, <2>6 DEF Copy, NewVariants
  <2>9. prices'[i].variant = v /\ prices'[i].amountKobo = Shop!Open(q).variants[t][e]
    BY <1>3, <1>4, <2>5, <2>6 DEF Copy, NewPrices
  <2> QED BY <2>7, <2>8, <2>9
<1>9. LET c == Shop!Open(q).category[t] d == products'[p].category
      IN IF Shop!Open(q).found[c] = Shop!Null THEN categories'[d].name = c ELSE d = Shop!Open(q).found[c]
  BY <1>7, Zenon DEF InItsCategory
<1> QED BY <1>6, <1>7, <1>8, <1>9

(* The prices hold: however many requests change prices at once, each on its  *)
(* own clock (SetVariantPrice), a variant has from its first price on exactly *)
(* one at every moment, the newest row is the current one, and no page that   *)
(* ListCatalogue reads in three queries shows a variant without its price.    *)
THEOREM PricesAlwaysHold == Shop!Spec => []PricesHold
<1>1. ShopInv => PricesHold
  BY ShopTypes, OnePriceHolds, NewestHolds, ShownHolds DEF PricesHold
<1> QED BY <1>1, ShopInit, ShopStep, PTL DEF Shop!Spec

(* Templates are copied whole: what ApplyTemplates writes has every variant   *)
(* and suggested price that the request read, in a category of the name it    *)
(* read, whatever is seeded or created in between.                            *)
THEOREM CopiesStayWhole == Shop!Spec => CopiesAreWhole
<1>1. Shop!Spec => []ShopInv
  BY ShopInit, ShopStep, PTL DEF Shop!Spec
<1>2. ShopInv /\ [Shop!Next]_Shop!vars => [Shop!CopiesAreWhole]_catalogueVars
  BY CopiesHold
<1> QED BY <1>1, <1>2, PTL DEF Shop!Spec, CopiesAreWhole
=============================================================================

------------------------------ MODULE MCGoods ------------------------------
(* Goods on small instances for TLC. A run takes up one part at a time, with *)
(* some of what the constants hold: `scene`, chosen at the start, says which;*)
(* the other parts stand still.                                              *)
EXTENDS Goods, Sequences, TLC

CONSTANTS q1, q2, q3,          \* requests
          i1, i2, i3, i4,      \* sale items
          a1, a2, w1,          \* adjustments, a transaction
          beer, stout, diesel, ice, k1, k2

VARIABLE scene

(* Stock: sales from two lots with their costs; a sale from one lot reversed *)
(* by two transactions at once; a count, its correction and another          *)
(* adjustment. Clients may send a negative number and a zero.                *)
UpToTwo == -1..2

Ordered(table, order) == \A k \in 2..Len(order) : table[order[k]] # None => table[order[k - 1]] # None
InOrder == /\ Ordered(item, <<i1, i2, i3, i4>>) /\ Ordered(adjustment, <<a1, a2>>)

Sold(most) == Cardinality(Posted) <= most
AtATime(some) == \A w \in Txs \ some : reversing[w] = None
ReceivedAs(qty, cost) == \A l \in OfReceipts : lot[l].received = qty[l] /\ lot[l].cost = cost
UnitCost(cost) == \A l \in Received \ OfReceipts : lot[l].cost = lot[l].received * cost
NothingCounted == \A c \in Counts, a \in Adjustments : belief[c] = None /\ adjustment[a] = None
NothingUndone == \A u \in Undos : undo[u] = None
Unresolved(those) == \A x \in those : review[x] # "resolved"
Alone == \A i \in Posted : item[i].bill = i

(* Catalogue: three changes of one price on clocks that differ; a page that  *)
(* is read while products appear; edits; and templates, of which the second  *)
(* list moves one to another category and adds a variant to it.              *)
Template(category, suggested) == [category |-> category, variants |-> suggested]
TwoReleases == << beer :> Template(beer, beer :> 1),
                  beer :> Template(stout, beer :> 2 @@ stout :> 1) @@ stout :> Template(stout, stout :> 2) >>

UnderWay(requests) == {q \in Requests : requests[q].at # "free"}
AtOnce(requests, most) == Cardinality(UnderWay(requests)) <= most
OnlyBeer == \A table \in {products, variants} : \A r \in DOMAIN table : table[r].name = beer
Rows(most) == Len(products) <= most /\ Len(variants) <= most /\ Len(prices) <= most
OfOneMoment == \A i \in DOMAIN prices : prices[i].validFrom = 2

(* Expenses: two the device has queued, posted by two requests at once; and  *)
(* one request that records and reverses over three days.                    *)
TwoExpenses == k1 :> [category |-> diesel, amountKobo |-> 2, occurredAt |-> 1] @@
               k2 :> [category |-> ice, amountKobo |-> 3, occurredAt |-> 2]

Bounded(name) ==
    /\ InOrder
    /\ CASE name = "costs" -> NothingCounted /\ Sold(3) /\ AtATime({w1}) /\ ReceivedAs(<<2, 1>>, 5) /\ UnitCost(2)
         [] name = "twice" -> NothingCounted /\ NothingUndone /\ Sold(4) /\ Received \subseteq {1} /\ ReceivedAs(<<2>>, 5)
                              /\ Unresolved(Items) /\ Alone
         [] name = "counts" -> NothingUndone /\ Sold(2) /\ AtATime({w1}) /\ Received \subseteq {1} /\ ReceivedAs(<<1>>, 1)
                               /\ Unresolved(DOMAIN review)
                               /\ \A i \in Posted : item[i].qty \in {-1, 1}
                               /\ \A c \in Counts : count[c] # None => count[c].physical <= 1
                               /\ \A a \in Adjustments : adjustment[a] # None => adjustment[a].delta \in -1..1
         [] name = "pricing" -> OnlyBeer
         [] name = "browsing" -> OnlyBeer /\ AtOnce(call, 2) /\ Rows(3) /\ clock <= 3
         [] name = "editing" -> AtOnce(call, 1) /\ Rows(2) /\ OfOneMoment
         [] name = "onboarding" -> AtOnce(call, 2) /\ Rows(3) /\ Len(categories) <= 3 /\ OfOneMoment
         [] name = "spending" -> AtOnce(request, 2) /\ day <= 2 /\ Len(expenses) <= 4
         [] name = "totals" -> AtOnce(request, 1) /\ Len(expenses) <= 5

Is(name) == scene = name
OnlyStock == UNCHANGED <<scene, catalogueVars, expenseVars>>
OnlyCatalogue == UNCHANGED <<scene, vars, expenseVars>>
OnlyExpenses == UNCHANGED <<scene, vars, catalogueVars>>
goodsVars == <<scene, vars, catalogueVars, expenseVars>>

Opened == Shop!createProduct \/ Shop!createVariant
Seeded == Shop!SeedTemplates \/ Shop!createCategory

GoodsInit ==
        /\ scene \in {"costs", "twice", "counts", "pricing", "browsing", "editing", "onboarding", "spending", "totals"}
        /\ Init /\ Shop!Init /\ Spending!Init

GoodsNext ==
        \/ (Is("costs") \/ Is("twice") \/ Is("counts")) /\ Next /\ OnlyStock /\ Bounded(scene)'
        \/ /\ \/ (Is("pricing") \/ Is("browsing") \/ Is("editing")) /\ Opened
              \/ (Is("pricing") \/ Is("browsing")) /\ (Shop!Tick \/ \E q \in Requests : Shop!Priced(q))
              \/ (Is("browsing") \/ Is("editing")) /\ \E q \in Requests : Shop!Listed(q)
              \/ Is("editing") /\ \E q \in Requests : Shop!Changed(q)
              \/ (Is("editing") \/ Is("onboarding")) /\ Shop!updateCategory
              \/ Is("onboarding") /\ (Seeded \/ \E q \in Requests : Shop!Applied(q))
           /\ OnlyCatalogue /\ Bounded(scene)'
        \/ (Is("spending") \/ Is("totals")) /\ Spending!Next /\ OnlyExpenses /\ Bounded(scene)'

GoodsSpec == GoodsInit /\ [][GoodsNext]_goodsVars
Symmetry == Permutations(Requests)

(* The properties checked are those of Stock and of Goods.                   *)

(* Claims of comments and documents that the code does not keep. No run of   *)
(* the project checks them; with its name added to Goods.cfg, TLC refutes    *)
(* each. Stock states the others, in its last definitions.                   *)

(* Expenses: an expense is reversed once. *)
ExpenseReversedOnce == Spending!ReversedOnce

(* Catalogue: a save changes no field but the one that was changed.          *)
ChangesAsMeant == [][Shop!ChangesAsMeant]_catalogueVars
=============================================================================

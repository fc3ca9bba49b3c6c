------------------------------- MODULE Stock -------------------------------
(***************************************************************************)
(* The stock ledger: receipts and their cost lots, the stock half of every *)
(* sale round, FIFO cost allocation and its reversal, physical counts,     *)
(* adjustment requests and reviews (internal/inventory, lot_allocation.go  *)
(* and the stock half of sales/service.go).                                *)
(*                                                                         *)
(* The ledger of one tracked variant at one location: two variants share   *)
(* no row of it, and a business has one location.  A service item, which   *)
(* tracks no inventory, never reaches it.                                  *)
(*                                                                         *)
(* Calls are single transactions.  A sale locks the balance row and the    *)
(* lots it draws from, so it is one action; ReverseSale and                *)
(* ReverseStockReceipt check without a lock and write later, so each is a  *)
(* read and a write.  A refused call, and a call replayed under a key that *)
(* has been posted, changes nothing and is no action.                      *)
(***************************************************************************)
EXTENDS Integers, FiniteSets, Sums

CONSTANTS
    Lots,         \* stock_lots rows; the number is the place in FIFO order
    Items,        \* sale_items rows
    Undos,        \* stock_receipts rows that reverse another
    Counts,       \* stock_counts, by idempotency key
    Adjustments,  \* inventory_adjustment_requests
    Txs,          \* concurrent reversal transactions
    Numbers,      \* quantities, deltas and unit costs a client may send
    Costs,        \* total costs a client may send
    None          \* SQL NULL, and "no such row"

VARIABLES
    lot,         \* the table stock_lots
    undo,        \* the reversal receipts: whose receipt each undoes
    item,        \* sale_items, each with its sums of lot allocations
    balance,     \* inventory_balances.quantity
    movements,   \* how many inventory_movements there are
    belief,      \* what a device about to count believes the balance is
    count,       \* stock_counts with their one line
    adjustment,  \* inventory_adjustment_requests
    review,      \* inventory_reviews, by the row that raised them
    reversing    \* what an uncommitted reversal has read

tables == <<lot, undo, item, balance, movements, belief, count, adjustment, review>>
vars == <<tables, reversing>>

LotRow == [received: Nat \ {0}, remaining: Int, cost: Nat,
           source: {"receipt", "review_resolution"}]

(* drawn and cost sum the item's allocations by lot; pending sums those    *)
(* without a lot.  bill names the first item of the round's bill.          *)
ItemRow == [bill: Items, qty: Int, reversalOf: Items \cup {None},
            pending: Int, drawn: [Lots -> Int], cost: [Lots -> Int]]

CountRow == [expected: Nat, physical: Nat, stale: BOOLEAN]

AdjustmentRow == [delta: Int, source: Counts \cup {None},
                  status: {"pending", "approved", "rejected"}]

Belief == [expected: Int, at: Nat]

ASSUME LotsAssumption == Lots \subseteq Nat
ASSUME RowsAssumption == Items \cap (Lots \cup Adjustments \cup Counts) = {}
ASSUME NumbersAssumption == Numbers \subseteq Int /\ Costs \subseteq Int
ASSUME NoneAssumption ==
    /\ None \notin Lots \cup Items \cup Counts \cup Numbers
    /\ None \notin LotRow \cup ItemRow \cup CountRow \cup AdjustmentRow \cup Belief

TypeOK ==
    /\ lot \in [Lots -> LotRow \cup {None}]
    /\ undo \in [Undos -> Lots \cup {None}]
    /\ item \in [Items -> ItemRow \cup {None}]
    /\ balance \in Int /\ movements \in Nat
    /\ belief \in [Counts -> Belief \cup {None}]
    /\ count \in [Counts -> CountRow \cup {None}]
    /\ adjustment \in [Adjustments -> AdjustmentRow \cup {None}]
    /\ review \in [Items \cup Adjustments \cup Counts -> {"none", "open", "resolved"}]
    /\ reversing \in [Txs -> Lots \cup Items \cup {None}]

Init ==
    /\ lot = [l \in Lots |-> None]
    /\ undo = [u \in Undos |-> None]
    /\ item = [i \in Items |-> None]
    /\ balance = 0 /\ movements = 0
    /\ belief = [c \in Counts |-> None]
    /\ count = [c \in Counts |-> None]
    /\ adjustment = [a \in Adjustments |-> None]
    /\ review = [x \in Items \cup Adjustments \cup Counts |-> "none"]
    /\ reversing = [w \in Txs |-> None]

-----------------------------------------------------------------------------
(* What the HTTP handlers let through.                                     *)

SaleQuantities == {n \in Numbers : n > 0}

ReceiptLines == {l \in [qty: Numbers, cost: Costs] : l.qty > 0 /\ l.cost >= 0}
CountLines == {l \in [expected: Int, physical: Numbers] : l.expected >= 0 /\ l.physical >= 0}
Deltas == Numbers \ {0}
ResolvedUnitCosts == {n \in Numbers : n > 0} \cup {None}

-----------------------------------------------------------------------------
(* The statements the transactions share.                                  *)

\* A slip: the synthetic lot is left full.
CreateStockLotFull(l, received, cost, source) ==
    /\ lot[l] = None
    /\ lot' = [lot EXCEPT ![l] = [received |-> received, cost |-> cost, source |-> source,
                                  remaining |-> received]]

CreateStockLot(l, received, cost, source) ==
    /\ lot[l] = None
    /\ lot' = [lot EXCEPT ![l] = [received |-> received, cost |-> cost, source |-> source,
                 remaining |-> IF source = "receipt" THEN received ELSE 0]]

CreateInventoryMovement == movements' = movements + 1

UpsertInventoryBalanceDelta(delta) == balance' = balance + delta

\* A movement and the balance that follows it.
PostMovement(delta) == CreateInventoryMovement /\ UpsertInventoryBalanceDelta(delta)

CreateInventoryReview(x) == review' = [review EXCEPT ![x] = "open"]

OpenReviewIfNegative(x) ==
    IF balance' < 0 THEN CreateInventoryReview(x) ELSE UNCHANGED review

\* Go's integer division truncates.
Quotient(a, b) == IF a >= 0 THEN a \div b ELSE -((-a) \div b)

ListLotsForAllocation == {l \in Lots : lot[l] # None /\ lot[l].remaining > 0}

Remaining == [l \in ListLotsForAllocation |-> lot[l].remaining]

Smaller(a, b) == IF a <= b THEN a ELSE b

\* A slip: newest first.
AheadNewest(l) == SumOver(Remaining, {k \in ListLotsForAllocation : k > l})

\* What lots older than l can still supply.
Ahead(l) == SumOver(Remaining, {k \in ListLotsForAllocation : k < l})

\* What a sale of qty draws from each lot, oldest first.
Draw(qty) ==
    [l \in Lots |->
        IF l \notin ListLotsForAllocation \/ qty <= Ahead(l) THEN 0
        ELSE Smaller(lot[l].remaining, qty - Ahead(l))]

\* The cost of a lot's first n units, rounded down.
CostThrough(l, n) == Quotient(lot[l].cost * n, lot[l].received)

\* A slip: a rounded unit cost, multiplied back out.
AllocatedCostByUnit(l, n) == n * CostThrough(l, 1)

AllocatedCost(l, n) ==
    LET consumed == lot[l].received - lot[l].remaining
    IN  CostThrough(l, consumed + n) - CostThrough(l, consumed)

NoDraw == [l \in Lots |-> 0]

Total(f) == SumOver(f, {l \in Lots : f[l] # 0})

MoveLots(delta) ==
    lot' = [l \in Lots |-> IF lot[l] = None THEN None
                           ELSE [lot[l] EXCEPT !.remaining = @ + delta[l]]]

DecrementLotRemainingQuantity(drawn) == MoveLots([l \in Lots |-> -drawn[l]])

\* Unlike the decrement, not stopped by the lot's bounds.
IncrementLotRemainingQuantity(drawn) == MoveLots(drawn)

\* An item's allocations, summed by lot.
CreateSaleItemLotAllocation(pending, drawn, cost) ==
    [pending |-> pending, drawn |-> drawn, cost |-> cost]

\* What the lots cannot cover is pending.
AllocateSaleItemLots(qty, drawn) ==
    CreateSaleItemLotAllocation(qty - Total(drawn), drawn,
        [l \in Lots |-> IF drawn[l] = 0 THEN 0 ELSE AllocatedCost(l, drawn[l])])

NoAllocations == CreateSaleItemLotAllocation(0, NoDraw, NoDraw)

ListAllocationsBySaleItem(i) == [pending |-> item[i].pending, drawn |-> item[i].drawn,
                                 cost |-> item[i].cost]

\* Every allocation mirrored as it stands now.
ReverseSaleItemLots(i) ==
    LET a == ListAllocationsBySaleItem(i)
    IN  CreateSaleItemLotAllocation(-a.pending, [l \in Lots |-> -a.drawn[l]],
                                    [l \in Lots |-> -a.cost[l]])

SumNetPendingQuantityForSaleItem(i) == item[i].pending

CreateSaleItem(i, bill, qty, reversalOf, allocations) ==
    /\ item[i] = None
    /\ item' = [item EXCEPT ![i] =
                  [bill |-> bill, qty |-> qty, reversalOf |-> reversalOf,
                   pending |-> allocations.pending, drawn |-> allocations.drawn,
                   cost |-> allocations.cost]]

-----------------------------------------------------------------------------
(* Receiving and selling.                                                  *)

ReceiveStock(l, line) ==
    /\ CreateStockLot(l, line.qty, line.cost, "receipt")
    /\ PostMovement(line.qty)
    /\ UNCHANGED <<undo, item, belief, count, adjustment, review, reversing>>

\* The round an item was posted in took its bill's lock; joining needs a bill
\* that a round, and not a reversal, opened.
Joins(b, i) ==
    b = i \/ (item[b] # None /\ item[b].bill = b /\ item[b].reversalOf = None)

\* A round's item: it always posts.
SellItem(i, b, qty) ==
    /\ Joins(b, i)
    /\ LET drawn == Draw(qty) IN
       /\ CreateSaleItem(i, b, qty, None, AllocateSaleItemLots(qty, drawn))
       /\ DecrementLotRemainingQuantity(drawn)
    /\ PostMovement(-qty)
    /\ OpenReviewIfNegative(i)
    /\ UNCHANGED <<undo, belief, count, adjustment, reversing>>

Posted == {i \in Items : item[i] # None}

Quantity == [i \in Posted |-> item[i].qty]

SumBillItemQuantityByVariant(b) == SumOver(Quantity, {i \in Posted : item[i].bill = b})

\* RemoveBillItem's round: the stock comes back, the lots do not.
RemoveItem(i, b, qty) ==
    /\ b # i /\ Joins(b, i)
    /\ qty <= SumBillItemQuantityByVariant(b)
    /\ CreateSaleItem(i, b, -qty, None, NoAllocations)
    /\ PostMovement(qty)
    /\ OpenReviewIfNegative(i)
    /\ UNCHANGED <<lot, undo, belief, count, adjustment, reversing>>

GetReversalOfSale(i) == \E j \in Items : item[j] # None /\ item[j].reversalOf = i

BillIsShared(i) ==
    \E j \in Items \ {i} : item[j] # None /\ item[j].bill = item[i].bill

ReverseSaleRead(w, i) ==
    /\ reversing[w] = None
    /\ item[i] # None
    /\ ~GetReversalOfSale(i)
    /\ ~BillIsShared(i)
    /\ reversing' = [reversing EXCEPT ![w] = i]
    /\ UNCHANGED tables

\* On a bill of its own.  No review is opened, whatever the balance.
ReverseSaleWrite(w, i) ==
    /\ reversing[w] \in Items
    /\ LET original == item[reversing[w]] IN
       /\ CreateSaleItem(i, i, -original.qty, reversing[w], ReverseSaleItemLots(reversing[w]))
       /\ IncrementLotRemainingQuantity(original.drawn)
       /\ PostMovement(original.qty)
    /\ reversing' = [reversing EXCEPT ![w] = None]
    /\ UNCHANGED <<undo, belief, count, adjustment, review>>

-----------------------------------------------------------------------------
(* Undoing a receipt.                                                      *)

GetReversalOfStockReceipt(l) == \E u \in Undos : undo[u] = l

CreateReversalStockReceipt(u, l) ==
    /\ undo[u] = None
    /\ undo' = [undo EXCEPT ![u] = l]

\* The lot of a receipt's line; a reversal's line has none.
ListStockLotsByReceiptLineIDs == {l \in Lots : lot[l] # None /\ lot[l].source = "receipt"}

GetInventoryBalance == balance

\* Untouched by sales (the lot) and by anything else (the balance).
ReverseStockReceiptRead(w, l) ==
    /\ reversing[w] = None
    /\ l \in ListStockLotsByReceiptLineIDs
    /\ ~GetReversalOfStockReceipt(l)
    /\ lot[l].remaining = lot[l].received
    /\ GetInventoryBalance - lot[l].received >= 0
    /\ reversing' = [reversing EXCEPT ![w] = l]
    /\ UNCHANGED tables

ReverseStockReceiptWrite(w, u) ==
    /\ reversing[w] \in Lots
    /\ LET l == reversing[w] IN
       /\ CreateReversalStockReceipt(u, l)
       /\ lot' = [lot EXCEPT ![l].remaining = @ - lot[l].received]
       /\ PostMovement(-lot[l].received)
    /\ reversing' = [reversing EXCEPT ![w] = None]
    /\ UNCHANGED <<item, belief, count, adjustment, review>>

Rollback(w) ==
    /\ reversing[w] # None
    /\ reversing' = [reversing EXCEPT ![w] = None]
    /\ UNCHANGED tables

-----------------------------------------------------------------------------
(* Counts, adjustments and reviews.                                        *)

\* A device fetches the balance it will submit as its expectation.
FormBelief(c) ==
    /\ belief[c] = None
    /\ belief' = [belief EXCEPT ![c] = [expected |-> GetInventoryBalance, at |-> movements]]
    /\ UNCHANGED <<lot, undo, item, balance, movements, count, adjustment, review, reversing>>

\* A slip: what the count found missing is added.
CreateInventoryAdjustmentRequestNegated(a, delta, source) ==
    /\ adjustment[a] = None
    /\ adjustment' = [adjustment EXCEPT ![a] =
                        [delta |-> -delta, source |-> source, status |-> "pending"]]

CreateInventoryAdjustmentRequest(a, delta, source) ==
    /\ adjustment[a] = None
    /\ adjustment' = [adjustment EXCEPT ![a] =
                        [delta |-> delta, source |-> source, status |-> "pending"]]

CreateStockCountLine(c, expected, physical, stale) ==
    count' = [count EXCEPT ![c] = [expected |-> expected, physical |-> physical, stale |-> stale]]

GetStockCountByIdempotencyKey(c) == count[c] # None

SubmitStockCount(c, physical, a) ==
    /\ belief[c] # None
    /\ ~GetStockCountByIdempotencyKey(c)
    /\ LET expected == belief[c].expected
           stale == GetInventoryBalance # expected
       IN  /\ [expected |-> expected, physical |-> physical] \in CountLines
           /\ CreateStockCountLine(c, expected, physical, stale)
           /\ IF stale THEN CreateInventoryReview(c) ELSE UNCHANGED review
           /\ IF stale \/ physical = expected
              THEN UNCHANGED adjustment
              ELSE CreateInventoryAdjustmentRequest(a, physical - expected, c)
    /\ UNCHANGED <<lot, undo, item, balance, movements, belief, reversing>>

RequestAdjustment(a, delta) ==
    /\ CreateInventoryAdjustmentRequest(a, delta, None)
    /\ UNCHANGED <<lot, undo, item, balance, movements, belief, count, review, reversing>>

\* A slip: the status is set without asking what it was.
PendingOrDecided(a) == adjustment[a] # None

Pending(a) == adjustment[a] # None /\ adjustment[a].status = "pending"

ApproveInventoryAdjustmentRequest(a) ==
    /\ Pending(a)
    /\ adjustment' = [adjustment EXCEPT ![a].status = "approved"]

RejectInventoryAdjustmentRequest(a) ==
    /\ Pending(a)
    /\ adjustment' = [adjustment EXCEPT ![a].status = "rejected"]

ApproveAdjustmentRequest(a) ==
    /\ ApproveInventoryAdjustmentRequest(a)
    /\ PostMovement(adjustment[a].delta)
    /\ OpenReviewIfNegative(a)
    /\ UNCHANGED <<lot, undo, item, belief, count, reversing>>

RejectAdjustmentRequest(a) ==
    /\ RejectInventoryAdjustmentRequest(a)
    /\ UNCHANGED <<lot, undo, item, balance, movements, belief, count, review, reversing>>

\* A synthetic lot, drawn at once, takes the place of the pending quantity.
ResolvePendingAllocation(i, unitCost, l) ==
    IF SumNetPendingQuantityForSaleItem(i) <= 0
    THEN UNCHANGED <<lot, item>>
    ELSE LET quantity == SumNetPendingQuantityForSaleItem(i)
             kobo == quantity * unitCost
         IN  /\ CreateStockLot(l, quantity, kobo, "review_resolution")
             /\ item' = [item EXCEPT ![i].pending = 0,
                                     ![i].drawn[l] = quantity,
                                     ![i].cost[l] = kobo]

ResolveInventoryReview(x) ==
    /\ review[x] = "open"
    /\ review' = [review EXCEPT ![x] = "resolved"]

ResolveReview(x, unitCost, l) ==
    /\ ResolveInventoryReview(x)
    /\ IF unitCost # None /\ x \in Items
       THEN ResolvePendingAllocation(x, unitCost, l)
       ELSE UNCHANGED <<lot, item>>
    /\ UNCHANGED <<undo, balance, movements, belief, count, adjustment, reversing>>

-----------------------------------------------------------------------------
Next ==
    \/ \E l \in Lots, line \in ReceiptLines : ReceiveStock(l, line)
    \/ \E i, b \in Items, qty \in SaleQuantities : SellItem(i, b, qty)
    \/ \E i, b \in Items, qty \in SaleQuantities : RemoveItem(i, b, qty)
    \/ \E w \in Txs, i \in Items : ReverseSaleRead(w, i)
    \/ \E w \in Txs, i \in Items : ReverseSaleWrite(w, i)
    \/ \E w \in Txs, l \in Lots : ReverseStockReceiptRead(w, l)
    \/ \E w \in Txs, u \in Undos : ReverseStockReceiptWrite(w, u)
    \/ \E w \in Txs : Rollback(w)
    \/ \E c \in Counts : FormBelief(c)
    \/ \E c \in Counts, physical \in Numbers, a \in Adjustments :
          SubmitStockCount(c, physical, a)
    \/ \E a \in Adjustments, delta \in Deltas : RequestAdjustment(a, delta)
    \/ \E a \in Adjustments : ApproveAdjustmentRequest(a)
    \/ \E a \in Adjustments : RejectAdjustmentRequest(a)
    \/ \E x \in Items \cup Adjustments \cup Counts, unitCost \in ResolvedUnitCosts, l \in Lots :
          ResolveReview(x, unitCost, l)

Spec == Init /\ [][Next]_vars

-----------------------------------------------------------------------------
(* What the handlers keep true.                                            *)

Received == {l \in Lots : lot[l] # None}
OfReceipts == {l \in Received : lot[l].source = "receipt"}

Approved == {a \in Adjustments : adjustment[a] # None /\ adjustment[a].status = "approved"}

DrawnFrom(l) == SumOver([i \in Posted |-> item[i].drawn[l]], Posted)
CostFrom(l) == SumOver([i \in Posted |-> item[i].cost[l]], Posted)
Undone(l) == Cardinality({u \in Undos : undo[u] = l})

\* The balance, a stored projection, is what the documents add up to: stock
\* received and not undone, less what was sold and not given back, plus the
\* adjustments approved, in whatever order calls and races posted them.
BalanceIsLedger ==
    balance = SumOver([l \in OfReceipts |-> lot[l].received * (1 - Undone(l))], OfReceipts)
              - SumOver(Quantity, Posted)
              + SumOver([a \in Approved |-> adjustment[a].delta], Approved)

\* Every unit a lot lacks was drawn by a sale item or went with its receipt:
\* no sequence of sales, reversals and resolutions loses or invents stock
\* between stock_lots and sale_item_lot_allocations.
LotsAccountedFor ==
    \A l \in Received :
        lot[l].received - lot[l].remaining = DrawnFrom(l) + lot[l].received * Undone(l)

\* An item's allocations always cover exactly its quantity, through reversals
\* of reversals and late resolutions; a removal has none (PHASE_FIFO_COSTING).
ItemsFullyAllocated ==
    \A i \in Posted :
        Total(item[i].drawn) + item[i].pending
            = IF item[i].qty < 0 /\ item[i].reversalOf = None THEN 0 ELSE item[i].qty

\* No unit is lost or invented between lots and sale items, and an item's
\* allocations cover its quantity through every resolution and reversal.
AllocationsAddUp == TypeOK /\ LotsAccountedFor /\ ItemsFullyAllocated

\* No two items reverse the same one: ReverseSale's check was never overtaken.
ReversedOnce ==
    \A i, j \in Posted : item[i].reversalOf # None /\ item[i].reversalOf = item[j].reversalOf => i = j

WithinKobo(i, l, kobo) ==
    LET error == item[i].cost[l] * lot[l].received - item[i].drawn[l] * lot[l].cost
    IN  error < kobo * lot[l].received /\ -error < kobo * lot[l].received

\* What an item is charged from a lot is within a kobo of its exact share of
\* the lot's cost, whatever has been drawn and given back before. Only a sale
\* reversed twice, which leaves more in a lot than it received, makes it two.
CostNearShare ==
    \A i \in Posted, l \in Received :
        WithinKobo(i, l, 2) /\ (ReversedOnce => WithinKobo(i, l, 1))

\* As long as nothing is given back to a lot, the kobo charged so far are the
\* floor of the units' share: the last unit leaves no remainder behind.
CostTelescopes ==
    \A l \in Received :
        (\A i \in Posted : item[i].drawn[l] >= 0)
        => CostFrom(l) = CostThrough(l, DrawnFrom(l))

\* What items are charged is near their share, and without returns it is what
\* the lot cost.
CostsAddUp == CostNearShare /\ CostTelescopes

\* A sale takes from a lot only what every older lot could not supply, and
\* leaves a quantity pending only when every lot is empty.
DrawnOldestFirst ==
    [][\A i \in Items :
         item[i] = None /\ item'[i] # None /\ item'[i].reversalOf = None
         => /\ \A k, l \in Lots :
                 k < l /\ item'[i].drawn[l] > 0 /\ lot[k] # None => lot'[k].remaining <= 0
            /\ item'[i].pending > 0
               => \A l \in Lots : lot[l] # None => lot'[l].remaining <= 0]_vars

\* A count's correction, approved with nothing posted since the device formed
\* its belief, leaves the balance at what was counted (SubmitStockCount,
\* ApproveAdjustmentRequest).
CorrectionReachesCount ==
    [][\A a \in Adjustments :
         /\ adjustment[a] # None
         /\ adjustment[a].source # None
         /\ adjustment[a].status # adjustment'[a].status
         /\ adjustment'[a].status = "approved"
         /\ movements = belief[adjustment[a].source].at
         => balance' = count[adjustment[a].source].physical]_vars

-----------------------------------------------------------------------------
(* What comments and documents say that the code does not keep.            *)

\* lot_allocation.go:45: "the sum of every allocation ever drawn from this lot
\* exactly equals its total_cost_kobo".
LotCostExact ==
    \A l \in Received : DrawnFrom(l) = lot[l].received => CostFrom(l) = lot[l].cost

\* ReverseStockReceipt's comment: an undo must not "drive a lot negative".
LotsNeverNegative == \A l \in Received : lot[l].remaining >= 0

\* PHASE_FIFO_COSTING §2: remaining_quantity is "rebuildable in principle from
\* sale_item_lot_allocations".
RemainingIsRebuildable ==
    \A l \in Received : lot[l].remaining = lot[l].received - DrawnFrom(l)

\* PHASE_FIFO_COSTING §3: a pending allocation arises under "the same condition
\* that already opens a negative_inventory review".
PendingIsReviewed == \A i \in Posted : item[i].pending > 0 => review[i] # "none"

\* ReverseSale's comment: it "exactly negates" the sale.
ReversedSaleCostsNothing ==
    \A i, j \in Posted :
        item[j].reversalOf = i
        => \A l \in Lots : item[i].cost[l] + item[j].cost[l] = 0

\* RemoveBillItem's comment: "you can never remove more than is currently
\* net-present on the bill".
StockReturnedOnce ==
    \A i \in Posted :
        item[i].reversalOf = None
        => SumBillItemQuantityByVariant(item[i].bill)
           + SumOver(Quantity,
               {j \in Posted : item[j].reversalOf # None
                               /\ item[item[j].reversalOf].bill = item[i].bill}) >= 0

\* SubmitStockCount's comment: if expectation and balance match, "nothing else
\* touched this variant since the device formed its belief".
FreshCountMeansUntouched ==
    [][\A c \in Counts :
         count[c] = None /\ count'[c] # None /\ ~count'[c].stale
         => movements = belief[c].at]_vars
=============================================================================

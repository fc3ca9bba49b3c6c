------------------------------- MODULE Tabs -------------------------------
(***************************************************************************)
(* Bills, sale rounds, payments and write-offs: the money side of          *)
(* internal/sales (service.go, tabs.go).                                   *)
(*                                                                         *)
(* One service call is one PostgreSQL transaction (internal/store/tx.go).  *)
(* Every call that changes an existing bill first takes the bill's row     *)
(* lock (GetBillForUpdate), so calls on one bill are serial and each is    *)
(* one action here.  ReverseSale takes no lock: it reads the original sale *)
(* and writes a reversal onto a bill of its own, and under READ COMMITTED  *)
(* other transactions commit between the two.  It is two actions.          *)
(*                                                                         *)
(* Collapsing its reads into one loses nothing: rows are never deleted, so *)
(* what its last check finds absent was absent at its first.               *)
(*                                                                         *)
(* A refused request changes nothing and is no action.  The stock half of  *)
(* a round (movements, lots, reviews) is the module Stock.           *)
(***************************************************************************)
EXTENDS Integers

CONSTANTS
    Bills, Rounds, Payments,  \* row identifiers (Rounds: idempotency keys)
    Variants,                 \* the catalogue's product variants
    Carts,                    \* what a client may submit as one round
    Quantities, Prices,       \* what a client may submit as a removal
    Amounts,                  \* what a client may submit as a payment
    Requests,                 \* concurrent ReverseSale transactions
    None                      \* SQL NULL, and "no such row"

(* A cart is a round's quantities and the kobo its lines add up to.  The   *)
(* HTTP layer admits positive quantities and amounts, and prices from zero.*)
ASSUME CartsAssumption == Carts \subseteq [qty: [Variants -> Nat], total: Nat]
ASSUME QuantitiesAssumption == Quantities \subseteq Nat \ {0}
ASSUME PricesAssumption == Prices \subseteq Nat
ASSUME AmountsAssumption == Amounts \subseteq Nat \ {0}
ASSUME NoneAssumption == None \notin Rounds \cup Payments

VARIABLES
    bill,        \* the table bills
    sale,        \* the table sales, with each sale's lines by variant
    payment,     \* the table payments
    salesTotal,  \* per bill, what SumSalesTotalByBillID returns
    paid,        \* per bill, what SumPaymentsByBillID returns
    writtenOff,  \* per bill, what SumWriteOffsByBillID returns
    onBill,      \* per bill and variant, what SumBillItemQuantityByVariant returns
    reversing    \* per request, what an uncommitted ReverseSale has read

rows == <<bill, sale, payment, salesTotal, paid, writtenOff, onBill>>
vars == <<rows, reversing>>

(* "kind" is a history field, the handler that inserted the row; the       *)
(* table has no such column and no guard reads it.                         *)
BillRow == [status: {"open", "closed_unpaid", "settled", "void"},
            balance: Int,
            customer: BOOLEAN,
            kind: {"tab", "walkin", "reversal"}]

SaleRow == [bill: Bills, qty: [Variants -> Int], total: Int,
            reversalOf: Rounds \cup {None}]

PaymentRow == [bill: Bills, amount: Int, reversalOf: Payments \cup {None}]

Read == [sale: Rounds, payment: Payments \cup {None}]

ASSUME NoneIsNoRow == None \notin BillRow \cup SaleRow \cup PaymentRow \cup Read

TypeOK ==
    /\ bill \in [Bills -> BillRow \cup {None}]
    /\ sale \in [Rounds -> SaleRow \cup {None}]
    /\ payment \in [Payments -> PaymentRow \cup {None}]
    /\ salesTotal \in [Bills -> Int]
    /\ paid \in [Bills -> Int]
    /\ writtenOff \in [Bills -> Nat]
    /\ onBill \in [Bills -> [Variants -> Int]]
    /\ reversing \in [Requests -> Read \cup {None}]

Init ==
    /\ bill = [b \in Bills |-> None]
    /\ sale = [r \in Rounds |-> None]
    /\ payment = [p \in Payments |-> None]
    /\ salesTotal = [b \in Bills |-> 0]
    /\ paid = [b \in Bills |-> 0]
    /\ writtenOff = [b \in Bills |-> 0]
    /\ onBill = [b \in Bills |-> [v \in Variants |-> 0]]
    /\ reversing = [w \in Requests |-> None]

-----------------------------------------------------------------------------
(* Slips in the shared parts that a property must catch.  The              *)
(* specification uses none of them.                                        *)

\* Only a void bill is refused.
EditableUnlessVoid(b) == bill[b] # None /\ bill[b].status # "void"

DerivedStatusNeverReopens(status, balance) ==
    IF status = "closed_unpaid" /\ balance = 0 THEN "settled" ELSE status

DerivedStatusNeverSettles(status, balance) ==
    IF status = "settled" /\ balance # 0 THEN "closed_unpaid" ELSE status

\* Asks whether the payment is a reversal, not whether it has one.
PaymentReversedByItself(p) == payment[p].reversalOf # None

-----------------------------------------------------------------------------
(* The parts the handlers share.                                           *)

\* The bill takes rounds, removals and payments.
Editable(b) == bill[b] # None /\ bill[b].status \in {"open", "closed_unpaid"}

InsertBill(b, status, customer, kind) ==
    /\ bill[b] = None
    /\ bill' = [bill EXCEPT ![b] = [status |-> status, balance |-> 0,
                                    customer |-> customer, kind |-> kind]]

\* A sales row; the CHECK constraint refuses a total of zero, and the unique
\* idempotency key makes a row that is there already a replay or an error.
InsertSale(r, b, qty, total, original) ==
    /\ sale[r] = None
    /\ total # 0
    /\ sale' = [sale EXCEPT ![r] = [bill |-> b, qty |-> qty, total |-> total,
                                    reversalOf |-> original]]
    /\ salesTotal' = [salesTotal EXCEPT ![b] = @ + total]
    /\ onBill' = [onBill EXCEPT ![b] = [v \in Variants |-> @[v] + qty[v]]]

InsertPayment(p, b, amount, original) ==
    /\ payment[p] = None
    /\ payment' = [payment EXCEPT ![p] = [bill |-> b, amount |-> amount,
                                          reversalOf |-> original]]
    /\ paid' = [paid EXCEPT ![b] = @ + amount]

\* What the rows say the bill still owes.
Owed(b) == salesTotal[b] - paid[b] - writtenOff[b]

\* An open bill stays open at any balance; void is terminal.
DerivedStatus(status, balance) ==
    CASE status = "closed_unpaid" /\ balance = 0 -> "settled"
      [] status = "settled" /\ balance # 0 -> "closed_unpaid"
      [] OTHER -> status

UpdateBillBalanceAndStatus(b, balance, status) ==
    bill' = [bill EXCEPT ![b].balance = balance, ![b].status = status]

\* A slip: the sums are taken before the handler's own insert.
RecomputeBeforeInsert(b) ==
    UpdateBillBalanceAndStatus(b, Owed(b), DerivedStatus(bill[b].status, Owed(b)))

\* Sums the bill's rows as this transaction leaves them, and stores the result.
RecomputeBillBalance(b) ==
    UpdateBillBalanceAndStatus(b, Owed(b)', DerivedStatus(bill[b].status, Owed(b)'))

-----------------------------------------------------------------------------
(* Slips in the handlers that a property must catch.                       *)

RemoveBillItemUncounted(b, r, v, quantity, price) ==
    /\ Editable(b)
    /\ quantity * price <= bill[b].balance
    /\ InsertSale(r, b, [u \in Variants |-> IF u = v THEN -quantity ELSE 0],
                  -(quantity * price), None)
    /\ UNCHANGED <<paid, writtenOff>>
    /\ RecomputeBillBalance(b)
    /\ UNCHANGED <<payment, reversing>>

CloseBillAgain(b) ==
    /\ Editable(b)
    /\ LET balance == salesTotal[b] - paid[b] IN
       /\ balance # 0 => bill[b].customer
       /\ UpdateBillBalanceAndStatus(
            b, balance, IF balance = 0 THEN "settled" ELSE "closed_unpaid")
    /\ UNCHANGED <<sale, payment, salesTotal, paid, writtenOff, onBill, reversing>>

RecordPaymentUncapped(b, p, amount) ==
    /\ Editable(b)
    /\ InsertPayment(p, b, amount, None)
    /\ UNCHANGED <<salesTotal, writtenOff>>
    /\ RecomputeBillBalance(b)
    /\ UNCHANGED <<sale, onBill, reversing>>

\* The write-off is stored negative, as a refund is.
WriteOffBillNegated(b, amount) ==
    /\ bill[b] # None
    /\ bill[b].status = "closed_unpaid"
    /\ amount <= bill[b].balance
    /\ writtenOff' = [writtenOff EXCEPT ![b] = @ - amount]
    /\ UNCHANGED <<salesTotal, paid>>
    /\ RecomputeBillBalance(b)
    /\ UNCHANGED <<sale, payment, onBill, reversing>>

\* A paid bill has a zero balance too.
VoidBillByBalance(b) ==
    /\ Editable(b)
    /\ bill[b].balance = 0
    /\ UpdateBillBalanceAndStatus(b, 0, "void")
    /\ UNCHANGED <<sale, payment, salesTotal, paid, writtenOff, onBill, reversing>>

-----------------------------------------------------------------------------
(* The handlers.                                                           *)

OpenBill(b, customer) ==
    /\ InsertBill(b, "open", customer, "tab")
    /\ UNCHANGED <<sale, payment, salesTotal, paid, writtenOff, onBill, reversing>>

\* The walk-in path: bill, round and payment in one call.  Nothing compares
\* the amount paid with the total, and no balance is computed.
CreateSale(b, r, p, cart, amount) ==
    /\ InsertBill(b, "settled", FALSE, "walkin")
    /\ InsertSale(r, b, cart.qty, cart.total, None)
    /\ InsertPayment(p, b, amount, None)
    /\ UNCHANGED <<writtenOff, reversing>>

AddSaleRound(b, r, cart) ==
    /\ Editable(b)
    /\ InsertSale(r, b, cart.qty, cart.total, None)
    /\ UNCHANGED <<paid, writtenOff>>
    /\ RecomputeBillBalance(b)
    /\ UNCHANGED <<payment, reversing>>

\* CreateSale, AddSaleRound and RemoveBillItem called again with a key that
\* has been posted: the first call's sale is returned and nothing is written.
ReplaySale(r) ==
    /\ sale[r] # None
    /\ UNCHANGED vars

\* A negative round at the price of the day, capped by what is on the bill
\* and by what is still owed.
RemoveBillItem(b, r, v, quantity, price) ==
    /\ Editable(b)
    /\ quantity <= onBill[b][v]
    /\ quantity * price <= bill[b].balance
    /\ InsertSale(r, b, [u \in Variants |-> IF u = v THEN -quantity ELSE 0],
                  -(quantity * price), None)
    /\ UNCHANGED <<paid, writtenOff>>
    /\ RecomputeBillBalance(b)
    /\ UNCHANGED <<payment, reversing>>

\* The balance stored here leaves write-offs out of the sum.
CloseBill(b) ==
    /\ bill[b] # None
    /\ bill[b].status = "open"
    /\ LET balance == salesTotal[b] - paid[b] IN
       /\ balance # 0 => bill[b].customer
       /\ UpdateBillBalanceAndStatus(
            b, balance, IF balance = 0 THEN "settled" ELSE "closed_unpaid")
    /\ UNCHANGED <<sale, payment, salesTotal, paid, writtenOff, onBill, reversing>>

RecordPayment(b, p, amount) ==
    /\ Editable(b)
    /\ amount <= bill[b].balance
    /\ InsertPayment(p, b, amount, None)
    /\ UNCHANGED <<salesTotal, writtenOff>>
    /\ RecomputeBillBalance(b)
    /\ UNCHANGED <<sale, onBill, reversing>>

PaymentReversed(p) ==
    \E q \in Payments : payment[q] # None /\ payment[q].reversalOf = p

ReversePayment(p, q) ==
    /\ payment[p] # None
    /\ payment[p].reversalOf = None
    /\ bill[payment[p].bill].status # "void"
    /\ ~PaymentReversed(p)
    /\ InsertPayment(q, payment[p].bill, -payment[p].amount, p)
    /\ UNCHANGED <<salesTotal, writtenOff>>
    /\ RecomputeBillBalance(payment[p].bill)
    /\ UNCHANGED <<sale, onBill, reversing>>

WriteOffBill(b, amount) ==
    /\ bill[b] # None
    /\ bill[b].status = "closed_unpaid"
    /\ amount <= bill[b].balance
    /\ writtenOff' = [writtenOff EXCEPT ![b] = @ + amount]
    /\ UNCHANGED <<salesTotal, paid>>
    /\ RecomputeBillBalance(b)
    /\ UNCHANGED <<sale, payment, onBill, reversing>>

VoidBill(b) ==
    /\ Editable(b)
    /\ salesTotal[b] = 0
    /\ bill[b].balance = 0
    /\ UpdateBillBalanceAndStatus(b, 0, "void")
    /\ UNCHANGED <<sale, payment, salesTotal, paid, writtenOff, onBill, reversing>>

SaleReversed(r) == \E s \in Rounds : sale[s] # None /\ sale[s].reversalOf = r

SharesBill(r) ==
    \E s \in Rounds \ {r} : sale[s] # None /\ sale[s].bill = sale[r].bill

\* The payments a sale's aggregate may carry: any one row of its bill (the
\* query takes the first and orders by nothing), or none if there is none.
AggregatePayment(r) ==
    LET mine == {p \in Payments : payment[p] # None /\ payment[p].bill = sale[r].bill}
    IN  IF mine = {} THEN {None} ELSE mine

\* ReverseSale up to its last check.
ReverseSaleRead(w, r) ==
    /\ reversing[w] = None
    /\ sale[r] # None
    /\ ~SaleReversed(r)
    /\ ~SharesBill(r)
    /\ \E p \in AggregatePayment(r) :
          reversing' = [reversing EXCEPT ![w] = [sale |-> r, payment |-> p]]
    /\ UNCHANGED rows

\* ReverseSale from its first insert to the commit.  The key of the new sale
\* is random and never replays.
ReverseSaleWrite(w, b, r, q) ==
    /\ reversing[w] # None
    /\ LET original == sale[reversing[w].sale]
           refunded == reversing[w].payment
       IN  /\ InsertBill(b, "settled", FALSE, "reversal")
           /\ InsertSale(r, b, [v \in Variants |-> -original.qty[v]],
                         -original.total, reversing[w].sale)
           /\ IF refunded = None
              THEN UNCHANGED <<payment, paid>>
              ELSE InsertPayment(q, b, -payment[refunded].amount, refunded)
    /\ reversing' = [reversing EXCEPT ![w] = None]
    /\ UNCHANGED writtenOff

\* The request is cancelled, or a statement or the commit fails.
ReverseSaleRollback(w) ==
    /\ reversing[w] # None
    /\ reversing' = [reversing EXCEPT ![w] = None]
    /\ UNCHANGED rows

Next ==
    \/ \E b \in Bills, customer \in BOOLEAN : OpenBill(b, customer)
    \/ \E b \in Bills, r \in Rounds, p \in Payments, cart \in Carts, amount \in Amounts :
          CreateSale(b, r, p, cart, amount)
    \/ \E b \in Bills, r \in Rounds, cart \in Carts : AddSaleRound(b, r, cart)
    \/ \E r \in Rounds : ReplaySale(r)
    \/ \E b \in Bills, r \in Rounds, v \in Variants, quantity \in Quantities, price \in Prices :
          RemoveBillItem(b, r, v, quantity, price)
    \/ \E b \in Bills : CloseBill(b)
    \/ \E b \in Bills, p \in Payments, amount \in Amounts : RecordPayment(b, p, amount)
    \/ \E p, q \in Payments : ReversePayment(p, q)
    \/ \E b \in Bills, amount \in Amounts : WriteOffBill(b, amount)
    \/ \E b \in Bills : VoidBill(b)
    \/ \E w \in Requests, r \in Rounds : ReverseSaleRead(w, r)
    \/ \E w \in Requests, b \in Bills, r \in Rounds, q \in Payments :
          ReverseSaleWrite(w, b, r, q)
    \/ \E w \in Requests : ReverseSaleRollback(w)

Spec == Init /\ [][Next]_vars
-----------------------------------------------------------------------------
(* What the handlers keep true.                                            *)

\* The stored balance of a tab is what its rows add up to, whatever sequence
\* of rounds, removals, payments, refunds, write-offs and closings produced
\* it, although CloseBill leaves the write-offs out.  The same holds of a
\* walk-in bill from its first recomputation on (recomputeBillBalance).
ProjectionExact ==
    \A b \in Bills :
        /\ bill[b] # None
        /\ bill[b].kind = "tab" \/ bill[b].status # "settled"
        => bill[b].balance = Owed(b)

\* No bill ever owes its customer: removals, payments and write-offs are
\* checked against the stored balance, which no other call moves meanwhile.
NeverInCredit == \A b \in Bills : bill[b] # None => bill[b].balance >= 0

\* A closed, unpaid bill has something left to pay; a settled or void bill has
\* nothing (the status machine of recomputeBillBalance, CloseBill and VoidBill).
StatusMatchesBalance ==
    \A b \in Bills :
        /\ bill[b] # None
        /\ bill[b].status # "open"
        => (bill[b].balance # 0 <=> bill[b].status = "closed_unpaid")

\* A void bill hides no money: its rounds, its payments and its write-offs
\* each add up to nothing (VoidBill looks at the first sum only).
VoidHidesNoMoney ==
    \A b \in Bills :
        bill[b] # None /\ bill[b].status = "void"
        => salesTotal[b] = 0 /\ paid[b] = 0 /\ writtenOff[b] = 0

\* No bill but a reversal's holds fewer than zero of anything (the cap of
\* RemoveBillItem over every round posted so far).
NothingRemovedTwice ==
    \A b \in Bills, v \in Variants :
        bill[b] # None /\ bill[b].kind # "reversal" => onBill[b][v] >= 0

\* On the bill it was taken on, a payment is given back at most once
\* (ReversePayment looks for an earlier reversal under the bill's lock).
RefundedOncePerBill ==
    \A p, q \in Payments :
        /\ payment[p] # None /\ payment[q] # None
        /\ payment[p].reversalOf # None
        /\ payment[p].reversalOf = payment[q].reversalOf
        /\ payment[p].bill = payment[q].bill
        /\ bill[payment[p].bill].kind # "reversal"
        => p = q

\* A bill is voided from "open" only, though VoidBill accepts a closed, unpaid
\* bill as well: such a bill never has the zero balance voiding asks for.
VoidedWhileOpen ==
    [][\A b \in Bills :
         bill[b] # None /\ bill'[b] # None /\ bill'[b].status = "void"
         => bill[b].status \in {"open", "void"}]_vars

\* Once it has left "open" a bill leaves "settled" only to be unpaid again, by
\* giving money back, and is never editable with nothing left to pay.
ReopenedByRefundOnly ==
    [][\A b \in Bills :
         /\ bill[b] # None
         /\ bill[b].status = "settled"
         /\ bill'[b].status # "settled"
         => /\ bill'[b].status = "closed_unpaid"
            /\ bill'[b].balance > 0
            /\ paid'[b] < paid[b]
            /\ salesTotal'[b] = salesTotal[b]]_vars

-----------------------------------------------------------------------------
(* The inductive invariant behind the first six (TabsProofs).              *)

\* A walk-in bill as CreateSale left it: its balance has not been computed,
\* and its one payment, if the client sent another amount than the total,
\* leaves a difference no column shows.
AsPosted(b) ==
    /\ bill[b].kind = "walkin"
    /\ bill[b].status = "settled"
    /\ bill[b].balance = 0
    /\ salesTotal[b] > 0
    /\ writtenOff[b] = 0
    /\ \A p \in Payments :
         payment[p] # None /\ payment[p].bill = b => payment[p].amount = paid[b]

BillInv(b) ==
    IF bill[b] = None
    THEN /\ salesTotal[b] = 0 /\ paid[b] = 0 /\ writtenOff[b] = 0
         /\ \A v \in Variants : onBill[b][v] = 0
    ELSE /\ bill[b].balance >= 0
         /\ bill[b].status # "open"
            => (bill[b].balance # 0 <=> bill[b].status = "closed_unpaid")
         /\ bill[b].status = "open" => bill[b].kind = "tab" /\ writtenOff[b] = 0
         /\ bill[b].status = "void"
            => salesTotal[b] = 0 /\ paid[b] = 0 /\ writtenOff[b] = 0
         /\ IF bill[b].kind = "reversal"
            THEN bill[b].status = "settled"
            ELSE /\ bill[b].balance = Owed(b) \/ AsPosted(b)
                 /\ \A v \in Variants : onBill[b][v] >= 0

\* Money comes in on tabs and walk-in bills only, and every payment's bill exists.
PaymentInv(p) ==
    payment[p] # None
    => /\ bill[payment[p].bill] # None
       /\ payment[p].reversalOf = None
          => payment[p].amount > 0 /\ bill[payment[p].bill].kind # "reversal"

\* An uncommitted ReverseSale has read rows that exist, and rows are never deleted.
ReadInv(w) ==
    reversing[w] # None
    => /\ sale[reversing[w].sale] # None
       /\ reversing[w].payment # None => payment[reversing[w].payment] # None

IInv ==
    /\ TypeOK
    /\ \A b \in Bills : BillInv(b)
    /\ \A p \in Payments : PaymentInv(p)
    /\ \A w \in Requests : ReadInv(w)
    /\ RefundedOncePerBill

-----------------------------------------------------------------------------
(* What comments and documents say that the handlers do not keep.          *)

\* service.go:447: "a sale is reversed at most once in this slice".
SaleReversedAtMostOnce ==
    \A r, s \in Rounds :
        /\ sale[r] # None /\ sale[s] # None
        /\ sale[r].reversalOf # None
        /\ sale[r].reversalOf = sale[s].reversalOf
        => r = s

\* tabs.go:475: "At most one reversal per payment."
PaymentReversedAtMostOnce ==
    \A p, q \in Payments :
        /\ payment[p] # None /\ payment[q] # None
        /\ payment[p].reversalOf # None
        /\ payment[p].reversalOf = payment[q].reversalOf
        => p = q

\* Migration 000020: the balance is "always" rounds less payments less
\* write-offs, recomputed "on every bill mutation".
EveryBillProjected == \A b \in Bills : bill[b] # None => bill[b].balance = Owed(b)

\* ARCHITECTURE.md:474: a customer is "mandatory whenever credit/outstanding
\* debt is recorded".
DebtHasCustomer ==
    \A b \in Bills :
        bill[b] # None /\ bill[b].status = "closed_unpaid" => bill[b].customer

\* VoidBill's comment: "every round ever added has since been fully reversed,
\* or none were ever added".
VoidBillHasNoItems ==
    \A b \in Bills, v \in Variants :
        bill[b] # None /\ bill[b].status = "void" => onBill[b][v] = 0

\* errors.go:14: ReverseSale refuses "a sale that is one of several rounds on a
\* shared tab".  A round added after the check, before the reversal, is missed.
ReversedOnlyAlone ==
    [][\A r \in Rounds : SaleReversed(r)' /\ ~SaleReversed(r) => ~SharesBill(r)']_vars

\* Migration 000019: "a walk-in sale here is always paid in full".
WalkInPaidInFull ==
    \A b \in Bills :
        bill[b] # None /\ bill[b].kind = "walkin" /\ bill[b].status = "settled"
        => paid[b] >= salesTotal[b]
=============================================================================

----------------------------- MODULE TabsProofs -----------------------------
(***************************************************************************)
(* Theorems about Tabs, for every choice of its constants.                 *)
(***************************************************************************)
EXTENDS TabsRefinement, SumTheorems

USE CartsAssumption, QuantitiesAssumption, PricesAssumption, AmountsAssumption,
    NoneAssumption, NoneIsNoRow

-----------------------------------------------------------------------------
(* What the shared parts of the handlers do to the rows.                   *)

LEMMA InsertBillType ==
    ASSUME TypeOK, NEW b \in Bills, NEW status \in {"open", "settled"},
           NEW customer \in BOOLEAN, NEW kind \in {"tab", "walkin", "reversal"},
           InsertBill(b, status, customer, kind)
    PROVE  /\ bill' \in [Bills -> BillRow \cup {None}]
           /\ bill[b] = None
           /\ bill'[b] = [status |-> status, balance |-> 0,
                          customer |-> customer, kind |-> kind]
           /\ bill'[b] # None
           /\ \A c \in Bills : c # b => bill'[c] = bill[c]
<1> DEFINE row == [status |-> status, balance |-> 0, customer |-> customer, kind |-> kind]
<1>1. row \in BillRow
  BY DEF BillRow
<1>2. bill[b] = None /\ bill' = [bill EXCEPT ![b] = row]
  BY DEF InsertBill
<1> HIDE DEF row
<1>3. /\ bill' \in [Bills -> BillRow \cup {None}]
      /\ bill'[b] = row
      /\ bill'[b] # None
      /\ \A c \in Bills : c # b => bill'[c] = bill[c]
  BY <1>1, <1>2 DEF TypeOK
<1> QED BY <1>2, <1>3 DEF row

LEMMA InsertSaleType ==
    ASSUME TypeOK, NEW r \in Rounds, NEW b \in Bills, NEW qty \in [Variants -> Int],
           NEW total \in Int, NEW original \in Rounds \cup {None},
           InsertSale(r, b, qty, total, original)
    PROVE  /\ sale' \in [Rounds -> SaleRow \cup {None}]
           /\ salesTotal' \in [Bills -> Int]
           /\ onBill' \in [Bills -> [Variants -> Int]]
           /\ total # 0
           /\ \A s \in Rounds : sale[s] # None => sale'[s] # None
           /\ salesTotal'[b] = salesTotal[b] + total
           /\ \A v \in Variants : onBill'[b][v] = onBill[b][v] + qty[v]
           /\ \A c \in Bills : c # b => /\ salesTotal'[c] = salesTotal[c]
                                        /\ onBill'[c] = onBill[c]
<1> DEFINE row == [bill |-> b, qty |-> qty, total |-> total, reversalOf |-> original]
           items == [v \in Variants |-> onBill[b][v] + qty[v]]
<1>1. /\ sale' \in [Rounds -> SaleRow \cup {None}]
      /\ \A s \in Rounds : sale[s] # None => sale'[s] # None
  <2>1. row \in SaleRow
    BY DEF SaleRow
  <2>2. sale' = [sale EXCEPT ![r] = row]
    BY DEF InsertSale
  <2> HIDE DEF row
  <2> QED BY <2>1, <2>2 DEF TypeOK
<1>2. /\ salesTotal' \in [Bills -> Int]
      /\ total # 0
      /\ salesTotal'[b] = salesTotal[b] + total
      /\ \A c \in Bills : c # b => salesTotal'[c] = salesTotal[c]
  BY DEF TypeOK, InsertSale
<1>3. /\ onBill' \in [Bills -> [Variants -> Int]]
      /\ onBill'[b] = items
      /\ \A c \in Bills : c # b => onBill'[c] = onBill[c]
  <2>1. items \in [Variants -> Int]
    BY DEF TypeOK
  <2>2. onBill' = [onBill EXCEPT ![b] = items]
    BY DEF InsertSale
  <2> HIDE DEF items
  <2> QED BY <2>1, <2>2 DEF TypeOK
<1> QED BY <1>1, <1>2, <1>3

LEMMA InsertPaymentType ==
    ASSUME TypeOK, NEW p \in Payments, NEW b \in Bills, NEW amount \in Int,
           NEW original \in Payments \cup {None},
           InsertPayment(p, b, amount, original)
    PROVE  /\ payment' \in [Payments -> PaymentRow \cup {None}]
           /\ payment[p] = None
           /\ payment'[p] = [bill |-> b, amount |-> amount, reversalOf |-> original]
           /\ \A q \in Payments : q # p => payment'[q] = payment[q]
           /\ paid' \in [Bills -> Int]
           /\ paid'[b] = paid[b] + amount
           /\ \A c \in Bills : c # b => paid'[c] = paid[c]
BY DEF TypeOK, InsertPayment, PaymentRow

LEMMA UpdateBillType ==
    ASSUME TypeOK, NEW b \in Bills, bill[b] # None, NEW balance \in Int,
           NEW status \in {"open", "closed_unpaid", "settled", "void"},
           UpdateBillBalanceAndStatus(b, balance, status)
    PROVE  /\ bill' \in [Bills -> BillRow \cup {None}]
           /\ bill'[b] \in BillRow
           /\ bill'[b] # None
           /\ bill'[b].balance = balance
           /\ bill'[b].status = status
           /\ bill'[b].kind = bill[b].kind
           /\ \A c \in Bills : c # b => bill'[c] = bill[c]
<1> DEFINE row == [bill[b] EXCEPT !.balance = balance, !.status = status]
<1>1. bill[b] \in BillRow
  BY DEF TypeOK
<1>2. bill' = [bill EXCEPT ![b] = row]
  BY DEF UpdateBillBalanceAndStatus, TypeOK
<1>3. /\ row \in BillRow
      /\ row.balance = balance
      /\ row.status = status
      /\ row.kind = bill[b].kind
  BY <1>1 DEF BillRow
<1> HIDE DEF row
<1> QED BY <1>2, <1>3 DEF TypeOK

LEMMA RecomputeType ==
    ASSUME TypeOK, NEW b \in Bills, bill[b] # None,
           salesTotal' \in [Bills -> Int], paid' \in [Bills -> Int],
           writtenOff' \in [Bills -> Nat], RecomputeBillBalance(b)
    PROVE  /\ bill' \in [Bills -> BillRow \cup {None}]
           /\ bill'[b] \in BillRow
           /\ bill'[b] # None
           /\ bill'[b].balance = Owed(b)'
           /\ bill'[b].status = DerivedStatus(bill[b].status, Owed(b)')
           /\ bill'[b].kind = bill[b].kind
           /\ \A c \in Bills : c # b => bill'[c] = bill[c]
<1> DEFINE owed == Owed(b)'
           status == DerivedStatus(bill[b].status, owed)
<1>1. owed \in Int
  BY DEF Owed
<1>2. status \in {"open", "closed_unpaid", "settled", "void"}
  BY DEF TypeOK, BillRow, DerivedStatus
<1>3. UpdateBillBalanceAndStatus(b, owed, status)
  BY DEF RecomputeBillBalance
<1> HIDE DEF owed, status
<1>4. /\ bill' \in [Bills -> BillRow \cup {None}]
      /\ bill'[b] \in BillRow
      /\ bill'[b] # None
      /\ bill'[b].balance = owed
      /\ bill'[b].status = status
      /\ bill'[b].kind = bill[b].kind
      /\ \A c \in Bills : c # b => bill'[c] = bill[c]
  BY <1>1, <1>2, <1>3, UpdateBillType
<1> QED BY <1>4 DEF owed, status

-----------------------------------------------------------------------------
(* The inductive invariant.                                                *)

\* A bill whose row, sums and payments a step leaves alone keeps its invariant.
LEMMA BillInvFrame ==
    ASSUME NEW c \in Bills, BillInv(c), bill'[c] = bill[c],
           salesTotal'[c] = salesTotal[c], paid'[c] = paid[c],
           writtenOff'[c] = writtenOff[c], onBill'[c] = onBill[c],
           \A p \in Payments : payment'[p] # None /\ payment'[p].bill = c
                               => payment'[p] = payment[p]
    PROVE  BillInv(c)'
BY DEF BillInv, AsPosted, Owed

\* A step that adds no payment and keeps every bill, with its kind, keeps what
\* is known of the payments.
LEMMA PaymentInvFrame ==
    ASSUME TypeOK, NEW b \in Bills, \A p \in Payments : PaymentInv(p), RefundedOncePerBill,
           payment' = payment, bill'[b] # None,
           bill[b] # None => bill'[b].kind = bill[b].kind,
           \A c \in Bills : c # b => bill'[c] = bill[c]
    PROVE  /\ \A p \in Payments : PaymentInv(p)'
           /\ RefundedOncePerBill'
<1>1. \A p \in Payments : payment[p] # None => payment[p].bill \in Bills
  BY DEF TypeOK, PaymentRow
<1>2. \A p \in Payments : PaymentInv(p)'
  BY <1>1 DEF PaymentInv
<1>3. RefundedOncePerBill'
  BY <1>1 DEF RefundedOncePerBill, PaymentInv
<1> QED BY <1>2, <1>3

\* Rows are only ever added, so what an uncommitted ReverseSale has read stays.
LEMMA ReadInvFrame ==
    ASSUME TypeOK, \A w \in Requests : ReadInv(w), reversing' = reversing,
           \A r \in Rounds : sale[r] # None => sale'[r] # None,
           \A p \in Payments : payment[p] # None => payment'[p] # None
    PROVE  \A w \in Requests : ReadInv(w)'
BY DEF ReadInv, TypeOK, Read

LEMMA InitIInv == Init => IInv
<1> SUFFICES ASSUME Init PROVE IInv
  OBVIOUS
<1>1. TypeOK
  BY DEF Init, TypeOK
<1>2. \A b \in Bills : BillInv(b)
  BY DEF Init, BillInv
<1>3. (\A p \in Payments : PaymentInv(p)) /\ RefundedOncePerBill
  BY DEF Init, PaymentInv, RefundedOncePerBill
<1>4. \A w \in Requests : ReadInv(w)
  BY DEF Init, ReadInv
<1> QED BY <1>4, <1>1, <1>2, <1>3 DEF IInv

LEMMA OpenBillIInv ==
    ASSUME IInv, NEW b \in Bills, NEW customer \in BOOLEAN, OpenBill(b, customer)
    PROVE  IInv'
<1> USE DEF IInv
<1>1. /\ bill' \in [Bills -> BillRow \cup {None}]
      /\ bill[b] = None
      /\ bill'[b] # None
      /\ bill'[b] = [status |-> "open", balance |-> 0, customer |-> customer, kind |-> "tab"]
      /\ \A c \in Bills : c # b => bill'[c] = bill[c]
  BY InsertBillType DEF OpenBill
<1>3. UNCHANGED <<sale, payment, salesTotal, paid, writtenOff, onBill, reversing>>
  BY DEF OpenBill
<1>4. TypeOK'
  BY <1>1, <1>3 DEF TypeOK
<1>5. BillInv(b)'
  BY <1>1, <1>3 DEF BillInv, Owed
<1>6. \A c \in Bills : BillInv(c)'
  BY <1>1, <1>3, <1>5, BillInvFrame
<1>7. (\A p \in Payments : PaymentInv(p)') /\ RefundedOncePerBill'
  BY <1>1, <1>3, PaymentInvFrame
<1>8. \A w \in Requests : ReadInv(w)'
  BY <1>3, ReadInvFrame
<1> QED BY <1>4, <1>6, <1>7, <1>8

LEMMA CreateSaleIInv ==
    ASSUME IInv, NEW b \in Bills, NEW r \in Rounds, NEW p \in Payments,
           NEW cart \in Carts, NEW amount \in Amounts,
           CreateSale(b, r, p, cart, amount)
    PROVE  IInv'
<1> USE DEF IInv
<1>1. /\ bill' \in [Bills -> BillRow \cup {None}]
      /\ bill[b] = None
      /\ bill'[b] # None
      /\ bill'[b] = [status |-> "settled", balance |-> 0, customer |-> FALSE, kind |-> "walkin"]
      /\ \A c \in Bills : c # b => bill'[c] = bill[c]
  BY InsertBillType DEF CreateSale
<1>3. cart.qty \in [Variants -> Nat] /\ cart.total \in Nat /\ amount \in Nat /\ amount > 0
  OBVIOUS
<1>4. /\ sale' \in [Rounds -> SaleRow \cup {None}]
      /\ \A s \in Rounds : sale[s] # None => sale'[s] # None
      /\ salesTotal' \in [Bills -> Int]
      /\ onBill' \in [Bills -> [Variants -> Int]]
      /\ cart.total # 0
      /\ salesTotal'[b] = salesTotal[b] + cart.total
      /\ \A v \in Variants : onBill'[b][v] = onBill[b][v] + cart.qty[v]
      /\ \A c \in Bills : c # b => salesTotal'[c] = salesTotal[c] /\ onBill'[c] = onBill[c]
  <2>1. cart.qty \in [Variants -> Int] /\ cart.total \in Int
    BY <1>3
  <2>2. InsertSale(r, b, cart.qty, cart.total, None)
    BY DEF CreateSale
  <2> QED BY <2>1, <2>2, InsertSaleType
<1>5. /\ payment' \in [Payments -> PaymentRow \cup {None}]
      /\ payment[p] = None
      /\ payment'[p] = [bill |-> b, amount |-> amount, reversalOf |-> None]
      /\ \A q \in Payments : q # p => payment'[q] = payment[q]
      /\ paid' \in [Bills -> Int]
      /\ paid'[b] = paid[b] + amount
      /\ \A c \in Bills : c # b => paid'[c] = paid[c]
  BY InsertPaymentType DEF CreateSale
<1>6. UNCHANGED <<writtenOff, reversing>>
  BY DEF CreateSale
<1>7. TypeOK'
  BY <1>1, <1>4, <1>5, <1>6 DEF TypeOK
<1>8. \A q \in Payments : payment[q] # None => payment[q].bill \in Bills /\ payment[q].bill # b
  BY <1>1 DEF TypeOK, PaymentRow, PaymentInv
<1>9. BillInv(b)'
  <2>1. salesTotal[b] = 0 /\ paid[b] = 0 /\ writtenOff[b] = 0 /\ \A v \in Variants : onBill[b][v] = 0
    BY <1>1 DEF BillInv
  <2>2. \A q \in Payments : payment'[q] # None /\ payment'[q].bill = b => payment'[q].amount = paid'[b]
    BY <1>3, <1>5, <1>8, <2>1
  <2>3. salesTotal'[b] > 0 /\ writtenOff'[b] = 0
    BY <1>3, <1>4, <1>6, <2>1
  <2>4. AsPosted(b)'
    BY <1>1, <2>2, <2>3 DEF AsPosted
  <2>5. \A v \in Variants : onBill'[b][v] >= 0
    BY <1>3, <1>4, <2>1
  <2> QED BY <1>1, <2>4, <2>5 DEF BillInv
<1>10. \A c \in Bills : BillInv(c)'
  <2> SUFFICES ASSUME NEW c \in Bills, c # b PROVE BillInv(c)'
    BY <1>9
  <2>1. \A q \in Payments : payment'[q] # None /\ payment'[q].bill = c => payment'[q] = payment[q]
    BY <1>5
  <2> QED BY <1>1, <1>4, <1>5, <1>6, <2>1, BillInvFrame
<1>11. \A q \in Payments : PaymentInv(q)'
  <2> SUFFICES ASSUME NEW q \in Payments PROVE PaymentInv(q)'
    OBVIOUS
  <2>1. CASE q = p
    BY <1>1, <1>3, <1>5, <2>1 DEF PaymentInv
  <2>2. CASE q # p
    BY <1>1, <1>5, <1>8, <2>2 DEF PaymentInv
  <2> QED BY <2>1, <2>2
<1>12. RefundedOncePerBill'
  BY <1>1, <1>5, <1>8 DEF RefundedOncePerBill
<1>13. \A w \in Requests : ReadInv(w)'
  BY <1>4, <1>5, <1>6, ReadInvFrame
<1> QED BY <1>7, <1>10, <1>11, <1>12, <1>13
\* Recomputing a bill establishes its invariant whenever its rows owe nothing
\* back: the balance becomes exact and the status follows it.
LEMMA RecomputeBillInv ==
    ASSUME TypeOK, NEW b \in Bills, bill[b] # None, BillInv(b),
           bill[b].status # "void", bill[b].kind # "reversal",
           salesTotal' \in [Bills -> Int], paid' \in [Bills -> Int],
           writtenOff' \in [Bills -> Nat], RecomputeBillBalance(b),
           Owed(b)' >= 0,
           bill[b].status = "open" => writtenOff'[b] = 0,
           \A v \in Variants : onBill'[b][v] >= 0
    PROVE  BillInv(b)'
<1>1. /\ bill'[b] \in BillRow
      /\ bill'[b].balance = Owed(b)'
      /\ bill'[b].status = DerivedStatus(bill[b].status, Owed(b)')
      /\ bill'[b].kind = bill[b].kind
  BY RecomputeType
<1>2. bill[b] \in BillRow
  BY DEF TypeOK
<1>3. bill'[b].status \in {bill[b].status, "settled", "closed_unpaid"}
  BY <1>1 DEF DerivedStatus
<1>4. bill'[b].status # "open"
      => (bill'[b].balance # 0 <=> bill'[b].status = "closed_unpaid")
  BY <1>1, <1>2 DEF DerivedStatus, BillRow
<1>5. bill'[b] # None
  BY <1>1
<1>6. bill'[b].status = "open" => bill'[b].kind = "tab" /\ writtenOff'[b] = 0
  BY <1>1, <1>3 DEF BillInv
<1>7. bill'[b].status # "void"
  BY <1>3
<1> QED BY <1>1, <1>4, <1>5, <1>6, <1>7 DEF BillInv

\* A bill that takes rounds is no reversal's, and its balance is exact.
LEMMA EditableExact ==
    ASSUME TypeOK, NEW b \in Bills, BillInv(b), Editable(b)
    PROVE  /\ bill[b] \in BillRow
           /\ bill[b] # None
           /\ bill[b].kind # "reversal"
           /\ bill[b].status \notin {"void", "settled"}
           /\ bill[b].balance = Owed(b)
           /\ bill[b].balance >= 0
           /\ bill[b].status = "open" => writtenOff[b] = 0
           /\ \A v \in Variants : onBill[b][v] >= 0
<1>1. bill[b] # None /\ bill[b].status \in {"open", "closed_unpaid"}
  BY DEF Editable
<1>2. bill[b] \in BillRow
  BY <1>1 DEF TypeOK
<1> QED BY <1>1, <1>2 DEF BillInv, AsPosted

LEMMA AddSaleRoundIInv ==
    ASSUME IInv, NEW b \in Bills, NEW r \in Rounds, NEW cart \in Carts,
           AddSaleRound(b, r, cart)
    PROVE  IInv'
<1> USE DEF IInv
<1>1. /\ bill[b] # None
      /\ bill[b].kind # "reversal"
      /\ bill[b].status # "void"
      /\ bill[b].balance = Owed(b)
      /\ bill[b].balance >= 0
      /\ bill[b].status = "open" => writtenOff[b] = 0
      /\ \A v \in Variants : onBill[b][v] >= 0
  BY EditableExact DEF AddSaleRound
<1>2. cart.qty \in [Variants -> Nat] /\ cart.total \in Nat
  OBVIOUS
<1>3. /\ sale' \in [Rounds -> SaleRow \cup {None}]
      /\ \A s \in Rounds : sale[s] # None => sale'[s] # None
      /\ salesTotal' \in [Bills -> Int]
      /\ onBill' \in [Bills -> [Variants -> Int]]
      /\ salesTotal'[b] = salesTotal[b] + cart.total
      /\ \A v \in Variants : onBill'[b][v] = onBill[b][v] + cart.qty[v]
      /\ \A c \in Bills : c # b => salesTotal'[c] = salesTotal[c] /\ onBill'[c] = onBill[c]
  <2>1. cart.qty \in [Variants -> Int] /\ cart.total \in Int
    BY <1>2
  <2>2. InsertSale(r, b, cart.qty, cart.total, None)
    BY DEF AddSaleRound
  <2> QED BY <2>1, <2>2, InsertSaleType
<1>4. /\ UNCHANGED <<payment, paid, writtenOff, reversing>>
      /\ RecomputeBillBalance(b)
  BY DEF AddSaleRound
<1>5. paid' \in [Bills -> Int] /\ writtenOff' \in [Bills -> Nat]
  BY <1>4 DEF TypeOK
<1>6. /\ bill' \in [Bills -> BillRow \cup {None}]
      /\ bill'[b] # None
      /\ bill'[b].kind = bill[b].kind
      /\ \A c \in Bills : c # b => bill'[c] = bill[c]
  BY <1>1, <1>3, <1>4, <1>5, RecomputeType
<1>7. TypeOK'
  BY <1>3, <1>4, <1>5, <1>6 DEF TypeOK
<1>8. BillInv(b)'
  <2>1. Owed(b)' >= 0
    BY <1>1, <1>2, <1>3, <1>4 DEF Owed, TypeOK
  <2>2. \A v \in Variants : onBill'[b][v] >= 0
    BY <1>1, <1>2, <1>3 DEF TypeOK
  <2>3. bill[b].status = "open" => writtenOff'[b] = 0
    BY <1>1, <1>4
  <2> QED BY <1>1, <1>3, <1>4, <1>5, <2>1, <2>2, <2>3, RecomputeBillInv
<1>9. \A c \in Bills : BillInv(c)'
  BY <1>3, <1>4, <1>6, <1>8, BillInvFrame
<1>10. (\A p \in Payments : PaymentInv(p)') /\ RefundedOncePerBill'
  BY <1>4, <1>6, PaymentInvFrame
<1>11. \A w \in Requests : ReadInv(w)'
  BY <1>3, <1>4, ReadInvFrame
<1> QED BY <1>7, <1>9, <1>10, <1>11

LEMMA RemoveBillItemIInv ==
    ASSUME IInv, NEW b \in Bills, NEW r \in Rounds, NEW v \in Variants,
           NEW quantity \in Quantities, NEW price \in Prices,
           RemoveBillItem(b, r, v, quantity, price)
    PROVE  IInv'
<1> USE DEF IInv
<1> DEFINE cost == quantity * price
           qty == [u \in Variants |-> IF u = v THEN -quantity ELSE 0]
<1>1. /\ bill[b] # None
      /\ bill[b].kind # "reversal"
      /\ bill[b].status # "void"
      /\ bill[b].balance = Owed(b)
      /\ bill[b].balance >= 0
      /\ bill[b].status = "open" => writtenOff[b] = 0
      /\ \A u \in Variants : onBill[b][u] >= 0
  BY EditableExact DEF RemoveBillItem
<1>2. /\ cost \in Int
      /\ cost <= bill[b].balance
      /\ quantity \in Int
      /\ quantity <= onBill[b][v]
      /\ qty \in [Variants -> Int]
      /\ qty[v] = -quantity
      /\ \A u \in Variants : u # v => qty[u] = 0
  <2>1. quantity \in Int /\ price \in Int
    OBVIOUS
  <2>2. cost \in Int
    BY <2>1
  <2>3. cost <= bill[b].balance /\ quantity <= onBill[b][v]
    BY DEF RemoveBillItem
  <2>4. /\ qty \in [Variants -> Int]
        /\ qty[v] = -quantity
        /\ \A u \in Variants : u # v => qty[u] = 0
    BY <2>1
  <2> QED BY <2>1, <2>2, <2>3, <2>4
<1>3. /\ InsertSale(r, b, qty, -cost, None)
      /\ UNCHANGED <<payment, paid, writtenOff, reversing>>
      /\ RecomputeBillBalance(b)
  BY DEF RemoveBillItem
<1> HIDE DEF cost, qty
<1>4. /\ sale' \in [Rounds -> SaleRow \cup {None}]
      /\ \A s \in Rounds : sale[s] # None => sale'[s] # None
      /\ salesTotal' \in [Bills -> Int]
      /\ onBill' \in [Bills -> [Variants -> Int]]
      /\ salesTotal'[b] = salesTotal[b] - cost
      /\ \A u \in Variants : onBill'[b][u] = onBill[b][u] + qty[u]
      /\ \A c \in Bills : c # b => salesTotal'[c] = salesTotal[c] /\ onBill'[c] = onBill[c]
  <2>1. -cost \in Int
    BY <1>2
  <2>2. /\ sale' \in [Rounds -> SaleRow \cup {None}]
        /\ \A s \in Rounds : sale[s] # None => sale'[s] # None
        /\ salesTotal' \in [Bills -> Int]
        /\ onBill' \in [Bills -> [Variants -> Int]]
        /\ salesTotal'[b] = salesTotal[b] + (-cost)
        /\ \A u \in Variants : onBill'[b][u] = onBill[b][u] + qty[u]
        /\ \A c \in Bills : c # b => salesTotal'[c] = salesTotal[c] /\ onBill'[c] = onBill[c]
    BY <1>2, <1>3, <2>1, InsertSaleType
  <2> QED BY <1>2, <2>2 DEF TypeOK
<1>5. paid' \in [Bills -> Int] /\ writtenOff' \in [Bills -> Nat]
  BY <1>3 DEF TypeOK
<1>6. /\ bill' \in [Bills -> BillRow \cup {None}]
      /\ bill'[b] # None
      /\ bill'[b].kind = bill[b].kind
      /\ \A c \in Bills : c # b => bill'[c] = bill[c]
  BY <1>1, <1>3, <1>4, <1>5, RecomputeType
<1>7. TypeOK'
  BY <1>3, <1>4, <1>5, <1>6 DEF TypeOK
<1>8. BillInv(b)'
  <2>1. Owed(b)' >= 0
    BY <1>1, <1>2, <1>3, <1>4 DEF Owed, TypeOK
  <2>2. ASSUME NEW u \in Variants PROVE onBill'[b][u] >= 0
    <3>1. onBill[b][u] \in Int /\ onBill'[b][u] = onBill[b][u] + qty[u]
      BY <1>4 DEF TypeOK
    <3>2. CASE u = v
      BY <1>2, <3>1, <3>2
    <3>3. CASE u # v
      BY <1>1, <1>2, <3>1, <3>3
    <3> QED BY <3>2, <3>3
  <2>3. bill[b].status = "open" => writtenOff'[b] = 0
    BY <1>1, <1>3
  <2> QED BY <1>1, <1>3, <1>4, <1>5, <2>1, <2>2, <2>3, RecomputeBillInv
<1>9. \A c \in Bills : BillInv(c)'
  BY <1>3, <1>4, <1>6, <1>8, BillInvFrame
<1>10. (\A p \in Payments : PaymentInv(p)') /\ RefundedOncePerBill'
  BY <1>3, <1>6, PaymentInvFrame
<1>11. \A w \in Requests : ReadInv(w)'
  BY <1>3, <1>4, ReadInvFrame
<1> QED BY <1>7, <1>9, <1>10, <1>11
LEMMA CloseBillIInv ==
    ASSUME IInv, NEW b \in Bills, CloseBill(b)
    PROVE  IInv'
<1> USE DEF IInv
<1> DEFINE balance == salesTotal[b] - paid[b]
           status == IF balance = 0 THEN "settled" ELSE "closed_unpaid"
<1>1. /\ bill[b] # None
      /\ bill[b].status = "open"
      /\ UpdateBillBalanceAndStatus(b, balance, status)
      /\ UNCHANGED <<sale, payment, salesTotal, paid, writtenOff, onBill, reversing>>
  BY DEF CloseBill
<1>2. /\ bill[b].kind = "tab"
      /\ bill[b].balance = Owed(b)
      /\ bill[b].balance >= 0
      /\ writtenOff[b] = 0
      /\ \A v \in Variants : onBill[b][v] >= 0
  BY <1>1, EditableExact DEF Editable, BillInv
<1>3. balance \in Int /\ balance >= 0 /\ balance = Owed(b)
  BY <1>2 DEF Owed, TypeOK
<1>4. /\ status \in {"open", "closed_unpaid", "settled", "void"}
      /\ status \in {"closed_unpaid", "settled"}
      /\ balance # 0 <=> status = "closed_unpaid"
  OBVIOUS
<1> HIDE DEF balance, status
<1>5. /\ bill' \in [Bills -> BillRow \cup {None}]
      /\ bill'[b] # None
      /\ bill'[b].balance = balance
      /\ bill'[b].status = status
      /\ bill'[b].kind = bill[b].kind
      /\ \A c \in Bills : c # b => bill'[c] = bill[c]
  BY <1>1, <1>3, <1>4, UpdateBillType
<1>6. TypeOK'
  BY <1>1, <1>5 DEF TypeOK
<1>7. BillInv(b)'
  <2>1. Owed(b)' = balance
    BY <1>1, <1>3 DEF Owed
  <2> QED BY <1>1, <1>2, <1>3, <1>4, <1>5, <2>1 DEF BillInv
<1>8. \A c \in Bills : BillInv(c)'
  BY <1>1, <1>5, <1>7, BillInvFrame
<1>9. (\A p \in Payments : PaymentInv(p)') /\ RefundedOncePerBill'
  BY <1>1, <1>5, PaymentInvFrame
<1>10. \A w \in Requests : ReadInv(w)'
  BY <1>1, ReadInvFrame
<1> QED BY <1>6, <1>8, <1>9, <1>10

LEMMA VoidBillIInv ==
    ASSUME IInv, NEW b \in Bills, VoidBill(b)
    PROVE  IInv' /\ bill[b].status = "open"
<1> USE DEF IInv
<1>1. /\ Editable(b)
      /\ salesTotal[b] = 0
      /\ bill[b].balance = 0
      /\ UpdateBillBalanceAndStatus(b, 0, "void")
      /\ UNCHANGED <<sale, payment, salesTotal, paid, writtenOff, onBill, reversing>>
  BY DEF VoidBill
<1>2. /\ bill[b] # None
      /\ bill[b].status = "open"
      /\ bill[b].kind = "tab"
      /\ Owed(b) = 0
      /\ writtenOff[b] = 0
      /\ \A v \in Variants : onBill[b][v] >= 0
  BY <1>1, EditableExact DEF Editable, BillInv
<1>3. paid[b] = 0
  BY <1>1, <1>2 DEF Owed, TypeOK
<1>4. /\ bill' \in [Bills -> BillRow \cup {None}]
      /\ bill'[b] # None
      /\ bill'[b].balance = 0
      /\ bill'[b].status = "void"
      /\ bill'[b].kind = bill[b].kind
      /\ \A c \in Bills : c # b => bill'[c] = bill[c]
  BY <1>1, <1>2, UpdateBillType
<1>5. TypeOK'
  BY <1>1, <1>4 DEF TypeOK
<1>6. BillInv(b)'
  BY <1>1, <1>2, <1>3, <1>4 DEF BillInv, Owed
<1>7. \A c \in Bills : BillInv(c)'
  BY <1>1, <1>4, <1>6, BillInvFrame
<1>8. (\A p \in Payments : PaymentInv(p)') /\ RefundedOncePerBill'
  BY <1>1, <1>2, <1>4, PaymentInvFrame
<1>9. \A w \in Requests : ReadInv(w)'
  BY <1>1, ReadInvFrame
<1> QED BY <1>2, <1>5, <1>7, <1>8, <1>9

LEMMA WriteOffBillIInv ==
    ASSUME IInv, NEW b \in Bills, NEW amount \in Amounts, WriteOffBill(b, amount)
    PROVE  IInv'
<1> USE DEF IInv
<1>1. /\ Editable(b)
      /\ bill[b].status = "closed_unpaid"
      /\ amount <= bill[b].balance
      /\ writtenOff' = [writtenOff EXCEPT ![b] = @ + amount]
      /\ UNCHANGED <<sale, payment, salesTotal, paid, onBill, reversing>>
      /\ RecomputeBillBalance(b)
  BY DEF WriteOffBill, Editable
<1>2. /\ bill[b] # None
      /\ bill[b].kind # "reversal"
      /\ bill[b].balance = Owed(b)
      /\ \A v \in Variants : onBill[b][v] >= 0
  BY <1>1, EditableExact
<1>3. amount \in Nat
  OBVIOUS
<1>4. /\ salesTotal' \in [Bills -> Int] /\ paid' \in [Bills -> Int]
      /\ writtenOff' \in [Bills -> Nat]
      /\ writtenOff'[b] = writtenOff[b] + amount
      /\ \A c \in Bills : c # b => writtenOff'[c] = writtenOff[c]
  BY <1>1, <1>3 DEF TypeOK
<1>5. /\ bill' \in [Bills -> BillRow \cup {None}]
      /\ bill'[b] # None
      /\ bill'[b].kind = bill[b].kind
      /\ \A c \in Bills : c # b => bill'[c] = bill[c]
  BY <1>1, <1>2, <1>4, RecomputeType
<1>6. TypeOK'
  BY <1>1, <1>4, <1>5 DEF TypeOK
<1>7. BillInv(b)'
  <2>1. Owed(b)' >= 0
    BY <1>1, <1>2, <1>3, <1>4 DEF Owed, TypeOK
  <2>2. bill[b].status # "void" /\ bill[b].status # "open"
    BY <1>1
  <2>3. \A v \in Variants : onBill'[b][v] >= 0
    BY <1>1, <1>2
  <2> QED BY <1>1, <1>2, <1>4, <2>1, <2>2, <2>3, RecomputeBillInv
<1>8. \A c \in Bills : BillInv(c)'
  BY <1>1, <1>4, <1>5, <1>7, BillInvFrame
<1>9. (\A p \in Payments : PaymentInv(p)') /\ RefundedOncePerBill'
  BY <1>1, <1>5, PaymentInvFrame
<1>10. \A w \in Requests : ReadInv(w)'
  BY <1>1, ReadInvFrame
<1> QED BY <1>6, <1>8, <1>9, <1>10
\* A new payment, or a reversal of one on the same bill, keeps what is known of
\* the payments.
LEMMA NewPaymentInv ==
    ASSUME IInv, NEW p \in Payments, NEW b \in Bills, NEW amount \in Int,
           NEW original \in Payments \cup {None},
           payment' \in [Payments -> PaymentRow \cup {None}],
           payment[p] = None,
           payment'[p] = [bill |-> b, amount |-> amount, reversalOf |-> original],
           \A q \in Payments : q # p => payment'[q] = payment[q],
           bill'[b] # None,
           bill[b] # None => bill'[b].kind = bill[b].kind,
           \A c \in Bills : c # b => bill'[c] = bill[c],
           original = None => amount > 0 /\ bill'[b].kind # "reversal",
           original # None /\ bill'[b].kind # "reversal" => ~PaymentReversed(original)
    PROVE  /\ \A q \in Payments : PaymentInv(q)'
           /\ RefundedOncePerBill'
<1> USE DEF IInv
<1>1. \A q \in Payments : payment[q] # None => payment[q].bill \in Bills /\ bill[payment[q].bill] # None
  BY DEF TypeOK, PaymentRow, PaymentInv
<1>2. \A q \in Payments : PaymentInv(q)'
  <2> SUFFICES ASSUME NEW q \in Payments PROVE PaymentInv(q)'
    OBVIOUS
  <2>1. CASE q = p
    BY <2>1 DEF PaymentInv
  <2>2. CASE q # p
    <3>1. payment'[q] = payment[q] /\ PaymentInv(q)
      BY <2>2
    <3>2. payment[q] # None => bill'[payment[q].bill] # None
                               /\ bill'[payment[q].bill].kind = bill[payment[q].bill].kind
      BY <1>1
    <3> QED BY <3>1, <3>2 DEF PaymentInv
  <2> QED BY <2>1, <2>2
<1>3. RefundedOncePerBill'
  <2> SUFFICES ASSUME NEW q \in Payments, NEW s \in Payments,
                      payment'[q] # None, payment'[s] # None,
                      payment'[q].reversalOf # None,
                      payment'[q].reversalOf = payment'[s].reversalOf,
                      payment'[q].bill = payment'[s].bill,
                      bill'[payment'[q].bill].kind # "reversal"
               PROVE  q = s
    BY DEF RefundedOncePerBill
  <2>1. CASE q = p /\ s # p
    <3>1. payment'[s] = payment[s] /\ payment[s].reversalOf = original /\ original # None
      BY <2>1
    <3> QED BY <2>1, <3>1 DEF PaymentReversed
  <2>2. CASE s = p /\ q # p
    <3>1. payment'[q] = payment[q] /\ payment[q].reversalOf = original /\ original # None
      BY <2>2
    <3> QED BY <2>2, <3>1 DEF PaymentReversed
  <2>3. CASE q # p /\ s # p
    <3>1. payment'[q] = payment[q] /\ payment'[s] = payment[s]
      BY <2>3
    <3>2. bill'[payment[q].bill].kind = bill[payment[q].bill].kind
      BY <1>1, <3>1
    <3> QED BY <3>1, <3>2 DEF RefundedOncePerBill
  <2> QED BY <2>1, <2>2, <2>3
<1> QED BY <1>2, <1>3

LEMMA RecordPaymentIInv ==
    ASSUME IInv, NEW b \in Bills, NEW p \in Payments, NEW amount \in Amounts,
           RecordPayment(b, p, amount)
    PROVE  IInv'
<1> USE DEF IInv
<1>1. /\ bill[b] # None
      /\ bill[b].kind # "reversal"
      /\ bill[b].status # "void"
      /\ bill[b].balance = Owed(b)
      /\ bill[b].status = "open" => writtenOff[b] = 0
      /\ \A v \in Variants : onBill[b][v] >= 0
  BY EditableExact DEF RecordPayment
<1>2. amount \in Int /\ amount > 0
  OBVIOUS
<1>3. /\ amount <= bill[b].balance
      /\ InsertPayment(p, b, amount, None)
      /\ UNCHANGED <<sale, salesTotal, writtenOff, onBill, reversing>>
      /\ RecomputeBillBalance(b)
  BY DEF RecordPayment
<1>4. /\ payment' \in [Payments -> PaymentRow \cup {None}]
      /\ payment[p] = None
      /\ payment'[p] = [bill |-> b, amount |-> amount, reversalOf |-> None]
      /\ \A q \in Payments : q # p => payment'[q] = payment[q]
      /\ paid' \in [Bills -> Int]
      /\ paid'[b] = paid[b] + amount
      /\ \A c \in Bills : c # b => paid'[c] = paid[c]
  BY <1>2, <1>3, InsertPaymentType
<1>5. salesTotal' \in [Bills -> Int] /\ writtenOff' \in [Bills -> Nat]
  BY <1>3 DEF TypeOK
<1>6. /\ bill' \in [Bills -> BillRow \cup {None}]
      /\ bill'[b] # None
      /\ bill'[b].kind = bill[b].kind
      /\ \A c \in Bills : c # b => bill'[c] = bill[c]
  BY <1>1, <1>3, <1>4, <1>5, RecomputeType
<1>7. TypeOK'
  BY <1>3, <1>4, <1>6 DEF TypeOK
<1>8. BillInv(b)'
  <2>1. Owed(b)' >= 0
    BY <1>1, <1>2, <1>3, <1>4 DEF Owed, TypeOK
  <2>2. \A v \in Variants : onBill'[b][v] >= 0
    BY <1>1, <1>3
  <2>3. bill[b].status = "open" => writtenOff'[b] = 0
    BY <1>1, <1>3
  <2> QED BY <1>1, <1>3, <1>4, <1>5, <2>1, <2>2, <2>3, RecomputeBillInv
<1>9. \A c \in Bills : BillInv(c)'
  <2> SUFFICES ASSUME NEW c \in Bills, c # b PROVE BillInv(c)'
    BY <1>8
  <2>1. \A q \in Payments : payment'[q] # None /\ payment'[q].bill = c => payment'[q] = payment[q]
    BY <1>4
  <2> QED BY <1>3, <1>4, <1>6, <2>1, BillInvFrame
<1>10. (\A q \in Payments : PaymentInv(q)') /\ RefundedOncePerBill'
  BY <1>1, <1>2, <1>4, <1>6, NewPaymentInv
<1>11. \A w \in Requests : ReadInv(w)'
  BY <1>3, <1>4, ReadInvFrame
<1> QED BY <1>7, <1>9, <1>10, <1>11

LEMMA ReversePaymentIInv ==
    ASSUME IInv, NEW p \in Payments, NEW q \in Payments, ReversePayment(p, q)
    PROVE  IInv'
<1> USE DEF IInv
<1>a. payment[p] # None /\ payment[p] \in PaymentRow
  BY DEF ReversePayment, TypeOK
<1>b. PICK b \in Bills : b = payment[p].bill
  BY <1>a DEF PaymentRow
<1>c. PICK amount \in Int : amount = payment[p].amount
  BY <1>a DEF PaymentRow
<1>d. PICK refund \in Int : refund = -amount
  BY <1>c
<1>1. /\ amount > 0
      /\ bill[b] # None
      /\ bill[b].kind # "reversal"
      /\ bill[b].status # "void"
      /\ payment[p] # None
  BY <1>a, <1>b, <1>c DEF ReversePayment, PaymentInv
<1>2. /\ ~PaymentReversed(p)
      /\ InsertPayment(q, b, refund, p)
      /\ UNCHANGED <<sale, salesTotal, writtenOff, onBill, reversing>>
      /\ RecomputeBillBalance(b)
  BY <1>b, <1>c, <1>d DEF ReversePayment
<1>3. AsPosted(b) => amount = paid[b]
  BY <1>1, <1>b, <1>c DEF AsPosted
<1>4. refund + amount = 0
  BY <1>d
<1>5. /\ payment' \in [Payments -> PaymentRow \cup {None}]
      /\ payment[q] = None
      /\ payment'[q] = [bill |-> b, amount |-> refund, reversalOf |-> p]
      /\ \A s \in Payments : s # q => payment'[s] = payment[s]
      /\ paid' \in [Bills -> Int]
      /\ paid'[b] = paid[b] + refund
      /\ \A c \in Bills : c # b => paid'[c] = paid[c]
  BY <1>2, InsertPaymentType
<1>6. salesTotal' \in [Bills -> Int] /\ writtenOff' \in [Bills -> Nat]
  BY <1>2 DEF TypeOK
<1>7. /\ bill' \in [Bills -> BillRow \cup {None}]
      /\ bill'[b] # None
      /\ bill'[b].kind = bill[b].kind
      /\ \A c \in Bills : c # b => bill'[c] = bill[c]
  BY <1>1, <1>2, <1>5, <1>6, RecomputeType
<1>8. TypeOK'
  BY <1>2, <1>5, <1>7 DEF TypeOK
<1>9. BillInv(b)'
  <2>1. \/ bill[b].balance = Owed(b) /\ bill[b].balance >= 0
        \/ AsPosted(b)
    BY <1>1 DEF BillInv
  <2>2. Owed(b)' = Owed(b) + amount
    BY <1>1, <1>2, <1>4, <1>5 DEF Owed, TypeOK
  <2>3. Owed(b)' >= 0
    <3>1. CASE bill[b].balance = Owed(b) /\ bill[b].balance >= 0
      BY <1>1, <2>2, <3>1 DEF Owed, TypeOK
    <3>2. CASE AsPosted(b)
      BY <1>1, <1>3, <2>2, <3>2 DEF AsPosted, Owed, TypeOK
    <3> QED BY <2>1, <3>1, <3>2
  <2>4. \A v \in Variants : onBill'[b][v] >= 0
    BY <1>1, <1>2 DEF BillInv
  <2>5. bill[b].status = "open" => writtenOff'[b] = 0
    BY <1>1, <1>2 DEF BillInv
  <2> QED BY <1>1, <1>2, <1>5, <1>6, <2>3, <2>4, <2>5, RecomputeBillInv
<1>10. \A c \in Bills : BillInv(c)'
  <2> SUFFICES ASSUME NEW c \in Bills, c # b PROVE BillInv(c)'
    BY <1>9
  <2>1. \A s \in Payments : payment'[s] # None /\ payment'[s].bill = c => payment'[s] = payment[s]
    BY <1>5
  <2> QED BY <1>2, <1>5, <1>7, <2>1, BillInvFrame
<1>11. (\A s \in Payments : PaymentInv(s)') /\ RefundedOncePerBill'
  BY <1>1, <1>2, <1>4, <1>5, <1>7, NewPaymentInv
<1>12. \A w \in Requests : ReadInv(w)'
  BY <1>2, <1>5, ReadInvFrame
<1> QED BY <1>8, <1>10, <1>11, <1>12
LEMMA ReverseSaleReadIInv ==
    ASSUME IInv, NEW w \in Requests, NEW r \in Rounds, ReverseSaleRead(w, r)
    PROVE  IInv'
<1> USE DEF IInv
<1>1. sale[r] # None /\ UNCHANGED rows
  BY DEF ReverseSaleRead
<1>2. PICK p \in AggregatePayment(r) :
        reversing' = [reversing EXCEPT ![w] = [sale |-> r, payment |-> p]]
  BY DEF ReverseSaleRead
<1>3. /\ p \in Payments \cup {None}
      /\ p # None => payment[p] # None
  BY DEF AggregatePayment
<1>4. TypeOK'
  <2> DEFINE read == [sale |-> r, payment |-> p]
  <2>1. read \in Read
    BY <1>3 DEF Read
  <2> HIDE DEF read
  <2>2. reversing' \in [Requests -> Read \cup {None}]
    BY <1>2, <2>1 DEF read, TypeOK
  <2> QED BY <1>1, <2>2 DEF TypeOK, rows
<1>5. \A b \in Bills : BillInv(b)'
  BY <1>1, BillInvFrame DEF rows
<1>6. (\A q \in Payments : PaymentInv(q)') /\ RefundedOncePerBill'
  BY <1>1 DEF rows, PaymentInv, RefundedOncePerBill
<1>7. \A v \in Requests : ReadInv(v)'
  BY <1>1, <1>2, <1>3 DEF rows, ReadInv, TypeOK
<1> QED BY <1>4, <1>5, <1>6, <1>7

LEMMA ReverseSaleRollbackIInv ==
    ASSUME IInv, NEW w \in Requests, ReverseSaleRollback(w)
    PROVE  IInv'
<1> USE DEF IInv
<1>1. UNCHANGED rows /\ reversing' = [reversing EXCEPT ![w] = None]
  BY DEF ReverseSaleRollback
<1>2. TypeOK'
  BY <1>1 DEF rows, TypeOK
<1>3. \A b \in Bills : BillInv(b)'
  BY <1>1, BillInvFrame DEF rows
<1>4. (\A q \in Payments : PaymentInv(q)') /\ RefundedOncePerBill'
  BY <1>1 DEF rows, PaymentInv, RefundedOncePerBill
<1>5. \A v \in Requests : ReadInv(v)'
  BY <1>1 DEF rows, ReadInv, TypeOK
<1> QED BY <1>2, <1>3, <1>4, <1>5

LEMMA ReverseSaleWriteIInv ==
    ASSUME IInv, NEW w \in Requests, NEW b \in Bills, NEW r \in Rounds,
           NEW q \in Payments, ReverseSaleWrite(w, b, r, q)
    PROVE  IInv'
<1> USE DEF IInv
<1>1. reversing[w] # None /\ reversing[w] \in Read
  BY DEF ReverseSaleWrite, TypeOK
<1>2. PICK s \in Rounds : s = reversing[w].sale /\ sale[s] # None
  BY <1>1 DEF ReadInv, Read
<1>3. PICK p \in Payments \cup {None} :
        p = reversing[w].payment /\ (p # None => payment[p] # None)
  BY <1>1 DEF ReadInv, Read
<1>4. PICK original \in SaleRow : original = sale[s]
  BY <1>2 DEF TypeOK
<1>5. PICK qty \in [Variants -> Int] : qty = [v \in Variants |-> -original.qty[v]]
  <2>1. [v \in Variants |-> -original.qty[v]] \in [Variants -> Int]
    BY DEF SaleRow
  <2> QED BY <2>1
<1>6. PICK total \in Int : total = -original.total
  BY DEF SaleRow
<1>7. /\ InsertBill(b, "settled", FALSE, "reversal")
      /\ InsertSale(r, b, qty, total, s)
      /\ IF p = None THEN UNCHANGED <<payment, paid>>
                     ELSE InsertPayment(q, b, -payment[p].amount, p)
      /\ reversing' = [reversing EXCEPT ![w] = None]
      /\ writtenOff' = writtenOff
  BY <1>2, <1>3, <1>4, <1>5, <1>6 DEF ReverseSaleWrite
<1>8. /\ bill' \in [Bills -> BillRow \cup {None}]
      /\ bill[b] = None
      /\ bill'[b] # None
      /\ bill'[b] = [status |-> "settled", balance |-> 0, customer |-> FALSE, kind |-> "reversal"]
      /\ \A c \in Bills : c # b => bill'[c] = bill[c]
  BY <1>7, InsertBillType
<1>9. /\ sale' \in [Rounds -> SaleRow \cup {None}]
      /\ \A x \in Rounds : sale[x] # None => sale'[x] # None
      /\ salesTotal' \in [Bills -> Int]
      /\ onBill' \in [Bills -> [Variants -> Int]]
      /\ \A c \in Bills : c # b => salesTotal'[c] = salesTotal[c] /\ onBill'[c] = onBill[c]
  BY <1>7, InsertSaleType
<1>10. /\ payment' \in [Payments -> PaymentRow \cup {None}]
       /\ \A x \in Payments : payment[x] # None => payment'[x] # None
       /\ paid' \in [Bills -> Int]
       /\ \A c \in Bills : c # b => paid'[c] = paid[c]
       /\ \A c \in Bills, x \in Payments :
            c # b /\ payment'[x] # None /\ payment'[x].bill = c => payment'[x] = payment[x]
       /\ (\A x \in Payments : PaymentInv(x)') /\ RefundedOncePerBill'
  <2>1. CASE p = None
    <3>1. payment' = payment /\ paid' = paid
      BY <1>7, <2>1
    <3>2. (\A x \in Payments : PaymentInv(x)') /\ RefundedOncePerBill'
      BY <1>8, <3>1, PaymentInvFrame
    <3> QED BY <3>1, <3>2 DEF TypeOK
  <2>2. CASE p # None
    <3>1. payment[p].amount \in Int
      BY <1>3, <2>2 DEF TypeOK, PaymentRow
    <3>2. PICK refund \in Int : refund = -payment[p].amount
      BY <3>1
    <3>3. InsertPayment(q, b, refund, p)
      BY <1>7, <2>2, <3>2
    <3>4. /\ payment' \in [Payments -> PaymentRow \cup {None}]
          /\ payment[q] = None
          /\ payment'[q] = [bill |-> b, amount |-> refund, reversalOf |-> p]
          /\ \A x \in Payments : x # q => payment'[x] = payment[x]
          /\ paid' \in [Bills -> Int]
          /\ \A c \in Bills : c # b => paid'[c] = paid[c]
      BY <3>3, InsertPaymentType
    <3>5. bill'[b].kind = "reversal"
      BY <1>8
    <3>6. (\A x \in Payments : PaymentInv(x)') /\ RefundedOncePerBill'
      BY <1>8, <2>2, <3>4, <3>5, NewPaymentInv
    <3> QED BY <3>4, <3>6
  <2> QED BY <2>1, <2>2
<1>11. writtenOff' \in [Bills -> Nat] /\ reversing' \in [Requests -> Read \cup {None}]
  BY <1>7 DEF TypeOK
<1>12. TypeOK'
  BY <1>8, <1>9, <1>10, <1>11 DEF TypeOK
<1>13. BillInv(b)'
  BY <1>8 DEF BillInv
<1>14. \A c \in Bills : BillInv(c)'
  <2> SUFFICES ASSUME NEW c \in Bills, c # b PROVE BillInv(c)'
    BY <1>13
  <2> QED BY <1>7, <1>8, <1>9, <1>10, BillInvFrame
<1>15. \A v \in Requests : ReadInv(v)'
  BY <1>7, <1>9, <1>10 DEF ReadInv, TypeOK, Read
<1> QED BY <1>10, <1>12, <1>14, <1>15

LEMMA StutterIInv == ASSUME IInv, UNCHANGED vars PROVE IInv'
<1>1. \A b \in Bills : BillInv(b)'
  BY BillInvFrame DEF IInv, vars, rows
<1>2. TypeOK' /\ RefundedOncePerBill' /\ (\A p \in Payments : PaymentInv(p)')
      /\ \A w \in Requests : ReadInv(w)'
  BY DEF IInv, vars, rows, TypeOK, RefundedOncePerBill, PaymentInv, ReadInv
<1> QED BY <1>1, <1>2 DEF IInv

LEMMA NextIInv == IInv /\ [Next]_vars => IInv'
<1> SUFFICES ASSUME IInv, [Next]_vars PROVE IInv'
  OBVIOUS
<1>1. ASSUME NEW b \in Bills, NEW customer \in BOOLEAN, OpenBill(b, customer) PROVE IInv'
  BY <1>1, OpenBillIInv
<1>2. ASSUME NEW b \in Bills, NEW r \in Rounds, NEW p \in Payments, NEW cart \in Carts,
             NEW amount \in Amounts, CreateSale(b, r, p, cart, amount)
      PROVE  IInv'
  BY <1>2, CreateSaleIInv
<1>3. ASSUME NEW b \in Bills, NEW r \in Rounds, NEW cart \in Carts, AddSaleRound(b, r, cart)
      PROVE  IInv'
  BY <1>3, AddSaleRoundIInv
<1>4. ASSUME NEW r \in Rounds, ReplaySale(r) PROVE IInv'
  BY <1>4, StutterIInv DEF ReplaySale
<1>5. ASSUME NEW b \in Bills, NEW r \in Rounds, NEW v \in Variants, NEW quantity \in Quantities,
             NEW price \in Prices, RemoveBillItem(b, r, v, quantity, price)
      PROVE  IInv'
  BY <1>5, RemoveBillItemIInv
<1>6. ASSUME NEW b \in Bills, CloseBill(b) PROVE IInv'
  BY <1>6, CloseBillIInv
<1>7. ASSUME NEW b \in Bills, NEW p \in Payments, NEW amount \in Amounts,
             RecordPayment(b, p, amount)
      PROVE  IInv'
  BY <1>7, RecordPaymentIInv
<1>8. ASSUME NEW p \in Payments, NEW q \in Payments, ReversePayment(p, q) PROVE IInv'
  BY <1>8, ReversePaymentIInv
<1>9. ASSUME NEW b \in Bills, NEW amount \in Amounts, WriteOffBill(b, amount) PROVE IInv'
  BY <1>9, WriteOffBillIInv
<1>10. ASSUME NEW b \in Bills, VoidBill(b) PROVE IInv'
  BY <1>10, VoidBillIInv
<1>11. ASSUME NEW w \in Requests, NEW r \in Rounds, ReverseSaleRead(w, r) PROVE IInv'
  BY <1>11, ReverseSaleReadIInv
<1>12. ASSUME NEW w \in Requests, NEW b \in Bills, NEW r \in Rounds, NEW q \in Payments,
              ReverseSaleWrite(w, b, r, q)
       PROVE  IInv'
  BY <1>12, ReverseSaleWriteIInv
<1>13. ASSUME NEW w \in Requests, ReverseSaleRollback(w) PROVE IInv'
  BY <1>13, ReverseSaleRollbackIInv
<1>14. CASE UNCHANGED vars
  BY <1>14, StutterIInv
<1> QED
  BY <1>1, <1>2, <1>3, <1>4, <1>5, <1>6, <1>7, <1>8, <1>9, <1>10, <1>11, <1>12, <1>13, <1>14
  DEF Next

LEMMA InductiveInvariant == Spec => []IInv
<1>1. Init => IInv
  BY InitIInv
<1>2. IInv /\ [Next]_vars => IInv'
  BY NextIInv
<1> QED BY <1>1, <1>2, PTL DEF Spec
-----------------------------------------------------------------------------
(* What it gives.                                                          *)

\* The rows keep their types: no handler stores a balance, a status or a total
\* outside its column's domain.
THEOREM TypeCorrect == Spec => []TypeOK
<1>1. IInv => TypeOK
  BY DEF IInv
<1> QED BY <1>1, InductiveInvariant, PTL

\* Every tab's stored balance is its rounds less its payments less its
\* write-offs, however the bill handlers interleave.
THEOREM BalanceIsProjection == Spec => []ProjectionExact
<1>1. IInv => ProjectionExact
  BY DEF IInv, TypeOK, BillRow, BillInv, AsPosted, ProjectionExact
<1> QED BY <1>1, InductiveInvariant, PTL

\* No bill's stored balance is ever negative.
THEOREM BalanceNeverNegative == Spec => []NeverInCredit
<1>1. IInv => NeverInCredit
  BY DEF IInv, BillInv, NeverInCredit
<1> QED BY <1>1, InductiveInvariant, PTL

\* A bill that has left "open" is closed_unpaid exactly while it owes something.
THEOREM StatusFollowsBalance == Spec => []StatusMatchesBalance
<1>1. IInv => StatusMatchesBalance
  BY DEF IInv, BillInv, StatusMatchesBalance
<1> QED BY <1>1, InductiveInvariant, PTL

\* VoidBill never hides a payment or a write-off, although it reads neither.
THEOREM VoidIsEmpty == Spec => []VoidHidesNoMoney
<1>1. IInv => VoidHidesNoMoney
  BY DEF IInv, BillInv, VoidHidesNoMoney
<1> QED BY <1>1, InductiveInvariant, PTL

\* No sequence of removals takes more of a variant off a bill than was put on.
THEOREM RemovalsAreCapped == Spec => []NothingRemovedTwice
<1>1. IInv => NothingRemovedTwice
  BY DEF IInv, TypeOK, BillInv, NothingRemovedTwice
<1> QED BY <1>1, InductiveInvariant, PTL

\* ReversePayment gives no payment back twice on its bill.
THEOREM RefundsAreUnique == Spec => []RefundedOncePerBill
<1>1. IInv => RefundedOncePerBill
  BY DEF IInv
<1> QED BY <1>1, InductiveInvariant, PTL

-----------------------------------------------------------------------------
(* Tabs implements BillAccount.                                            *)

\* When one bill's row changes, that bill's account does and no other.
LEMMA AccountBecomes ==
    ASSUME NEW b \in Bills, bill'[b] # None, bill'[b].balance \in Nat,
           \A c \in Bills : c # b => bill'[c] = bill[c]
    PROVE  /\ accountOf'[b].owed = bill'[b].balance
           /\ accountOf'[b].status = bill'[b].status
           /\ Account!Becomes(b, bill'[b].status)
<1>1. accountOf'[b] = [status |-> bill'[b].status, owed |-> bill'[b].balance]
  BY DEF accountOf
<1>2. \A c \in Bills : c # b => accountOf'[c] = accountOf[c]
  BY DEF accountOf
<1>3. accountOf' = [accountOf EXCEPT ![b] = accountOf'[b]]
  <2> DEFINE new == accountOf'
  <2>1. new = [c \in Bills |-> new[c]] /\ accountOf = [c \in Bills |-> accountOf[c]]
    BY DEF accountOf
  <2> HIDE DEF new
  <2>2. new = [accountOf EXCEPT ![b] = new[b]]
    <3>1. DOMAIN new = Bills /\ DOMAIN accountOf = Bills
      BY DEF new, accountOf
    <3>2. \A c \in Bills : c # b => new[c] = accountOf[c]
      BY <1>2 DEF new
    <3> QED BY <2>1, <3>1, <3>2
  <2> QED BY <2>2 DEF new
<1> QED BY <1>1, <1>3 DEF Account!Becomes

\* The account of a bill that exists.
LEMMA AccountRow ==
    ASSUME NEW b \in Bills
    PROVE  /\ bill[b] # None => /\ accountOf[b].status = bill[b].status
                                /\ accountOf[b].owed = bill[b].balance
           /\ bill[b] = None => /\ accountOf[b].status = "none"
                                /\ accountOf[b].owed = 0
BY DEF accountOf

LEMMA InsertBillStep ==
    ASSUME TypeOK, NEW b \in Bills, NEW status \in {"open", "settled"},
           NEW customer \in BOOLEAN, NEW kind \in {"tab", "walkin", "reversal"},
           InsertBill(b, status, customer, kind)
    PROVE  Account!Open(b)
<1>1. /\ bill[b] = None
      /\ bill'[b] # None
      /\ bill'[b].status = status
      /\ bill'[b].balance = 0
      /\ \A c \in Bills : c # b => bill'[c] = bill[c]
  <2> DEFINE row == [status |-> status, balance |-> 0, customer |-> customer, kind |-> kind]
  <2>1. bill[b] = None /\ bill' = [bill EXCEPT ![b] = row] /\ bill \in [Bills -> BillRow \cup {None}]
    BY DEF InsertBill, TypeOK
  <2>2. row # None /\ row.status = status /\ row.balance = 0
    <3>1. row \in BillRow
      BY DEF BillRow
    <3> QED BY <3>1, NoneIsNoRow
  <2> HIDE DEF row
  <2> QED BY <2>1, <2>2
<1>2. accountOf[b].status = "none"
  BY <1>1, AccountRow
<1>3. Account!Becomes(b, status) /\ accountOf'[b].owed = 0
  BY <1>1, AccountBecomes
<1> QED BY <1>2, <1>3 DEF Account!Open

\* A recomputation that moves what an active bill owes is a charge or a credit.
LEMMA ActiveStep ==
    ASSUME IInv, IInv', NEW b \in Bills, Editable(b), RecomputeBillBalance(b),
           Owed(b)' # Owed(b)
    PROVE  Account!Charge(b) \/ Account!Credit(b)
<1>1. /\ bill[b] # None
      /\ bill[b] \in BillRow
      /\ bill[b].status \in {"open", "closed_unpaid"}
      /\ bill[b].balance = Owed(b)
      /\ bill[b].balance >= 0
  BY EditableExact DEF IInv, Editable
<1>2. /\ bill'[b] # None
      /\ bill'[b] \in BillRow
      /\ bill'[b].balance = Owed(b)'
      /\ bill'[b].status = DerivedStatus(bill[b].status, Owed(b)')
      /\ \A c \in Bills : c # b => bill'[c] = bill[c]
  BY <1>1, RecomputeType DEF IInv, TypeOK
<1>3. bill'[b].balance \in Nat /\ bill[b].balance \in Nat
  BY <1>1, <1>2 DEF IInv, BillInv, BillRow
<1>4. /\ accountOf'[b].owed = bill'[b].balance
      /\ Account!Becomes(b, bill'[b].status)
  BY <1>2, <1>3, AccountBecomes
<1>5. accountOf[b].status = bill[b].status /\ accountOf[b].owed = bill[b].balance
  BY <1>1, AccountRow
<1>6. CASE bill'[b].balance > bill[b].balance
  <2>1. bill'[b].status = bill[b].status
    BY <1>1, <1>2, <1>3, <1>6 DEF DerivedStatus
  <2> QED BY <1>1, <1>4, <1>5, <1>6, <2>1 DEF Account!Charge, Account!Active
<1>7. CASE bill'[b].balance < bill[b].balance
  <2>1. bill'[b].status = IF bill[b].status = "closed_unpaid" /\ bill'[b].balance = 0
                          THEN "settled" ELSE bill[b].status
    BY <1>1, <1>2 DEF DerivedStatus
  <2> QED BY <1>1, <1>4, <1>5, <1>7, <2>1 DEF Account!Credit, Account!Active
<1> QED BY <1>1, <1>2, <1>3, <1>6, <1>7

LEMMA AddSaleRoundStep ==
    ASSUME IInv, IInv', NEW b \in Bills, NEW r \in Rounds, NEW cart \in Carts,
           AddSaleRound(b, r, cart)
    PROVE  Account!Charge(b) \/ Account!Credit(b)
<1>1. /\ Editable(b) /\ RecomputeBillBalance(b)
      /\ InsertSale(r, b, cart.qty, cart.total, None)
      /\ UNCHANGED <<paid, writtenOff>>
  BY DEF AddSaleRound
<1>2. cart.qty \in [Variants -> Int] /\ cart.total \in Int
  OBVIOUS
<1>3. cart.total # 0 /\ salesTotal'[b] = salesTotal[b] + cart.total
  BY <1>1, <1>2, InsertSaleType DEF IInv
<1>4. Owed(b)' # Owed(b)
  <2>1. salesTotal[b] \in Int /\ paid[b] \in Int /\ writtenOff[b] \in Int
    BY DEF IInv, TypeOK
  <2>2. paid'[b] = paid[b] /\ writtenOff'[b] = writtenOff[b]
    BY <1>1
  <2> QED BY <1>2, <1>3, <2>1, <2>2 DEF Owed
<1> QED BY <1>1, <1>4, ActiveStep

LEMMA RemoveBillItemStep ==
    ASSUME IInv, IInv', NEW b \in Bills, NEW r \in Rounds, NEW v \in Variants,
           NEW quantity \in Quantities, NEW price \in Prices,
           RemoveBillItem(b, r, v, quantity, price)
    PROVE  Account!Charge(b) \/ Account!Credit(b)
<1>1. quantity \in Int /\ price \in Int
  OBVIOUS
<1>2. PICK total \in Int : total = -(quantity * price)
  BY <1>1
<1>3. PICK qty \in [Variants -> Int] : qty = [u \in Variants |-> IF u = v THEN -quantity ELSE 0]
  <2>1. [u \in Variants |-> IF u = v THEN -quantity ELSE 0] \in [Variants -> Int]
    BY <1>1
  <2> QED BY <2>1
<1>4. /\ Editable(b) /\ RecomputeBillBalance(b)
      /\ InsertSale(r, b, qty, total, None)
      /\ UNCHANGED <<paid, writtenOff>>
  BY <1>2, <1>3 DEF RemoveBillItem
<1>5. total # 0 /\ salesTotal'[b] = salesTotal[b] + total
  BY <1>4, InsertSaleType DEF IInv
<1>6. Owed(b)' # Owed(b)
  <2>1. salesTotal[b] \in Int /\ paid[b] \in Int /\ writtenOff[b] \in Int
    BY DEF IInv, TypeOK
  <2>2. paid'[b] = paid[b] /\ writtenOff'[b] = writtenOff[b]
    BY <1>4
  <2> QED BY <1>5, <2>1, <2>2 DEF Owed
<1> QED BY <1>4, <1>6, ActiveStep

LEMMA RecordPaymentStep ==
    ASSUME IInv, IInv', NEW b \in Bills, NEW p \in Payments, NEW amount \in Amounts,
           RecordPayment(b, p, amount)
    PROVE  Account!Charge(b) \/ Account!Credit(b)
<1>1. /\ Editable(b) /\ RecomputeBillBalance(b)
      /\ InsertPayment(p, b, amount, None)
      /\ UNCHANGED <<salesTotal, writtenOff>>
  BY DEF RecordPayment
<1>2. amount \in Int /\ amount > 0
  OBVIOUS
<1>3. paid'[b] = paid[b] + amount
  <2>1. paid' = [paid EXCEPT ![b] = @ + amount]
    BY <1>1 DEF InsertPayment
  <2>2. paid \in [Bills -> Int]
    BY DEF IInv, TypeOK
  <2> QED BY ONLY <2>1, <2>2, b \in Bills
<1>4. Owed(b)' # Owed(b)
  <2>1. salesTotal[b] \in Int /\ paid[b] \in Int /\ writtenOff[b] \in Int
    BY DEF IInv, TypeOK
  <2>2. salesTotal'[b] = salesTotal[b] /\ writtenOff'[b] = writtenOff[b]
    BY <1>1
  <2> QED BY <1>2, <1>3, <2>1, <2>2 DEF Owed
<1> QED BY <1>1, <1>4, ActiveStep

LEMMA WriteOffBillStep ==
    ASSUME IInv, IInv', NEW b \in Bills, NEW amount \in Amounts, WriteOffBill(b, amount)
    PROVE  Account!Charge(b) \/ Account!Credit(b)
<1>1. /\ Editable(b) /\ RecomputeBillBalance(b)
      /\ writtenOff' = [writtenOff EXCEPT ![b] = @ + amount]
      /\ UNCHANGED <<salesTotal, paid>>
  BY DEF WriteOffBill, Editable
<1>2. amount \in Int /\ amount > 0
  OBVIOUS
<1>3. Owed(b)' # Owed(b)
  BY <1>1, <1>2 DEF Owed, IInv, TypeOK
<1> QED BY <1>1, <1>3, ActiveStep
LEMMA ReversePaymentStep ==
    ASSUME IInv, IInv', NEW p \in Payments, NEW q \in Payments, ReversePayment(p, q)
    PROVE  \E b \in Bills : Account!Charge(b) \/ Account!Credit(b) \/ Account!Reopen(b)
<1>1. payment[p] # None /\ payment[p] \in PaymentRow
  BY DEF ReversePayment, IInv, TypeOK
<1>2. PICK b \in Bills : b = payment[p].bill
  BY <1>1 DEF PaymentRow
<1>3. PICK amount \in Int : amount = payment[p].amount
  BY <1>1 DEF PaymentRow
<1>4. PICK refund \in Int : refund = -amount
  BY <1>3
<1>5. /\ InsertPayment(q, b, refund, p)
      /\ UNCHANGED <<salesTotal, writtenOff>>
      /\ RecomputeBillBalance(b)
      /\ bill[b].status # "void"
  BY <1>2, <1>3, <1>4 DEF ReversePayment
<1>6. /\ amount > 0
      /\ bill[b] # None
      /\ bill[b].kind # "reversal"
  BY <1>1, <1>2, <1>3 DEF ReversePayment, IInv, PaymentInv
<1>7. TypeOK /\ TypeOK' /\ BillInv(b) /\ BillInv(b)'
  BY DEF IInv
<1>8. Owed(b)' = Owed(b) + amount
  <2>1. paid'[b] = paid[b] + refund
    <3>1. paid' = [paid EXCEPT ![b] = @ + refund]
      BY <1>5 DEF InsertPayment
    <3> QED BY <3>1, <1>7 DEF TypeOK
  <2>2. salesTotal[b] \in Int /\ paid[b] \in Int /\ writtenOff[b] \in Int
    BY <1>7 DEF TypeOK
  <2>3. salesTotal'[b] = salesTotal[b] /\ writtenOff'[b] = writtenOff[b]
    BY <1>5
  <2> QED BY <1>4, <2>1, <2>2, <2>3 DEF Owed
<1>9. Owed(b) \in Int
  BY <1>7 DEF Owed, TypeOK
<1>10. CASE Editable(b)
  <2>1. Owed(b)' # Owed(b)
    BY <1>6, <1>8, <1>9
  <2> QED BY <1>5, <1>10, <2>1, ActiveStep
<1>11. CASE ~Editable(b)
  <2>1. bill[b].status = "settled"
    BY <1>5, <1>6, <1>7, <1>11 DEF Editable, TypeOK, BillRow
  <2>2. bill[b].balance = 0
    BY <1>6, <1>7, <2>1 DEF BillInv
  <2>3. Owed(b)' > 0
    <3>1. CASE bill[b].balance = Owed(b)
      BY <1>6, <1>8, <2>2, <3>1
    <3>2. CASE AsPosted(b)
      <4>1. payment[p].amount = paid[b]
        BY <1>1, <1>2, <3>2 DEF AsPosted
      <4>2. salesTotal[b] > 0 /\ writtenOff[b] = 0
        BY <3>2 DEF AsPosted
      <4>3. salesTotal[b] \in Int /\ paid[b] \in Int
        BY <1>7 DEF TypeOK
      <4> QED BY <1>3, <1>8, <4>1, <4>2, <4>3 DEF Owed
    <3> QED BY <1>6, <1>7, <3>1, <3>2 DEF BillInv
  <2>4. /\ bill'[b] # None
        /\ bill'[b].balance = Owed(b)'
        /\ bill'[b].status = DerivedStatus(bill[b].status, Owed(b)')
        /\ \A c \in Bills : c # b => bill'[c] = bill[c]
    BY <1>5, <1>6, <1>7, RecomputeType DEF TypeOK
  <2>5. bill'[b].status = "closed_unpaid"
    BY <2>1, <2>3, <2>4 DEF DerivedStatus
  <2>6. bill'[b].balance \in Nat
    BY <1>8, <1>9, <2>3, <2>4
  <2>7. accountOf'[b].owed = bill'[b].balance /\ Account!Becomes(b, bill'[b].status)
    BY <2>4, <2>6, AccountBecomes
  <2>8. accountOf[b].status = "settled"
    BY <1>6, <2>1, AccountRow
  <2>9. Account!Reopen(b)
    BY <2>3, <2>4, <2>5, <2>7, <2>8 DEF Account!Reopen
  <2> QED BY <2>9
<1> QED BY <1>10, <1>11

LEMMA CloseBillStep ==
    ASSUME IInv, NEW b \in Bills, CloseBill(b)
    PROVE  Account!Close(b)
<1>1. TypeOK /\ BillInv(b)
  BY DEF IInv
<1>2. PICK balance \in Int : balance = salesTotal[b] - paid[b]
  BY <1>1 DEF TypeOK
<1>3. PICK status \in {"settled", "closed_unpaid"} :
        status = IF balance = 0 THEN "settled" ELSE "closed_unpaid"
  OBVIOUS
<1>4. /\ bill[b] # None
      /\ bill[b].status = "open"
      /\ UpdateBillBalanceAndStatus(b, balance, status)
  BY <1>2, <1>3 DEF CloseBill
<1>5. /\ bill[b].balance = Owed(b)
      /\ bill[b].balance >= 0
      /\ writtenOff[b] = 0
  BY <1>1, <1>4, EditableExact DEF Editable
<1>6. balance = bill[b].balance /\ balance \in Nat
  BY <1>1, <1>2, <1>5 DEF Owed, TypeOK
<1>7. /\ bill'[b] # None
      /\ bill'[b].balance = balance
      /\ bill'[b].status = status
      /\ \A c \in Bills : c # b => bill'[c] = bill[c]
  BY <1>1, <1>4, UpdateBillType
<1>8. accountOf'[b].owed = balance /\ Account!Becomes(b, status)
  BY <1>6, <1>7, AccountBecomes
<1>9. accountOf[b].status = "open" /\ accountOf[b].owed = balance
  BY <1>4, <1>6, AccountRow
<1> QED BY <1>3, <1>8, <1>9 DEF Account!Close

LEMMA VoidBillStep ==
    ASSUME IInv, NEW b \in Bills, VoidBill(b)
    PROVE  Account!Void(b)
<1>1. TypeOK /\ bill[b].status = "open"
  BY VoidBillIInv DEF IInv
<1>2. /\ bill[b] # None
      /\ bill[b].balance = 0
      /\ UpdateBillBalanceAndStatus(b, 0, "void")
  BY DEF VoidBill, Editable
<1>3. /\ bill'[b] # None
      /\ bill'[b].balance = 0
      /\ bill'[b].status = "void"
      /\ \A c \in Bills : c # b => bill'[c] = bill[c]
  BY <1>1, <1>2, UpdateBillType
<1>4. accountOf'[b].owed = 0 /\ Account!Becomes(b, "void")
  BY <1>3, AccountBecomes
<1>5. accountOf[b].status = "open" /\ accountOf[b].owed = 0
  BY <1>1, <1>2, AccountRow
<1> QED BY <1>4, <1>5 DEF Account!Void

LEMMA RefinementStep ==
    ASSUME IInv, IInv', [Next]_vars PROVE Account!Next \/ UNCHANGED accountOf
<1> USE DEF Account!Next
<1>1. ASSUME NEW b \in Bills, NEW customer \in BOOLEAN, OpenBill(b, customer)
      PROVE  Account!Open(b)
  BY <1>1, InsertBillStep DEF OpenBill, IInv
<1>2. ASSUME NEW b \in Bills, NEW r \in Rounds, NEW p \in Payments, NEW cart \in Carts,
             NEW amount \in Amounts, CreateSale(b, r, p, cart, amount)
      PROVE  Account!Open(b)
  BY <1>2, InsertBillStep DEF CreateSale, IInv
<1>3. ASSUME NEW b \in Bills, NEW r \in Rounds, NEW cart \in Carts, AddSaleRound(b, r, cart)
      PROVE  Account!Charge(b) \/ Account!Credit(b)
  BY <1>3, AddSaleRoundStep
<1>4. ASSUME NEW r \in Rounds, ReplaySale(r) PROVE UNCHANGED accountOf
  BY <1>4 DEF ReplaySale, vars, rows, accountOf
<1>5. ASSUME NEW b \in Bills, NEW r \in Rounds, NEW v \in Variants, NEW quantity \in Quantities,
             NEW price \in Prices, RemoveBillItem(b, r, v, quantity, price)
      PROVE  Account!Charge(b) \/ Account!Credit(b)
  BY <1>5, RemoveBillItemStep
<1>6. ASSUME NEW b \in Bills, CloseBill(b) PROVE Account!Close(b)
  BY <1>6, CloseBillStep
<1>7. ASSUME NEW b \in Bills, NEW p \in Payments, NEW amount \in Amounts,
             RecordPayment(b, p, amount)
      PROVE  Account!Charge(b) \/ Account!Credit(b)
  BY <1>7, RecordPaymentStep
<1>8. ASSUME NEW p \in Payments, NEW q \in Payments, ReversePayment(p, q)
      PROVE  \E b \in Bills : Account!Charge(b) \/ Account!Credit(b) \/ Account!Reopen(b)
  BY <1>8, ReversePaymentStep
<1>9. ASSUME NEW b \in Bills, NEW amount \in Amounts, WriteOffBill(b, amount)
      PROVE  Account!Charge(b) \/ Account!Credit(b)
  BY <1>9, WriteOffBillStep
<1>10. ASSUME NEW b \in Bills, VoidBill(b) PROVE Account!Void(b)
  BY <1>10, VoidBillStep
<1>11. ASSUME NEW w \in Requests, NEW r \in Rounds, ReverseSaleRead(w, r)
       PROVE  UNCHANGED accountOf
  BY <1>11 DEF ReverseSaleRead, rows, accountOf
<1>12. ASSUME NEW w \in Requests, NEW b \in Bills, NEW r \in Rounds, NEW q \in Payments,
              ReverseSaleWrite(w, b, r, q)
       PROVE  Account!Open(b)
  BY <1>12, InsertBillStep DEF ReverseSaleWrite, IInv
<1>13. ASSUME NEW w \in Requests, ReverseSaleRollback(w) PROVE UNCHANGED accountOf
  BY <1>13 DEF ReverseSaleRollback, rows, accountOf
<1>14. CASE UNCHANGED vars
  BY <1>14 DEF vars, rows, accountOf
<1> QED
  BY <1>1, <1>2, <1>3, <1>4, <1>5, <1>6, <1>7, <1>8, <1>9, <1>10, <1>11, <1>12, <1>13, <1>14
  DEF Next

\* The bill handlers implement the account: every call is an account's opening,
\* charge, credit, reopening, closing or voiding, or leaves all accounts alone.
THEOREM Refinement == Spec => ImplementsAccount
<1>1. Init => Account!Init
  BY DEF Init, Account!Init, accountOf
<1>2. IInv /\ IInv' /\ [Next]_vars => [Account!Next]_accountOf
  BY RefinementStep
<1> QED BY <1>1, <1>2, InductiveInvariant, PTL DEF Spec, ImplementsAccount, Account!Spec

\* Only an open bill is ever voided.
THEOREM VoidedOnlyWhileOpen == Spec => VoidedWhileOpen
<1>1. ASSUME IInv, IInv', [Next]_vars, NEW b \in Bills,
             bill[b] # None, bill'[b] # None, bill'[b].status = "void"
      PROVE  bill[b].status \in {"open", "void"}
  <2>1. accountOf[b].status = bill[b].status /\ accountOf'[b].status = "void"
    BY <1>1 DEF accountOf
  <2>2. CASE UNCHANGED accountOf
    BY <2>1, <2>2
  <2>3. CASE Account!Next
    <3>1. \A c \in Bills, s \in {"none", "open", "closed_unpaid", "settled", "void"} :
            Account!Becomes(c, s) => IF c = b THEN s = "void" ELSE accountOf[b].status = "void"
      BY <2>1 DEF Account!Becomes, accountOf
    <3>2. accountOf[b].status \in {"none", "open", "closed_unpaid", "settled", "void"}
      BY <1>1 DEF accountOf, IInv, TypeOK, BillRow
    <3> QED BY <2>1, <2>3, <3>1, <3>2
            DEF Account!Next, Account!Open, Account!Charge, Account!Credit, Account!Reopen,
                Account!Close, Account!Void, Account!Active
  <2> QED BY <1>1, <2>2, <2>3, RefinementStep
<1>2. IInv /\ IInv' /\ [Next]_vars
      => [\A b \in Bills : bill[b] # None /\ bill'[b] # None /\ bill'[b].status = "void"
                           => bill[b].status \in {"open", "void"}]_vars
  BY <1>1
<1> QED BY <1>2, InductiveInvariant, PTL DEF Spec, VoidedWhileOpen

\* Whoever uses the account of b leaves the others alone.
LEMMA BecomesSound ==
    ASSUME Account!Sound, NEW b \in Bills, NEW status \in Account!Statuses, Account!Becomes(b, status)
    PROVE  /\ accountOf' \in [Bills -> [status: Account!Statuses, owed: Nat]]
           /\ accountOf'[b].status = status
           /\ \A c \in Bills \ {b} : accountOf'[c] = accountOf[c]
<1>1. PICK n \in Nat :
        accountOf' = [accountOf EXCEPT ![b] = [status |-> status, owed |-> n]]
  BY DEF Account!Becomes
<1> QED BY <1>1 DEF Account!Sound

\* An amount owed is never negative, and the status of an account that is no
\* longer open says whether it owes anything: the promise the statuses of
\* internal/sales/tabs.go make to the bar.
THEOREM AccountSound == Account!Spec => []Account!Sound
<1>1. Account!Init => Account!Sound
  BY DEF Account!Init, Account!Sound, Account!Statuses
<1>2. ASSUME Account!Sound, Account!Next PROVE Account!Sound'
  <2> PICK b \in Bills : Account!Open(b) \/ Account!Charge(b) \/ Account!Credit(b) \/ Account!Reopen(b) \/ Account!Close(b) \/ Account!Void(b)
    BY <1>2 DEF Account!Next
  <2>1. SUFFICES
          ASSUME NEW status \in Account!Statuses, Account!Becomes(b, status),
                 status # "open" => (accountOf'[b].owed > 0 <=> status = "closed_unpaid")
          PROVE  Account!Sound'
    <3>1. accountOf[b].status \in Account!Statuses /\ accountOf[b].owed \in Nat
      BY <1>2 DEF Account!Sound
    <3>2. accountOf[b].status # "open"
          => (accountOf[b].owed > 0 <=> accountOf[b].status = "closed_unpaid")
      BY <1>2 DEF Account!Sound
    <3>3. \A status : Account!Becomes(b, status) => accountOf'[b].owed \in Nat
      BY DEF Account!Becomes
    <3>4. CASE Account!Open(b)
      BY <2>1, <3>4 DEF Account!Open, Account!Statuses
    <3>5. CASE Account!Charge(b)
      <4>1. accountOf'[b].owed \in Nat
        BY <3>3, <3>5 DEF Account!Charge
      <4> QED BY <2>1, <3>1, <3>2, <3>5, <4>1 DEF Account!Charge, Account!Active
    <3>6. CASE Account!Credit(b)
      <4>1. accountOf'[b].owed \in Nat
        BY <3>3, <3>6 DEF Account!Credit
      <4> QED BY <2>1, <3>1, <3>6, <4>1 DEF Account!Credit, Account!Active, Account!Statuses
    <3>7. CASE Account!Reopen(b)
      BY <2>1, <3>7 DEF Account!Reopen, Account!Statuses
    <3>8. CASE Account!Close(b)
      BY <2>1, <3>1, <3>8 DEF Account!Close, Account!Statuses
    <3>9. CASE Account!Void(b)
      BY <2>1, <3>9 DEF Account!Void, Account!Statuses
    <3> QED BY <3>4, <3>5, <3>6, <3>7, <3>8, <3>9
  <2>2. /\ accountOf' \in [Bills -> [status: Account!Statuses, owed: Nat]]
        /\ accountOf'[b].status = status
        /\ \A c \in Bills \ {b} : accountOf'[c] = accountOf[c]
    BY <1>2, <2>1, BecomesSound
  <2>3. ASSUME NEW c \in Bills
        PROVE  accountOf'[c].status # "open"
               => (accountOf'[c].owed > 0 <=> accountOf'[c].status = "closed_unpaid")
    BY <1>2, <2>1, <2>2 DEF Account!Sound
  <2> QED BY <2>2, <2>3 DEF Account!Sound
<1>3. Account!Sound /\ UNCHANGED accountOf => Account!Sound'
  BY DEF Account!Sound
<1> QED BY <1>1, <1>2, <1>3, PTL DEF Account!Spec

\* Of all the calls only ReversePayment takes a bill out of "settled".
LEMMA OnlyRefundsReopen ==
    ASSUME IInv, [Next]_vars, NEW b \in Bills,
           bill[b] # None, bill[b].status = "settled", bill'[b].status # "settled"
    PROVE  \E p, q \in Payments : ReversePayment(p, q) /\ payment[p].bill = b
<1>1. bill \in [Bills -> BillRow \cup {None}]
  BY DEF IInv, TypeOK
<1>2. \A c \in Bills : \A balance, status : UpdateBillBalanceAndStatus(c, balance, status) => c = b
  BY <1>1 DEF UpdateBillBalanceAndStatus
<1>3. \A c \in Bills : \A status, customer, kind : ~InsertBill(c, status, customer, kind)
  BY <1>1 DEF InsertBill
<1>4. ~Editable(b)
  BY DEF Editable
<1>5. \A c \in Bills : RecomputeBillBalance(c) => c = b
  BY <1>2 DEF RecomputeBillBalance
<1>6. ~UNCHANGED bill
  OBVIOUS
<1>7. ASSUME NEW p \in Payments, NEW q \in Payments, ReversePayment(p, q)
      PROVE  ReversePayment(p, q) /\ payment[p].bill = b
  <2>1. payment[p].bill \in Bills /\ RecomputeBillBalance(payment[p].bill)
    BY <1>7 DEF ReversePayment, IInv, TypeOK, PaymentRow
  <2> QED BY <1>5, <1>7, <2>1
<1>8. \A c \in Bills, customer \in BOOLEAN : ~OpenBill(c, customer)
  BY <1>3 DEF OpenBill
<1>9. \A c \in Bills, r \in Rounds, p \in Payments, cart \in Carts, amount \in Amounts :
        ~CreateSale(c, r, p, cart, amount)
  BY <1>3 DEF CreateSale
<1>10. \A c \in Bills, r \in Rounds, cart \in Carts : ~AddSaleRound(c, r, cart)
  BY <1>4, <1>5 DEF AddSaleRound
<1>11. \A r \in Rounds : ~ReplaySale(r)
  BY <1>6 DEF ReplaySale, vars, rows
<1>12. \A c \in Bills, r \in Rounds, v \in Variants, quantity \in Quantities, price \in Prices :
         ~RemoveBillItem(c, r, v, quantity, price)
  BY <1>4, <1>5 DEF RemoveBillItem
<1>13. \A c \in Bills : ~CloseBill(c)
  BY <1>2 DEF CloseBill
<1>14. \A c \in Bills, p \in Payments, amount \in Amounts : ~RecordPayment(c, p, amount)
  BY <1>4, <1>5 DEF RecordPayment
<1>15. \A c \in Bills, amount \in Amounts : ~WriteOffBill(c, amount)
  BY <1>5 DEF WriteOffBill
<1>16. \A c \in Bills : ~VoidBill(c)
  BY <1>2, <1>4 DEF VoidBill
<1>17. \A w \in Requests, r \in Rounds : ~ReverseSaleRead(w, r)
  BY <1>6 DEF ReverseSaleRead, rows
<1>18. \A w \in Requests, c \in Bills, r \in Rounds, q \in Payments : ~ReverseSaleWrite(w, c, r, q)
  BY <1>3 DEF ReverseSaleWrite
<1>19. \A w \in Requests : ~ReverseSaleRollback(w)
  BY <1>6 DEF ReverseSaleRollback, rows
<1>20. ~UNCHANGED vars
  BY <1>6 DEF vars, rows
<1> QED
  BY <1>7, <1>8, <1>9, <1>10, <1>11, <1>12, <1>13, <1>14, <1>15, <1>16, <1>17, <1>18, <1>19, <1>20
  DEF Next

\* Nothing but money given back puts a settled bill to unpaid again, and then it
\* owes something: no round, removal or closing ever does (recomputeBillBalance).
THEOREM ReopenedOnlyByRefund == Spec => ReopenedByRefundOnly
<1>1. ASSUME IInv, IInv', [Next]_vars, NEW b \in Bills,
             bill[b] # None, bill[b].status = "settled", bill'[b].status # "settled"
      PROVE  /\ bill'[b].status = "closed_unpaid"
             /\ bill'[b].balance > 0
             /\ paid'[b] < paid[b]
             /\ salesTotal'[b] = salesTotal[b]
  <2>1. PICK p \in Payments, q \in Payments : ReversePayment(p, q) /\ payment[p].bill = b
    BY <1>1, OnlyRefundsReopen
  <2>2. /\ payment[p] # None /\ payment[p].amount \in Int /\ payment[p].amount > 0
        /\ InsertPayment(q, b, -payment[p].amount, p) /\ salesTotal' = salesTotal
        /\ RecomputeBillBalance(b)
    BY <1>1, <2>1 DEF ReversePayment, IInv, TypeOK, PaymentRow, PaymentInv
  <2>3. paid'[b] = paid[b] - payment[p].amount /\ paid[b] \in Int
    <3>1. paid' = [paid EXCEPT ![b] = @ + (-payment[p].amount)]
      BY <2>2 DEF InsertPayment
    <3>2. paid \in [Bills -> Int]
      BY <1>1 DEF IInv, TypeOK
    <3> QED BY <2>2, <3>1, <3>2
  <2>4. bill'[b] # None /\ bill'[b].status = DerivedStatus("settled", Owed(b)')
    BY <1>1, <2>2, RecomputeType DEF IInv, TypeOK
  <2>5. bill'[b].status = "closed_unpaid"
    BY <1>1, <2>4 DEF DerivedStatus
  <2>6. BillInv(b)' /\ bill'[b].balance \in Int
    BY <1>1, <2>4 DEF IInv, TypeOK, BillRow
  <2>7. bill'[b].balance > 0
    BY <2>4, <2>5, <2>6 DEF BillInv
  <2> QED BY <2>2, <2>3, <2>5, <2>7
<1>2. IInv /\ IInv' /\ [Next]_vars
      => [\A b \in Bills :
            /\ bill[b] # None
            /\ bill[b].status = "settled"
            /\ bill'[b].status # "settled"
            => /\ bill'[b].status = "closed_unpaid"
               /\ bill'[b].balance > 0
               /\ paid'[b] < paid[b]
               /\ salesTotal'[b] = salesTotal[b]]_vars
  BY <1>1
<1> QED BY <1>2, InductiveInvariant, PTL DEF Spec, ReopenedByRefundOnly

-----------------------------------------------------------------------------
(* Why running totals may stand for the queries.  The code keeps none: it  *)
(* asks the database for SUMs.  That the variables of Tabs are those sums  *)
(* says nothing of the program, only that the model may use them.          *)

SalesOf(b) == {r \in Rounds : sale[r] # None /\ sale[r].bill = b}
PaymentsOf(b) == {p \in Payments : payment[p] # None /\ payment[p].bill = b}

TotalsAreSums ==
    \A b \in Bills :
        /\ salesTotal[b] = SumOver([r \in SalesOf(b) |-> sale[r].total], SalesOf(b))
        /\ paid[b] = SumOver([p \in PaymentsOf(b) |-> payment[p].amount], PaymentsOf(b))
        /\ \A v \in Variants :
              onBill[b][v] = SumOver([r \in SalesOf(b) |-> sale[r].qty[v]], SalesOf(b))

SalesCounted ==
    \A b \in Bills :
        /\ IsFiniteSet(SalesOf(b))
        /\ salesTotal[b] = SumOver([r \in SalesOf(b) |-> sale[r].total], SalesOf(b))
        /\ \A v \in Variants :
              onBill[b][v] = SumOver([r \in SalesOf(b) |-> sale[r].qty[v]], SalesOf(b))

PaymentsCounted ==
    \A b \in Bills :
        /\ IsFiniteSet(PaymentsOf(b))
        /\ paid[b] = SumOver([p \in PaymentsOf(b) |-> payment[p].amount], PaymentsOf(b))

LEMMA InsertSaleCounted ==
    ASSUME TypeOK, SalesCounted, NEW r \in Rounds, NEW b \in Bills,
           NEW qty \in [Variants -> Int], NEW total \in Int,
           NEW original \in Rounds \cup {None}, InsertSale(r, b, qty, total, original)
    PROVE  SalesCounted'
<1> DEFINE row == [bill |-> b, qty |-> qty, total |-> total, reversalOf |-> original]
<1>1. row.bill = b /\ row.qty = qty /\ row.total = total /\ row # None
  BY DEF SaleRow
<1>2. sale[r] = None /\ sale' = [sale EXCEPT ![r] = row]
  BY DEF InsertSale
<1> HIDE DEF row
<1>3. \A s \in Rounds : sale'[s] = IF s = r THEN row ELSE sale[s]
  BY <1>2 DEF TypeOK
<1>4. SalesOf(b)' = SalesOf(b) \cup {r} /\ r \notin SalesOf(b)
  BY <1>1, <1>2, <1>3 DEF SalesOf
<1>5. \A c \in Bills : c # b => SalesOf(c)' = SalesOf(c)
  BY <1>1, <1>2, <1>3 DEF SalesOf
<1>6. \A c \in Bills : \A s \in SalesOf(c) :
        s # r /\ sale'[s] = sale[s] /\ sale[s].total \in Int /\ sale[s].qty \in [Variants -> Int]
  BY <1>2, <1>3 DEF SalesOf, TypeOK, SaleRow
<1>7. /\ salesTotal'[b] = salesTotal[b] + total
      /\ \A v \in Variants : onBill'[b][v] = onBill[b][v] + qty[v]
      /\ \A c \in Bills : c # b => salesTotal'[c] = salesTotal[c] /\ onBill'[c] = onBill[c]
  BY InsertSaleType
<1>8. /\ IsFiniteSet(SalesOf(b)')
      /\ salesTotal'[b] = SumOver([s \in SalesOf(b)' |-> sale'[s].total], SalesOf(b)')
  <2> DEFINE f == [s \in SalesOf(b) |-> sale[s].total]
             g == [s \in SalesOf(b)' |-> sale'[s].total]
  <2>1. \A s \in SalesOf(b) : f[s] \in Int /\ g[s] = f[s]
    BY <1>4, <1>6
  <2>2. g[r] = total
    BY <1>1, <1>3, <1>4
  <2>3. IsFiniteSet(SalesOf(b)) /\ salesTotal[b] = SumOver(f, SalesOf(b))
    BY DEF SalesCounted
  <2> HIDE DEF f, g
  <2>4. IsFiniteSet(SalesOf(b)') /\ SumOver(g, SalesOf(b)') = SumOver(f, SalesOf(b)) + g[r]
    <3>1. OneMore(SalesOf(b)', SalesOf(b), r)
      BY <1>4, <2>3 DEF OneMore
    <3>2. Keeps(g, f, SalesOf(b), r)
      BY <2>1, <2>2 DEF Keeps
    <3> QED BY ONLY <3>1, <3>2, SumOfOneMore
  <2>5. salesTotal'[b] = SumOver(g, SalesOf(b)')
    BY <1>7, <2>2, <2>3, <2>4
  <2> QED BY <2>4, <2>5 DEF g
<1>9. ASSUME NEW v \in Variants
      PROVE  onBill'[b][v] = SumOver([s \in SalesOf(b)' |-> sale'[s].qty[v]], SalesOf(b)')
  <2> DEFINE f == [s \in SalesOf(b) |-> sale[s].qty[v]]
             g == [s \in SalesOf(b)' |-> sale'[s].qty[v]]
  <2>1. \A s \in SalesOf(b) : f[s] \in Int /\ g[s] = f[s]
    BY <1>4, <1>6
  <2>2. g[r] = qty[v]
    BY <1>1, <1>3, <1>4
  <2>3. IsFiniteSet(SalesOf(b)) /\ onBill[b][v] = SumOver(f, SalesOf(b))
    BY DEF SalesCounted
  <2>4. g[r] \in Int /\ IsFiniteSet(SalesOf(b))
    <3> qty[v] \in Int
      OBVIOUS
    <3> QED BY <2>2, <2>3
  <2> HIDE DEF f, g
  <2>5. IsFiniteSet(SalesOf(b)') /\ SumOver(g, SalesOf(b)') = SumOver(f, SalesOf(b)) + g[r]
    <3>1. OneMore(SalesOf(b)', SalesOf(b), r)
      BY <1>4, <2>4 DEF OneMore
    <3>2. Keeps(g, f, SalesOf(b), r)
      BY <2>1, <2>4 DEF Keeps
    <3> QED BY ONLY <3>1, <3>2, SumOfOneMore
  <2>6. onBill'[b][v] = SumOver(g, SalesOf(b)')
    BY <1>7, <2>2, <2>3, <2>5
  <2> QED BY <2>6 DEF g
<1>10. ASSUME NEW c \in Bills, c # b
       PROVE  /\ IsFiniteSet(SalesOf(c)')
              /\ salesTotal'[c] = SumOver([s \in SalesOf(c)' |-> sale'[s].total], SalesOf(c)')
              /\ \A v \in Variants :
                    onBill'[c][v] = SumOver([s \in SalesOf(c)' |-> sale'[s].qty[v]], SalesOf(c)')
  <2>1. SalesOf(c)' = SalesOf(c) /\ \A s \in SalesOf(c) : sale'[s] = sale[s]
    BY <1>5, <1>6, <1>10
  <2>2. /\ IsFiniteSet(SalesOf(c)')
        /\ salesTotal'[c] = SumOver([s \in SalesOf(c)' |-> sale'[s].total], SalesOf(c)')
    <3>1. [s \in SalesOf(c)' |-> sale'[s].total] = [s \in SalesOf(c) |-> sale[s].total]
      BY <2>1
    <3>2. /\ IsFiniteSet(SalesOf(c))
          /\ salesTotal[c] = SumOver([s \in SalesOf(c) |-> sale[s].total], SalesOf(c))
      BY DEF SalesCounted
    <3> QED BY <1>7, <1>10, <2>1, <3>1, <3>2
  <2>3. ASSUME NEW v \in Variants
        PROVE  onBill'[c][v] = SumOver([s \in SalesOf(c)' |-> sale'[s].qty[v]], SalesOf(c)')
    <3>1. [s \in SalesOf(c)' |-> sale'[s].qty[v]] = [s \in SalesOf(c) |-> sale[s].qty[v]]
      BY <2>1
    <3>2. onBill[c][v] = SumOver([s \in SalesOf(c) |-> sale[s].qty[v]], SalesOf(c))
      BY DEF SalesCounted
    <3> QED BY <1>7, <1>10, <2>1, <3>1, <3>2
  <2> QED BY <2>2, <2>3
<1> QED BY <1>8, <1>9, <1>10 DEF SalesCounted

LEMMA InsertPaymentCounted ==
    ASSUME TypeOK, PaymentsCounted, NEW p \in Payments, NEW b \in Bills, NEW amount \in Int,
           NEW original \in Payments \cup {None}, InsertPayment(p, b, amount, original)
    PROVE  PaymentsCounted'
<1> DEFINE row == [bill |-> b, amount |-> amount, reversalOf |-> original]
<1>1. row.bill = b /\ row.amount = amount /\ row # None
  BY DEF PaymentRow
<1>2. /\ payment[p] = None /\ payment' = [payment EXCEPT ![p] = row]
      /\ paid'[b] = paid[b] + amount /\ \A c \in Bills : c # b => paid'[c] = paid[c]
  BY DEF InsertPayment, TypeOK
<1> HIDE DEF row
<1>3. \A q \in Payments : payment'[q] = IF q = p THEN row ELSE payment[q]
  BY <1>2 DEF TypeOK
<1>4. PaymentsOf(b)' = PaymentsOf(b) \cup {p} /\ p \notin PaymentsOf(b)
  BY <1>1, <1>2, <1>3 DEF PaymentsOf
<1>5. \A c \in Bills : c # b => PaymentsOf(c)' = PaymentsOf(c)
  BY <1>1, <1>2, <1>3 DEF PaymentsOf
<1>6. \A c \in Bills : \A q \in PaymentsOf(c) :
        q # p /\ payment'[q] = payment[q] /\ payment[q].amount \in Int
  BY <1>2, <1>3 DEF PaymentsOf, TypeOK, PaymentRow
<1>7. /\ IsFiniteSet(PaymentsOf(b)')
      /\ paid'[b] = SumOver([q \in PaymentsOf(b)' |-> payment'[q].amount], PaymentsOf(b)')
  <2> DEFINE f == [q \in PaymentsOf(b) |-> payment[q].amount]
             g == [q \in PaymentsOf(b)' |-> payment'[q].amount]
  <2>1. \A q \in PaymentsOf(b) : f[q] \in Int /\ g[q] = f[q]
    BY <1>4, <1>6
  <2>2. g[p] = amount /\ g[p] \in Int
    BY <1>1, <1>3, <1>4
  <2>3. IsFiniteSet(PaymentsOf(b)) /\ paid[b] = SumOver(f, PaymentsOf(b))
    BY DEF PaymentsCounted
  <2> HIDE DEF f, g
  <2>4. IsFiniteSet(PaymentsOf(b)') /\ SumOver(g, PaymentsOf(b)') = SumOver(f, PaymentsOf(b)) + g[p]
    <3>1. OneMore(PaymentsOf(b)', PaymentsOf(b), p)
      BY <1>4, <2>3 DEF OneMore
    <3>2. Keeps(g, f, PaymentsOf(b), p)
      BY <2>1, <2>2 DEF Keeps
    <3> QED BY ONLY <3>1, <3>2, SumOfOneMore
  <2>5. paid'[b] = SumOver(g, PaymentsOf(b)')
    BY <1>2, <2>2, <2>3, <2>4
  <2> QED BY <2>4, <2>5 DEF g
<1>8. ASSUME NEW c \in Bills, c # b
      PROVE  /\ IsFiniteSet(PaymentsOf(c)')
             /\ paid'[c] = SumOver([q \in PaymentsOf(c)' |-> payment'[q].amount], PaymentsOf(c)')
  <2>1. PaymentsOf(c)' = PaymentsOf(c) /\ \A q \in PaymentsOf(c) : payment'[q] = payment[q]
    BY <1>5, <1>6, <1>8
  <2>2. [q \in PaymentsOf(c)' |-> payment'[q].amount] = [q \in PaymentsOf(c) |-> payment[q].amount]
    BY <2>1
  <2> QED BY <1>2, <1>8, <2>1, <2>2 DEF PaymentsCounted
<1> QED BY <1>7, <1>8 DEF PaymentsCounted

LEMMA SalesCountedStays ==
    ASSUME SalesCounted, UNCHANGED <<sale, salesTotal, onBill>> PROVE SalesCounted'
<1>1. \A b \in Bills : SalesOf(b)' = SalesOf(b)
  BY DEF SalesOf
<1>2. ASSUME NEW b \in Bills
      PROVE  /\ IsFiniteSet(SalesOf(b)')
             /\ salesTotal'[b] = SumOver([s \in SalesOf(b)' |-> sale'[s].total], SalesOf(b)')
  BY <1>1 DEF SalesCounted
<1>3. ASSUME NEW b \in Bills, NEW v \in Variants
      PROVE  onBill'[b][v] = SumOver([s \in SalesOf(b)' |-> sale'[s].qty[v]], SalesOf(b)')
  <2>1. onBill[b][v] = SumOver([s \in SalesOf(b) |-> sale[s].qty[v]], SalesOf(b))
    BY DEF SalesCounted
  <2> QED BY <1>1, <2>1
<1> QED BY <1>2, <1>3 DEF SalesCounted

LEMMA PaymentsCountedStays ==
    ASSUME PaymentsCounted, UNCHANGED <<payment, paid>> PROVE PaymentsCounted'
BY DEF PaymentsCounted, PaymentsOf

LEMMA CountedStep ==
    ASSUME IInv, SalesCounted, PaymentsCounted, [Next]_vars
    PROVE  SalesCounted' /\ PaymentsCounted'
<1> TypeOK
  BY DEF IInv
<1>1. CASE UNCHANGED <<sale, salesTotal, onBill, payment, paid>>
  BY <1>1, SalesCountedStays, PaymentsCountedStays
<1>2. ASSUME NEW b \in Bills, NEW r \in Rounds, NEW qty \in [Variants -> Int], NEW total \in Int,
             NEW original \in Rounds \cup {None}, InsertSale(r, b, qty, total, original)
      PROVE  SalesCounted'
  BY <1>2, InsertSaleCounted
<1>3. ASSUME NEW b \in Bills, NEW p \in Payments, NEW amount \in Int,
             NEW original \in Payments \cup {None}, InsertPayment(p, b, amount, original)
      PROVE  PaymentsCounted'
  BY <1>3, InsertPaymentCounted
<1>4. \A cart \in Carts : cart.qty \in [Variants -> Int] /\ cart.total \in Int
  BY CartsAssumption
<1>5. \A quantity \in Quantities, price \in Prices, v \in Variants :
        /\ -(quantity * price) \in Int
        /\ [u \in Variants |-> IF u = v THEN -quantity ELSE 0] \in [Variants -> Int]
  BY QuantitiesAssumption, PricesAssumption
<1>6. \A amount \in Amounts : amount \in Int
  BY AmountsAssumption
<1>7. ASSUME NEW b \in Bills, NEW r \in Rounds, NEW p \in Payments, NEW cart \in Carts,
             NEW amount \in Amounts, CreateSale(b, r, p, cart, amount)
      PROVE  SalesCounted' /\ PaymentsCounted'
  BY <1>2, <1>3, <1>4, <1>6, <1>7 DEF CreateSale
<1>8. ASSUME NEW b \in Bills, NEW r \in Rounds, NEW cart \in Carts, AddSaleRound(b, r, cart)
      PROVE  SalesCounted' /\ PaymentsCounted'
  BY <1>2, <1>4, <1>8, PaymentsCountedStays DEF AddSaleRound
<1>9. ASSUME NEW b \in Bills, NEW r \in Rounds, NEW v \in Variants, NEW quantity \in Quantities,
             NEW price \in Prices, RemoveBillItem(b, r, v, quantity, price)
      PROVE  SalesCounted' /\ PaymentsCounted'
  BY <1>2, <1>5, <1>9, PaymentsCountedStays DEF RemoveBillItem
<1>10. ASSUME NEW b \in Bills, NEW p \in Payments, NEW amount \in Amounts, RecordPayment(b, p, amount)
       PROVE  SalesCounted' /\ PaymentsCounted'
  BY <1>3, <1>6, <1>10, SalesCountedStays DEF RecordPayment
<1>11. ASSUME NEW p \in Payments, NEW q \in Payments, ReversePayment(p, q)
       PROVE  SalesCounted' /\ PaymentsCounted'
  <2>1. payment[p].bill \in Bills /\ -payment[p].amount \in Int
    BY <1>11 DEF ReversePayment, TypeOK, PaymentRow
  <2> QED BY <1>3, <1>11, <2>1, SalesCountedStays DEF ReversePayment
<1>12. ASSUME NEW w \in Requests, NEW b \in Bills, NEW r \in Rounds, NEW q \in Payments,
              ReverseSaleWrite(w, b, r, q)
       PROVE  SalesCounted' /\ PaymentsCounted'
  <2>1. reversing[w] # None /\ reversing[w] \in Read
    BY <1>12 DEF ReverseSaleWrite, TypeOK
  <2>2. PICK s \in Rounds : s = reversing[w].sale /\ sale[s] # None
    BY <2>1 DEF IInv, ReadInv, Read
  <2>3. PICK p \in Payments \cup {None} :
          p = reversing[w].payment /\ (p # None => payment[p] # None)
    BY <2>1 DEF IInv, ReadInv, Read
  <2>4. PICK original \in SaleRow : original = sale[s]
    BY <2>2 DEF TypeOK
  <2>5. PICK qty \in [Variants -> Int] : qty = [v \in Variants |-> -original.qty[v]]
    <3>1. [v \in Variants |-> -original.qty[v]] \in [Variants -> Int]
      BY DEF SaleRow
    <3> QED BY <3>1
  <2>6. PICK total \in Int : total = -original.total
    BY DEF SaleRow
  <2>7. /\ InsertSale(r, b, qty, total, s)
        /\ IF p = None THEN UNCHANGED <<payment, paid>>
                       ELSE InsertPayment(q, b, -payment[p].amount, p)
    BY <1>12, <2>2, <2>3, <2>4, <2>5, <2>6 DEF ReverseSaleWrite
  <2>8. CASE p = None
    BY <1>2, <2>7, <2>8, PaymentsCountedStays
  <2>9. CASE p # None
    <3>1. -payment[p].amount \in Int
      BY <2>3, <2>9 DEF TypeOK, PaymentRow
    <3> QED BY <1>2, <1>3, <2>7, <2>9, <3>1
  <2> QED BY <2>8, <2>9
<1>13. ASSUME NEW b \in Bills, NEW customer \in BOOLEAN, OpenBill(b, customer)
       PROVE  SalesCounted' /\ PaymentsCounted'
  BY <1>1, <1>13 DEF OpenBill
<1>14. ASSUME NEW b \in Bills, CloseBill(b) \/ VoidBill(b)
       PROVE  SalesCounted' /\ PaymentsCounted'
  BY <1>1, <1>14 DEF CloseBill, VoidBill
<1>15. ASSUME NEW b \in Bills, NEW amount \in Amounts, WriteOffBill(b, amount)
       PROVE  SalesCounted' /\ PaymentsCounted'
  BY <1>1, <1>15 DEF WriteOffBill
<1>16. ASSUME NEW w \in Requests, NEW r \in Rounds, ReverseSaleRead(w, r)
       PROVE  SalesCounted' /\ PaymentsCounted'
  BY <1>1, <1>16 DEF ReverseSaleRead, rows
<1>17. ASSUME NEW r \in Rounds, ReplaySale(r)
       PROVE  SalesCounted' /\ PaymentsCounted'
  BY <1>1, <1>17 DEF ReplaySale, vars, rows
<1>18. ASSUME NEW w \in Requests, ReverseSaleRollback(w)
       PROVE  SalesCounted' /\ PaymentsCounted'
  BY <1>1, <1>18 DEF ReverseSaleRollback, rows
<1>19. CASE UNCHANGED vars
  BY <1>1, <1>19 DEF vars, rows
<1> QED
  BY <1>7, <1>8, <1>9, <1>10, <1>11, <1>12, <1>13, <1>14, <1>15, <1>16, <1>17, <1>18, <1>19 DEF Next

\* Of the model only: whatever rounds, removals, payments, refunds and
\* reversals there were, the running totals are what SumSalesTotalByBillID,
\* SumPaymentsByBillID and SumBillItemQuantityByVariant would find in the rows.
LEMMA TotalsMayStandForSums == Spec => []TotalsAreSums
<1>1. Init => SalesCounted /\ PaymentsCounted
  <2> SUFFICES ASSUME Init PROVE SalesCounted /\ PaymentsCounted
    OBVIOUS
  <2>1. \A b \in Bills : SalesOf(b) = {} /\ PaymentsOf(b) = {}
    BY DEF Init, SalesOf, PaymentsOf
  <2>2. IsFiniteSet({})
    BY FS_EmptySet
  <2> QED BY <2>1, <2>2, SumOfNone DEF Init, SalesCounted, PaymentsCounted
<1>2. IInv /\ SalesCounted /\ PaymentsCounted /\ [Next]_vars => (SalesCounted /\ PaymentsCounted)'
  BY CountedStep DEF IInv
<1>3. SalesCounted /\ PaymentsCounted => TotalsAreSums
  BY DEF SalesCounted, PaymentsCounted, TotalsAreSums
<1> QED BY <1>1, <1>2, <1>3, InductiveInvariant, PTL DEF Spec
=============================================================================

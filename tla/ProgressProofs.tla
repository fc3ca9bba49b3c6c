--------------------------- MODULE ProgressProofs ---------------------------
(***************************************************************************)
(* However many flushes and requests a device has under way, and however   *)
(* many sales it records: the service holds the first so many of them, in  *)
(* their order, and none is lost.  InOrder is not inductive.  Why no sale  *)
(* can overtake an older one is in the two parts added here: before each   *)
(* sale of a flush's snapshot comes another of that snapshot, or one the   *)
(* flush is waiting for, or one already posted; and a request is only ever *)
(* made for a sale whose predecessors are all posted.  And whatever the    *)
(* limit, the window and the callers, the rate limiter lets no more than   *)
(* twice its limit through in a window's length.                           *)
(***************************************************************************)
EXTENDS Progress, SumTheorems

Active(q) == request[q].at # "free"

FlushInv == \A f \in Flushes : \A k \in flush[f] : \A j \in 1..(k - 1) :
                \/ j \in flush[f]
                \/ j \in 1..Len(sales)
                \/ \E q \in Requests : Waits(f, q) /\ request[q].sale = j

RequestInv == \A q \in Requests : Active(q) =>
                /\ \A j \in 1..(request[q].sale - 1) : j \in 1..Len(sales)
                /\ request[q].at = "created" => request[q].sale \in 1..Len(sales)

Kept == \A k \in 1..recorded : k \in pending \/ k \in 1..Len(sales)

IInv == TypeOK /\ InOrder /\ Kept /\ FlushInv /\ RequestInv

(***************************************************************************)
(* What is posted.                                                         *)
(***************************************************************************)
LEMMA PostedIsPrefix ==
    ASSUME TypeOK, InOrder, NEW k \in 1..recorded
    PROVE  Posted(k) <=> k \in 1..Len(sales)
<1>1. sales \in Seq(1..recorded) /\ recorded \in Nat
  BY MaxSalesAssumption DEF TypeOK
<1>2. DOMAIN sales = 1..Len(sales)
  BY <1>1
<1> QED BY <1>2 DEF Posted, InOrder

LEMMA ActiveType ==
    ASSUME TypeOK, NEW q \in Requests, Active(q)
    PROVE  request[q] \in [at : {"sent", "absent", "created", "failed"},
                           sale : 1..recorded, by : Flushes \union {None}]
BY DEF TypeOK, Active, Free

\* The server has the first so many of the recorded sales and no other.
LEMMA LenBound ==
    ASSUME TypeOK, InOrder
    PROVE  Len(sales) \in Nat /\ Len(sales) <= recorded /\ recorded \in Nat
<1>1. sales \in Seq(1..recorded) /\ recorded \in Nat
  BY MaxSalesAssumption DEF TypeOK
<1>2. Len(sales) \in Nat /\ DOMAIN sales = 1..Len(sales)
  BY <1>1
<1>3. CASE Len(sales) = 0
  BY <1>1, <1>3
<1>4. CASE Len(sales) > 0
  <2>1. Len(sales) \in DOMAIN sales
    BY <1>2, <1>4
  <2>2. sales[Len(sales)] = Len(sales)
    BY <2>1 DEF InOrder
  <2>3. sales[Len(sales)] \in 1..recorded
    BY <1>1, <2>1
  <2> QED BY <1>1, <1>2, <2>2, <2>3
<1> QED BY <1>2, <1>3, <1>4

(***************************************************************************)
(* Type correctness.                                                       *)
(***************************************************************************)
LEMMA InitType == Init => TypeOK
BY MaxSalesAssumption DEF Init, TypeOK, Free

LEMMA NextType == TypeOK /\ [Next]_vars => TypeOK'
<1> SUFFICES ASSUME TypeOK, [Next]_vars PROVE TypeOK'
  OBVIOUS
<1>0. recorded \in Nat /\ MaxSales \in Nat
  BY MaxSalesAssumption DEF TypeOK
<1> DEFINE R(n) == [at : {"sent", "absent", "created", "failed"}, sale : 1..n,
                    by : Flushes \union {None}]
<1>1. CASE completeSale
  <2>1. recorded' = recorded + 1 /\ recorded' \in 0..MaxSales
    BY <1>0, <1>1 DEF completeSale
  <2>2. 1..recorded \subseteq 1..recorded'
    BY <1>0, <2>1
  <2>3. pending' \subseteq 1..recorded'
    BY <1>0, <1>1, <2>1, <2>2 DEF completeSale, TypeOK
  <2>4. flush' \in [Flushes -> SUBSET (1..recorded')]
    BY <1>1, <2>2 DEF completeSale, TypeOK
  <2>5. request' \in [Requests -> {Free} \union R(recorded')]
    <3>1. R(recorded) \subseteq R(recorded')
      BY <2>2
    <3> QED BY <1>1, <3>1 DEF completeSale, TypeOK
  <2>6. sales' \in Seq(1..recorded')
    BY <1>1, <2>2 DEF completeSale, TypeOK
  <2> QED BY <2>1, <2>3, <2>4, <2>5, <2>6 DEF TypeOK
<1>2. ASSUME NEW f \in Flushes, StartFlush(f) PROVE TypeOK'
  BY <1>2 DEF StartFlush, TypeOK
<1>3. ASSUME NEW f \in Flushes, NEW q \in Requests, FlushStep(f, q) PROVE TypeOK'
  <2>1. CASE Post(f, q)
    <3>1. PICK k \in flush[f] :
            /\ request' = [request EXCEPT ![q] = [at |-> "sent", sale |-> k, by |-> f]]
            /\ flush' = [flush EXCEPT ![f] = @ \ {k}]
      BY <2>1 DEF Post
    <3>2. k \in 1..recorded
      BY DEF TypeOK
    <3>3. [at |-> "sent", sale |-> k, by |-> f] \in R(recorded)
      BY <3>2
    <3>4. UNCHANGED <<recorded, pending, sales>>
      BY <2>1 DEF Post
    <3>5. request' \in [Requests -> {Free} \union R(recorded)]
      BY <3>1, <3>3 DEF TypeOK
    <3>6. flush' \in [Flushes -> SUBSET (1..recorded)]
      BY <3>1 DEF TypeOK
    <3> QED BY <3>4, <3>5, <3>6 DEF TypeOK
  <2>2. CASE Synced(f, q)
    BY <2>2 DEF Synced, TypeOK
  <2>3. CASE Failed(f, q)
    BY <2>3 DEF Failed, GiveUp, TypeOK
  <2>4. CASE Lose(f, q)
    <3>1. Active(q)
      BY <2>4 DEF Lose, Waits, Active
    <3>2. request[q] \in R(recorded)
      BY <3>1, ActiveType
    <3>3. [request[q] EXCEPT !.by = None] \in R(recorded)
      BY <3>2
    <3>4. request' \in [Requests -> {Free} \union R(recorded)]
      BY <2>4, <3>3 DEF Lose, TypeOK
    <3> QED BY <2>4, <3>4 DEF Lose, GiveUp, TypeOK
  <2> QED BY <1>3, <2>1, <2>2, <2>3, <2>4 DEF FlushStep
<1>4. CASE Close
  <2>1. ASSUME NEW q \in Requests, Active(q)
        PROVE  [request[q] EXCEPT !.by = None] \in R(recorded)
    BY <2>1, ActiveType
  <2>2. request' \in [Requests -> {Free} \union R(recorded)]
    BY <1>4, <2>1 DEF Close, Active
  <2> QED BY <1>4, <2>2 DEF Close, TypeOK
<1>5. ASSUME NEW q \in Requests, Answer(q) PROVE TypeOK'
  <2>1. CASE Vanish(q)
    BY <2>1 DEF Vanish, device, TypeOK
  <2>2. ASSUME NEW at \in {"sent", "absent", "created", "failed"}, Active(q),
               Answered(q, at), UNCHANGED <<device, sales>>
        PROVE  TypeOK'
    <3>1. [request[q] EXCEPT !.at = at] \in R(recorded)
      BY <2>2, ActiveType
    <3>2. request' \in [Requests -> {Free} \union R(recorded)]
      BY <2>2, <3>1 DEF Answered, TypeOK
    <3> QED BY <2>2, <3>2 DEF device, TypeOK
  <2>3. CASE salesErrorResponse(q)
    BY <2>2, <2>3 DEF salesErrorResponse, Active
  <2>4. CASE createSale(q)
    BY <2>2, <2>4 DEF createSale, Active
  <2>5. CASE CreateSale(q)
    <3>1. request[q] \in R(recorded)
      BY <2>5, ActiveType DEF CreateSale, Active
    <3>2. /\ [request[q] EXCEPT !.at = "failed"] \in R(recorded)
          /\ [request[q] EXCEPT !.at = "created"] \in R(recorded)
      BY <3>1
    <3>3. request' \in [Requests -> {Free} \union R(recorded)]
      BY <2>5, <3>2 DEF CreateSale, Answered, TypeOK
    <3>4. sales' \in Seq(1..recorded)
      BY <2>5, <3>1 DEF CreateSale, CreateSaleRow, TypeOK
    <3> QED BY <2>5, <3>3, <3>4 DEF CreateSale, device, TypeOK
  <2> QED BY <1>5, <2>1, <2>3, <2>4, <2>5 DEF Answer, Serve
<1>6. CASE UNCHANGED vars
  BY <1>6 DEF vars, TypeOK
<1> QED BY <1>1, <1>2, <1>3, <1>4, <1>5, <1>6 DEF Next

\* The queue, the snapshots, the requests and the server's rows hold recorded
\* sales only, whatever the flushes and the network do.
THEOREM OutboxTypeCorrect == Spec => []TypeOK
BY InitType, NextType, PTL DEF Spec
(***************************************************************************)
(* The order of the sales.                                                 *)
(***************************************************************************)
LEMMA InitInv == Init => IInv
<1> SUFFICES ASSUME Init PROVE IInv
  OBVIOUS
<1>1. TypeOK
  BY InitType
<1>2. InOrder /\ Kept /\ FlushInv /\ RequestInv
  BY DEF Init, Free, InOrder, Kept, FlushInv, RequestInv, Active
<1> QED BY <1>1, <1>2 DEF IInv

\* What the server inserts is the sale after the last one it has.
LEMMA CreateSaleAppends ==
    ASSUME IInv, NEW q \in Requests, CreateSale(q)
    PROVE  \/ /\ sales' = Append(sales, Len(sales) + 1)
              /\ request[q].sale = Len(sales) + 1
              /\ Len(sales) < recorded
              /\ request' = [request EXCEPT ![q].at = "created"]
           \/ /\ sales' = sales
              /\ request' = [request EXCEPT ![q].at = "failed"]
<1> DEFINE k == request[q].sale
<1>1. Active(q) /\ k \in 1..recorded
  BY ActiveType DEF CreateSale, Active, IInv
<1>2. Len(sales) \in Nat /\ Len(sales) <= recorded /\ recorded \in Nat
  BY LenBound DEF IInv
<1>3. CASE Posted(k)
  BY <1>3 DEF CreateSale, CreateSaleRow, Answered
<1>4. CASE ~Posted(k)
  <2>1. k \notin 1..Len(sales)
    BY <1>1, <1>4, PostedIsPrefix DEF IInv
  <2>2. \A j \in 1..(k - 1) : j \in 1..Len(sales)
    BY <1>1 DEF IInv, RequestInv
  <2>3. k - 1 <= Len(sales)
    <3>1. CASE k = 1
      BY <1>2, <3>1
    <3>2. CASE k > 1
      <4>1. k - 1 \in 1..(k - 1)
        BY <1>1, <1>2, <3>2
      <4> QED BY <1>1, <1>2, <2>2, <4>1
    <3> QED BY <1>1, <1>2, <3>1, <3>2
  <2>4. k = Len(sales) + 1
    BY <1>1, <1>2, <2>1, <2>3
  <2>5. sales' = Append(sales, k) /\ request' = [request EXCEPT ![q].at = "created"]
    BY <1>4 DEF CreateSale, CreateSaleRow, Answered
  <2> QED BY <1>1, <1>2, <2>4, <2>5
<1> QED BY <1>3, <1>4

LEMMA DeviceStep ==
    ASSUME IInv, completeSale \/ \E f \in Flushes : StartFlush(f)
    PROVE  InOrder' /\ Kept' /\ FlushInv' /\ RequestInv'
<1>0. recorded \in Nat
  BY MaxSalesAssumption DEF IInv, TypeOK
<1>1. CASE completeSale
  <2>1. /\ recorded' = recorded + 1 /\ pending' = pending \union {recorded + 1}
        /\ UNCHANGED <<flush, request, sales>>
    BY <1>1 DEF completeSale
  <2>2. \A k \in 1..recorded' : k \in 1..recorded \/ k = recorded + 1
    BY <1>0, <2>1
  <2>3. Kept'
    BY <2>1, <2>2 DEF IInv, Kept
  <2> QED BY <2>1, <2>3 DEF IInv, InOrder, FlushInv, RequestInv, Active, Waits
<1>2. ASSUME NEW f \in Flushes, StartFlush(f)
      PROVE  InOrder' /\ Kept' /\ FlushInv' /\ RequestInv'
  <2>1. /\ flush' = [flush EXCEPT ![f] = pending]
        /\ UNCHANGED <<recorded, pending, request, sales>>
    BY <1>2 DEF StartFlush
  <2>2. InOrder' /\ Kept' /\ RequestInv'
    BY <2>1 DEF IInv, InOrder, Kept, RequestInv, Active
  <2>3. ASSUME NEW g \in Flushes, NEW k \in flush'[g], NEW j \in 1..(k - 1)
        PROVE  \/ j \in flush'[g]
               \/ j \in 1..Len(sales)
               \/ \E q \in Requests : Waits(g, q) /\ request[q].sale = j
    <3>1. CASE g = f
      <4>1. flush'[g] = pending /\ pending \subseteq 1..recorded
        BY <2>1, <3>1 DEF IInv, TypeOK
      <4>2. k \in 1..recorded /\ j \in 1..(k - 1)
        BY <2>1, <3>1, <4>1
      <4>3. j \in 1..recorded
        BY ONLY <1>0, <4>2
      <4> QED BY <4>1, <4>3 DEF IInv, Kept
    <3>2. CASE g # f
      BY <2>1, <3>2 DEF IInv, TypeOK, FlushInv
    <3> QED BY <3>1, <3>2
  <2>4. FlushInv'
    BY <2>1, <2>3 DEF FlushInv, Waits
  <2> QED BY <2>2, <2>4
<1> QED BY <1>1, <1>2

LEMMA PostStep ==
    ASSUME IInv, NEW f \in Flushes, NEW q \in Requests, Post(f, q)
    PROVE  InOrder' /\ Kept' /\ FlushInv' /\ RequestInv'
<1>1. PICK k \in flush[f] :
        /\ IsOldest(k, flush[f])
        /\ request' = [request EXCEPT ![q] = [at |-> "sent", sale |-> k, by |-> f]]
        /\ flush' = [flush EXCEPT ![f] = @ \ {k}]
  BY DEF Post
<1>2. UNCHANGED <<recorded, pending, sales>> /\ ~Busy(f) /\ request[q] = Free
  BY DEF Post
<1>3. /\ flush \in [Flushes -> SUBSET (1..recorded)] /\ recorded \in Nat
      /\ DOMAIN request = Requests
  BY MaxSalesAssumption DEF IInv, TypeOK
<1>4. \A r \in Requests : ~Waits(f, r)
  BY <1>2 DEF Busy
<1>5. \A j \in 1..(k - 1) : j \in 1..Len(sales)
  <2>1. TAKE j \in 1..(k - 1)
  <2>2. j \notin flush[f]
    BY <1>1, <1>3 DEF IsOldest
  <2> QED BY <1>4, <2>2 DEF IInv, FlushInv
<1>6. InOrder' /\ Kept'
  BY <1>2 DEF IInv, InOrder, Kept
<1>7. RequestInv'
  <2>1. ASSUME NEW r \in Requests, Active(r)'
        PROVE  /\ \A j \in 1..(request'[r].sale - 1) : j \in 1..Len(sales)
               /\ request'[r].at = "created" => request'[r].sale \in 1..Len(sales)
    <3>1. CASE r = q
      BY <1>1, <1>3, <1>5, <3>1
    <3>2. CASE r # q
      <4>1. request'[r] = request[r] /\ Active(r)
        BY <1>1, <1>3, <2>1, <3>2 DEF Active
      <4> QED BY <4>1 DEF IInv, RequestInv
    <3> QED BY <3>1, <3>2
  <2> QED BY <1>2, <2>1 DEF RequestInv
<1>8. FlushInv'
  <2>1. ASSUME NEW g \in Flushes, NEW i \in flush'[g], NEW j \in 1..(i - 1)
        PROVE  \/ j \in flush'[g]
               \/ j \in 1..Len(sales)
               \/ \E r \in Requests : Waits(g, r)' /\ request'[r].sale = j
    <3>1. CASE g = f
      <4>1. i \in flush[f]
        BY <1>1, <1>3, <3>1
      <4>2. j \in flush[f] \/ j \in 1..Len(sales)
        BY <1>4, <4>1 DEF IInv, FlushInv
      <4>3. CASE j = k
        <5>1. Waits(f, q)' /\ request'[q].sale = k
          BY <1>1, <1>3 DEF Waits
        <5> QED BY <3>1, <4>3, <5>1
      <4> QED BY <1>1, <1>3, <3>1, <4>2, <4>3
    <3>2. CASE g # f
      <4>1. flush'[g] = flush[g]
        BY <1>1, <1>3, <3>2
      <4>2. ASSUME NEW r \in Requests, Waits(g, r) PROVE Waits(g, r)' /\ request'[r] = request[r]
        <5>1. r # q
          BY <1>2, <4>2 DEF Waits, Free
        <5> QED BY <1>1, <1>3, <4>2, <5>1 DEF Waits
      <4>3. \/ j \in flush[g]
            \/ j \in 1..Len(sales)
            \/ \E r \in Requests : Waits(g, r) /\ request[r].sale = j
        BY <4>1 DEF IInv, FlushInv
      <4> QED BY <4>1, <4>2, <4>3
    <3> QED BY <3>1, <3>2
  <2> QED BY <1>2, <2>1 DEF FlushInv
<1> QED BY <1>6, <1>7, <1>8

LEMMA SyncedStep ==
    ASSUME IInv, NEW f \in Flushes, NEW q \in Requests, Synced(f, q)
    PROVE  InOrder' /\ Kept' /\ FlushInv' /\ RequestInv'
<1>1. /\ Waits(f, q) /\ request[q].at = "created"
      /\ pending' = pending \ {request[q].sale}
      /\ request' = [request EXCEPT ![q] = Free]
      /\ UNCHANGED <<recorded, flush, sales>>
  BY DEF Synced
<1>2. DOMAIN request = Requests
  BY DEF IInv, TypeOK
<1>3. request[q].sale \in 1..Len(sales)
  BY <1>1 DEF IInv, RequestInv, Active
<1>4. InOrder' /\ Kept'
  BY <1>1, <1>3 DEF IInv, InOrder, Kept
<1>5. \A r \in Requests : r # q => request'[r] = request[r]
  BY <1>1, <1>2
<1>6. RequestInv'
  BY <1>1, <1>2, <1>5 DEF IInv, RequestInv, Active, Free
<1>7. FlushInv'
  <2>1. ASSUME NEW g \in Flushes, NEW k \in flush'[g], NEW j \in 1..(k - 1)
        PROVE  \/ j \in flush'[g]
               \/ j \in 1..Len(sales)
               \/ \E r \in Requests : Waits(g, r)' /\ request'[r].sale = j
    <3>1. \/ j \in flush[g]
          \/ j \in 1..Len(sales)
          \/ \E r \in Requests : Waits(g, r) /\ request[r].sale = j
      BY <1>1 DEF IInv, FlushInv
    <3>2. ASSUME NEW r \in Requests, Waits(g, r), request[r].sale = j
          PROVE  j \in 1..Len(sales) \/ (Waits(g, r)' /\ request'[r].sale = j)
      BY <1>3, <1>5, <3>2 DEF Waits
    <3> QED BY <1>1, <3>1, <3>2
  <2> QED BY <1>1, <2>1 DEF FlushInv
<1> QED BY <1>4, <1>6, <1>7

\* A flush that gives up, whatever becomes of the request it waited for.
LEMMA GiveUpStep ==
    ASSUME IInv, NEW f \in Flushes, NEW q \in Requests, Failed(f, q) \/ Lose(f, q)
    PROVE  InOrder' /\ Kept' /\ FlushInv' /\ RequestInv'
<1>1. /\ Waits(f, q) /\ flush' = [flush EXCEPT ![f] = {}]
      /\ UNCHANGED <<recorded, pending, sales>>
  BY DEF Failed, Lose, GiveUp
<1>2. DOMAIN request = Requests /\ DOMAIN flush = Flushes
  BY DEF IInv, TypeOK
<1>3. \A r \in Requests : r # q => request'[r] = request[r]
  BY <1>2 DEF Failed, Lose
<1>4. Active(q)' => request'[q].sale = request[q].sale /\ request'[q].at = request[q].at
  <2>1. CASE Failed(f, q)
    BY <1>2, <2>1 DEF Failed, Active, Free
  <2>2. CASE Lose(f, q)
    <3>1. request' = [request EXCEPT ![q].by = None]
      BY <2>2 DEF Lose
    <3>2. request[q] \in [at : {"sent", "absent", "created", "failed"},
                          sale : 1..recorded, by : Flushes \union {None}]
      BY <1>1, ActiveType DEF Waits, Active, IInv
    <3> QED BY <1>2, <3>1, <3>2
  <2> QED BY <2>1, <2>2
<1>5. InOrder' /\ Kept'
  BY <1>1 DEF IInv, InOrder, Kept
<1>6. RequestInv'
  <2>1. ASSUME NEW r \in Requests, Active(r)'
        PROVE  Active(r) /\ request'[r].sale = request[r].sale /\ request'[r].at = request[r].at
    <3>1. CASE r = q
      BY <1>1, <1>4, <2>1, <3>1 DEF Waits, Active
    <3>2. CASE r # q
      BY <1>3, <2>1, <3>2 DEF Active
    <3> QED BY <3>1, <3>2
  <2> QED BY <1>1, <2>1 DEF IInv, RequestInv
<1>7. FlushInv'
  <2>1. ASSUME NEW g \in Flushes, NEW k \in flush'[g], NEW j \in 1..(k - 1)
        PROVE  \/ j \in flush'[g]
               \/ j \in 1..Len(sales)
               \/ \E r \in Requests : Waits(g, r)' /\ request'[r].sale = j
    <3>1. g # f /\ flush'[g] = flush[g]
      BY <1>1, <1>2, <2>1
    <3>2. \A r \in Requests : Waits(g, r) => r # q
      BY <1>1, <3>1 DEF Waits
    <3>3. \A r \in Requests : Waits(g, r) => Waits(g, r)' /\ request'[r] = request[r]
      BY <1>3, <3>2 DEF Waits
    <3>4. \/ j \in flush[g]
          \/ j \in 1..Len(sales)
          \/ \E r \in Requests : Waits(g, r) /\ request[r].sale = j
      BY <2>1, <3>1 DEF IInv, FlushInv
    <3> QED BY <3>1, <3>3, <3>4
  <2> QED BY <1>1, <2>1 DEF FlushInv
<1> QED BY <1>5, <1>6, <1>7

LEMMA CloseStep ==
    ASSUME IInv, Close
    PROVE  InOrder' /\ Kept' /\ FlushInv' /\ RequestInv'
<1>1. /\ flush' = [f \in Flushes |-> {}]
      /\ UNCHANGED <<recorded, pending, sales>>
  BY DEF Close
<1>2. InOrder' /\ Kept' /\ FlushInv'
  BY <1>1 DEF IInv, InOrder, Kept, FlushInv
<1>3. ASSUME NEW q \in Requests, Active(q)'
      PROVE  Active(q) /\ request'[q].sale = request[q].sale /\ request'[q].at = request[q].at
  <2>1. request'[q] = IF request[q].at = "free" THEN Free ELSE [request[q] EXCEPT !.by = None]
    BY DEF Close
  <2>2. Active(q)
    BY <1>3, <2>1 DEF Active, Free
  <2>3. request[q] \in [at : {"sent", "absent", "created", "failed"},
                        sale : 1..recorded, by : Flushes \union {None}]
    BY <2>2, ActiveType DEF IInv
  <2> QED BY <2>1, <2>2, <2>3 DEF Active
<1>4. RequestInv'
  BY <1>1, <1>3 DEF IInv, RequestInv
<1> QED BY <1>2, <1>4

\* The service answers, and its rows only grow.
LEMMA AnsweredStep ==
    ASSUME IInv, NEW q \in Requests, Active(q),
           NEW at \in {"absent", "created", "failed"}, Answered(q, at),
           at = "created" => request[q].sale \in 1..Len(sales'),
           InOrder', Len(sales) <= Len(sales'), Len(sales') \in Nat, UNCHANGED device
    PROVE  InOrder' /\ Kept' /\ FlushInv' /\ RequestInv'
<1>1. /\ request' = [request EXCEPT ![q].at = at]
      /\ UNCHANGED <<recorded, pending, flush>>
  BY DEF Answered, device
<1>2. DOMAIN request = Requests
  BY DEF IInv, TypeOK
<1>3. Len(sales) \in Nat
  BY LenBound DEF IInv
<1>4. \A j \in 1..Len(sales) : j \in 1..Len(sales')
  BY <1>3
<1>5. Kept'
  BY <1>1, <1>4 DEF IInv, Kept
<1>6. request[q] \in [at : {"sent", "absent", "created", "failed"},
                      sale : 1..recorded, by : Flushes \union {None}]
  BY ActiveType DEF IInv
<1>7. ASSUME NEW r \in Requests
      PROVE  /\ Active(r)' <=> Active(r)
             /\ Active(r) => request'[r].sale = request[r].sale /\ request'[r].by = request[r].by
             /\ request'[r].at = IF r = q THEN at ELSE request[r].at
  <2>1. CASE r = q
    BY <1>1, <1>2, <1>6, <2>1 DEF Active
  <2>2. CASE r # q
    BY <1>1, <1>2, <2>2 DEF Active
  <2> QED BY <2>1, <2>2
<1>8. RequestInv'
  <2>1. ASSUME NEW r \in Requests, Active(r)'
        PROVE  /\ \A j \in 1..(request'[r].sale - 1) : j \in 1..Len(sales')
               /\ request'[r].at = "created" => request'[r].sale \in 1..Len(sales')
    <3>1. Active(r) /\ request'[r].sale = request[r].sale
      BY <1>7, <2>1
    <3>2. \A j \in 1..(request[r].sale - 1) : j \in 1..Len(sales)
      BY <3>1 DEF IInv, RequestInv
    <3>3. CASE r = q
      BY <1>4, <1>7, <3>1, <3>2, <3>3
    <3>4. CASE r # q
      <4>1. request[r].at = "created" => request[r].sale \in 1..Len(sales)
        BY <3>1 DEF IInv, RequestInv
      <4> QED BY <1>4, <1>7, <3>1, <3>2, <3>4, <4>1
    <3> QED BY <3>3, <3>4
  <2> QED BY <2>1 DEF RequestInv
<1>9. FlushInv'
  <2>1. ASSUME NEW g \in Flushes, NEW k \in flush'[g], NEW j \in 1..(k - 1)
        PROVE  \/ j \in flush'[g]
               \/ j \in 1..Len(sales')
               \/ \E r \in Requests : Waits(g, r)' /\ request'[r].sale = j
    <3>1. \/ j \in flush[g]
          \/ j \in 1..Len(sales)
          \/ \E r \in Requests : Waits(g, r) /\ request[r].sale = j
      BY <1>1, <2>1 DEF IInv, FlushInv
    <3>2. ASSUME NEW r \in Requests, Waits(g, r), request[r].sale = j
          PROVE  Waits(g, r)' /\ request'[r].sale = j
      BY <1>7, <3>2 DEF Waits, Active
    <3> QED BY <1>1, <1>4, <3>1, <3>2
  <2> QED BY <2>1 DEF FlushInv
<1> QED BY <1>5, <1>8, <1>9

LEMMA AnswerStep ==
    ASSUME IInv, NEW q \in Requests, Answer(q)
    PROVE  InOrder' /\ Kept' /\ FlushInv' /\ RequestInv'
<1>0. /\ sales \in Seq(1..recorded) /\ Len(sales) \in Nat /\ recorded \in Nat
      /\ DOMAIN sales = 1..Len(sales)
  BY LenBound DEF IInv, TypeOK
<1>1. CASE salesErrorResponse(q)
  <2>1. Active(q) /\ Answered(q, "failed") /\ UNCHANGED <<device, sales>>
    BY <1>1 DEF salesErrorResponse, Active
  <2>2. InOrder'
    BY <2>1 DEF IInv, InOrder
  <2> QED BY <1>0, <2>1, <2>2, AnsweredStep
<1>2. CASE createSale(q)
  <2>1. Active(q) /\ UNCHANGED <<device, sales>>
    BY <1>2 DEF createSale, Active
  <2>2. InOrder'
    BY <2>1 DEF IInv, InOrder
  <2>3. CASE Posted(request[q].sale)
    <3>1. request[q].sale \in 1..recorded
      BY <2>1, ActiveType DEF IInv
    <3>2. request[q].sale \in 1..Len(sales)
      BY <2>3, <3>1, PostedIsPrefix DEF IInv
    <3>3. Answered(q, "created")
      BY <1>2, <2>3 DEF createSale, GetSaleByIdempotencyKey
    <3> QED BY <1>0, <2>1, <2>2, <3>2, <3>3, AnsweredStep
  <2>4. CASE ~Posted(request[q].sale)
    <3>1. Answered(q, "absent")
      BY <1>2, <2>4 DEF createSale, GetSaleByIdempotencyKey
    <3> QED BY <1>0, <2>1, <2>2, <3>1, AnsweredStep
  <2> QED BY <2>3, <2>4
<1>3. CASE CreateSale(q)
  <2>1. Active(q) /\ UNCHANGED device
    BY <1>3 DEF CreateSale, Active
  <2>2. CASE /\ sales' = Append(sales, Len(sales) + 1)
             /\ request[q].sale = Len(sales) + 1
             /\ Len(sales) < recorded
             /\ request' = [request EXCEPT ![q].at = "created"]
    <3>1. Len(sales') = Len(sales) + 1 /\ DOMAIN sales' = 1..(Len(sales) + 1)
      BY <1>0, <2>2
    <3>2. \A i \in 1..(Len(sales) + 1) :
            sales'[i] = IF i <= Len(sales) THEN sales[i] ELSE Len(sales) + 1
      BY <1>0, <2>2
    <3>3. InOrder'
      BY <1>0, <3>1, <3>2 DEF IInv, InOrder
    <3>4. Answered(q, "created")
      BY <2>2 DEF Answered
    <3>5. request[q].sale \in 1..Len(sales') /\ Len(sales) <= Len(sales') /\ Len(sales') \in Nat
      BY <1>0, <2>2, <3>1
    <3> QED BY <2>1, <3>3, <3>4, <3>5, AnsweredStep
  <2>3. CASE sales' = sales /\ request' = [request EXCEPT ![q].at = "failed"]
    <3>1. InOrder'
      BY <2>3 DEF IInv, InOrder
    <3>2. Answered(q, "failed")
      BY <2>3 DEF Answered
    <3> QED BY <1>0, <2>1, <2>3, <3>1, <3>2, AnsweredStep
  <2> QED BY <1>3, <2>2, <2>3, CreateSaleAppends
<1>4. CASE Vanish(q)
  <2>1. /\ request[q].by = None /\ request' = [request EXCEPT ![q] = Free]
        /\ UNCHANGED <<recorded, pending, flush, sales>>
    BY <1>4 DEF Vanish, device
  <2>2. DOMAIN request = Requests
    BY DEF IInv, TypeOK
  <2>3. \A r \in Requests : r # q => request'[r] = request[r]
    BY <2>1, <2>2
  <2>4. InOrder' /\ Kept'
    BY <2>1 DEF IInv, InOrder, Kept
  <2>5. RequestInv'
    BY <2>1, <2>2, <2>3 DEF IInv, RequestInv, Active, Free
  <2>6. FlushInv'
    <3>1. ASSUME NEW g \in Flushes, NEW r \in Requests, Waits(g, r)
          PROVE  Waits(g, r)' /\ request'[r] = request[r]
      <4>1. r # q
        BY <2>1, <3>1, NoneAssumption DEF Waits
      <4> QED BY <2>3, <3>1, <4>1 DEF Waits
    <3> QED BY <2>1, <3>1 DEF IInv, FlushInv
  <2> QED BY <2>4, <2>5, <2>6
<1> QED BY <1>1, <1>2, <1>3, <1>4 DEF Answer, Serve

LEMMA NextInv == IInv /\ [Next]_vars => IInv'
<1> SUFFICES ASSUME IInv, [Next]_vars PROVE InOrder' /\ Kept' /\ FlushInv' /\ RequestInv'
  BY NextType DEF IInv
<1>1. CASE completeSale \/ \E f \in Flushes : StartFlush(f)
  BY <1>1, DeviceStep
<1>2. ASSUME NEW f \in Flushes, NEW q \in Requests, FlushStep(f, q)
      PROVE  InOrder' /\ Kept' /\ FlushInv' /\ RequestInv'
  BY <1>2, PostStep, SyncedStep, GiveUpStep DEF FlushStep
<1>3. CASE Close
  BY <1>3, CloseStep
<1>4. ASSUME NEW q \in Requests, Answer(q)
      PROVE  InOrder' /\ Kept' /\ FlushInv' /\ RequestInv'
  BY <1>4, AnswerStep
<1>5. CASE UNCHANGED vars
  BY <1>5 DEF vars, IInv, InOrder, Kept, FlushInv, RequestInv, Active, Waits
<1> QED BY <1>1, <1>2, <1>3, <1>4, <1>5 DEF Next

THEOREM OutboxInvariant == Spec => []IInv
<1> QED BY InitInv, NextInv, PTL DEF Spec

(***************************************************************************)
(* What follows.                                                           *)
(***************************************************************************)

\* The server has the first so many of the recorded sales, each once and in
\* their order, however flushes overlap, answers are lost and tabs close
\* (web/src/lib/salesSync.ts and sales.CreateSale's idempotency key).
THEOREM PostedInOrder == Spec => []InOrder
<1>1. IInv => InOrder
  BY DEF IInv
<1> QED BY <1>1, OutboxInvariant, PTL

\* A recorded sale is in the device's queue or on the server, at every moment
\* (salesSync.ts deletes a row only after its post has been answered with 2xx).
THEOREM RecordedIsKept == Spec => []NothingLost
<1>1. IInv => NothingLost
  <2> SUFFICES ASSUME IInv, NEW k \in 1..recorded PROVE k \in pending \/ Posted(k)
    BY DEF NothingLost
  <2> QED BY PostedIsPrefix DEF IInv, Kept
<1> QED BY <1>1, OutboxInvariant, PTL

(***************************************************************************)
(* The outbox implements the safety part of Delivery.                      *)
(***************************************************************************)
LEMMA AnswerDelivers ==
    ASSUME IInv, NEW q \in Requests, Answer(q)
    PROVE  delivery!Deliver \/ UNCHANGED delivery!vars
<1>1. CASE CreateSale(q)
  <2>1. UNCHANGED recorded
    BY <1>1 DEF CreateSale, device
  <2>2. \/ sales' = Append(sales, Len(sales) + 1) /\ Len(sales) < recorded
        \/ sales' = sales
    BY <1>1, CreateSaleAppends
  <2> QED BY <2>1, <2>2 DEF delivery!Deliver, delivery!vars
<1>2. CASE createSale(q) \/ salesErrorResponse(q) \/ Vanish(q)
  BY <1>2 DEF createSale, salesErrorResponse, Vanish, device, delivery!vars
<1> QED BY <1>1, <1>2 DEF Answer, Serve

LEMMA StepDelivers ==
    ASSUME IInv, [Next]_vars
    PROVE  [delivery!Next]_(delivery!vars)
<1>1. CASE completeSale
  BY <1>1 DEF completeSale, delivery!Record, delivery!Next
<1>2. ASSUME NEW f \in Flushes, StartFlush(f) PROVE UNCHANGED delivery!vars
  BY <1>2 DEF StartFlush, delivery!vars
<1>3. ASSUME NEW f \in Flushes, NEW q \in Requests, FlushStep(f, q) PROVE UNCHANGED delivery!vars
  BY <1>3 DEF FlushStep, Post, Synced, Failed, Lose, delivery!vars
<1>4. CASE Close
  BY <1>4 DEF Close, delivery!vars
<1>5. ASSUME NEW q \in Requests, Answer(q) PROVE delivery!Next \/ UNCHANGED delivery!vars
  BY <1>5, AnswerDelivers DEF delivery!Next
<1>6. CASE UNCHANGED vars
  BY <1>6 DEF vars, delivery!vars
<1> QED BY <1>1, <1>2, <1>3, <1>4, <1>5, <1>6 DEF Next

\* Every step of devices, network and service records a sale, delivers the
\* oldest sale not delivered yet, or changes neither: the queue delivers each
\* sale once and in the order of recording. That each one gets there in the
\* end is left to the model checker (Delivers).
THEOREM OutboxImplementsDelivery == Spec => delivery!Init /\ [][delivery!Next]_(delivery!vars)
<1>1. Init => delivery!Init
  BY DEF Init, delivery!Init
<1> QED BY <1>1, StepDelivers, OutboxInvariant, PTL DEF Spec

(***************************************************************************)
(* The rate limiter.                                                       *)
(***************************************************************************)


LEMMA RateSums == ASSUME NEW f, NEW S PROVE Rate!SumOver(f, S) = SumOver(f, S)
  BY DEF Rate!SumOver, SumOver, Rate!MapThenSumSet, MapThenSumSet, Rate!MapThenFoldSet, MapThenFoldSet

Moments == 0..MaxTime
Before(m) == {u \in Moments : m - window <= u /\ u < m}
From(m) == {u \in Moments : m <= u}
Stretch(t) == {u \in t..(t + window) : u <= MaxTime}

(* Who has no window under way was let in at most `limit` times in the last   *)
(* window's length, and not yet at this moment. Of a window under way, as of  *)
(* the time before it, no more was let in, and nothing after its end.         *)
Gone(c) == SumOver(allowed[c], Before(now)) <= limit /\ allowed[c][now] = 0
Began(c) == visitors[c].windowEnd - window
UnderWay(c) == /\ Began(c) \in 0..now
               /\ SumOver(allowed[c], Before(Began(c))) <= limit
               /\ SumOver(allowed[c], From(Began(c))) <= limit
               /\ SumOver(allowed[c], From(Began(c))) <= visitors[c].count
               /\ \A u \in Moments : u > visitors[c].windowEnd => allowed[c][u] = 0
CallerInv(c) == /\ \A u \in Moments : u > now => allowed[c][u] = 0
                /\ IF visitors[c] = None THEN Gone(c) ELSE UnderWay(c)

RateInv == TwiceTheLimitAtMost /\ \A c \in Callers : CallerInv(c)

(* A caller's history of calls that were let in.                              *)
History == [Moments -> Nat]

LEMMA MomentsAreFinite == \A S \in SUBSET Moments : IsFiniteSet(S)
<1>1. IsFiniteSet(Moments)
  BY LimitsAssumption, FS_Interval DEF Rate!LimitsAssumption, Moments
<1> QED BY <1>1, FS_Subset

LEMMA PartOfHistory ==
    ASSUME NEW f \in History, NEW S \in SUBSET Moments, NEW T \in SUBSET S
    PROVE  SumOver(f, S) \in Nat /\ SumOver(f, T) \in Nat /\ SumOver(f, T) <= SumOver(f, S)
<1>1. IsFiniteSet(S) /\ IsFiniteSet(T)
  BY MomentsAreFinite
<1>2. \A u \in S : f[u] \in Nat
  BY DEF History
<1>3. SumOver(f, S) \in Nat
  BY <1>1, <1>2, SumOfNaturals
<1>4. SumOver(f, T) \in Nat
  BY <1>1, <1>2, SumOfNaturals
<1>5. SumOver(f, T) <= SumOver(f, S)
  BY <1>1, <1>2, SumPart
<1> QED BY <1>3, <1>4, <1>5

(* What two stretches of time cover lets in no more than the two together.    *)
LEMMA CoveredByTwo ==
    ASSUME NEW f \in History, NEW A \in SUBSET Moments, NEW B \in SUBSET Moments, NEW S \in SUBSET (A \cup B)
    PROVE  SumOver(f, S) <= SumOver(f, A) + SumOver(f, B)
<1> DEFINE C == A \cup B
           g == [u \in C |-> IF u \in A THEN f[u] ELSE 0]
           h == [u \in C |-> IF u \in A THEN 0 ELSE f[u]]
<1>1. IsFiniteSet(A) /\ IsFiniteSet(B) /\ IsFiniteSet(C)
  BY MomentsAreFinite
<1>2. \A u \in C : /\ f[u] \in Int /\ g[u] \in Int /\ h[u] \in Int
                   /\ f[u] = g[u] + h[u] /\ h[u] <= f[u]
                   /\ u \in A => f[u] = g[u]
  BY DEF History
<1>3. SumOver(f, C) = SumOver(g, C) + SumOver(h, C)
  <2> HIDE DEF g, h, C
  <2> QED BY <1>1, <1>2, SumPlus
<1>4. SumOver(g, C) = SumOver(f, A)
  <2>1. \A u \in C \ A : g[u] = 0
    OBVIOUS
  <2>4. A \in SUBSET C
    OBVIOUS
  <2> HIDE DEF g, h, C
  <2>2. \A u \in C : g[u] \in Int
    BY <1>2
  <2>3. \A u \in A : g[u] \in Int /\ f[u] = g[u]
    BY <1>2, <2>4
  <2>5. SumOver(g, C) = SumOver(g, A)
    BY <1>1, <2>1, <2>2, <2>4, SumWithoutZeros
  <2>6. SumOver(f, A) = SumOver(g, A)
    BY <1>1, <2>3, SumSame
  <2> QED BY <2>5, <2>6
<1>5. SumOver(h, C) <= SumOver(f, B)
  <2>1. \A u \in C \ B : h[u] = 0
    OBVIOUS
  <2>4. B \in SUBSET C
    OBVIOUS
  <2> HIDE DEF g, h, C
  <2>2. \A u \in C : h[u] \in Int
    BY <1>2
  <2>3. \A u \in B : h[u] \in Int /\ f[u] \in Int /\ h[u] <= f[u]
    BY <1>2, <2>4
  <2>5. SumOver(h, C) = SumOver(h, B)
    BY <1>1, <2>1, <2>2, <2>4, SumWithoutZeros
  <2>6. SumOver(h, B) <= SumOver(f, B)
    BY <1>1, <2>3, SumMonotonic
  <2> QED BY <2>5, <2>6
<1>6. SumOver(f, S) <= SumOver(f, C) /\ SumOver(f, S) \in Nat /\ SumOver(f, C) \in Nat
  BY PartOfHistory
<1>7. SumOver(f, A) \in Nat /\ SumOver(f, B) \in Nat
  BY PartOfHistory
<1> HIDE DEF g, h, C
<1>8. SumOver(g, C) \in Int /\ SumOver(h, C) \in Int
  BY <1>1, <1>2, SumType
<1> QED BY <1>3, <1>4, <1>5, <1>6, <1>7, <1>8

(* One call more, at the moment m, counts once wherever m is.                 *)
CallMore(g, f, m) == g = [f EXCEPT ![m] = @ + 1]

LEMMA OneCallMore ==
    ASSUME NEW f \in History, NEW m \in Moments, NEW g, CallMore(g, f, m), NEW S \in SUBSET Moments
    PROVE  /\ g \in History
           /\ SumOver(g, S) = SumOver(f, S) + (IF m \in S THEN 1 ELSE 0)
<1> USE DEF CallMore
<1>1. g \in History /\ IsFiniteSet(S) /\ SumOver(f, S) \in Nat
  BY MomentsAreFinite, PartOfHistory DEF History
<1>2. \A u \in S : f[u] \in Int /\ g[u] \in Int
  BY <1>1 DEF History
<1>3. \A u \in S : u # m => g[u] = f[u]
  BY DEF History
<1>4. CASE m \in S
  <2>1. SumOver(g, S) = SumOver(f, S) + (g[m] - f[m])
    BY ONLY <1>1, <1>2, <1>3, <1>4, SumChange
  <2>2. g[m] - f[m] = 1
    BY DEF History
  <2> QED BY <1>1, <1>4, <2>1, <2>2
<1>5. CASE m \notin S
  <2>1. \A u \in S : f[u] \in Int /\ g[u] = f[u]
    BY <1>2, <1>3, <1>5
  <2>2. SumOver(g, S) = SumOver(f, S)
    BY <1>1, <2>1, SumSame
  <2> QED BY <1>1, <1>5, <2>2
<1> QED BY <1>1, <1>4, <1>5

LEMMA Limits ==
    /\ limit \in Nat \ {0} /\ window \in Nat \ {0} /\ MaxTime \in Nat /\ MaxCount \in Nat
    /\ \A v : v \in Rate!visitor => /\ v # None /\ v.count \in 0..MaxCount
                                    /\ v.windowEnd \in 0..MaxTime + window
<1>1. limit \in Nat \ {0} /\ window \in Nat \ {0} /\ MaxTime \in Nat /\ MaxCount \in Nat
  BY LimitsAssumption DEF Rate!LimitsAssumption
<1>2. ASSUME NEW v \in Rate!visitor
      PROVE  v # None /\ v.count \in 0..MaxCount /\ v.windowEnd \in 0..MaxTime + window
  <2>1. v \in [count: Nat, windowEnd: Nat]
    BY <1>1 DEF Rate!visitor
  <2> QED BY <2>1, UnseenAssumption DEF Rate!visitor
<1> QED BY <1>1, <1>2

LEMMA RateTypes ==
    ASSUME Rate!TypeOK, NEW c \in Callers
    PROVE  /\ now \in Moments /\ allowed[c] \in History /\ \A u \in Moments : allowed[c][u] \in Nat
           /\ visitors[c] # None => visitors[c] \in Rate!visitor
BY DEF Rate!TypeOK, Moments, History

(* A stretch of a window's length, at a moment of a window under way.         *)
LEMMA WindowAndBefore ==
    ASSUME NEW f \in History, NEW s \in Moments, NEW m \in Moments, s <= m, NEW t \in Moments, m \in Stretch(t),
           SumOver(f, Before(s)) <= limit, SumOver(f, From(s)) <= limit
    PROVE  SumOver(f, Stretch(t)) <= 2 * limit
<1>1. Before(s) \in SUBSET Moments /\ From(s) \in SUBSET Moments
  BY DEF Before, From
<1>2. Stretch(t) \in SUBSET (Before(s) \cup From(s))
  BY Limits DEF Stretch, Moments, Before, From
<1>3. SumOver(f, Stretch(t)) <= SumOver(f, Before(s)) + SumOver(f, From(s))
  BY <1>1, <1>2, CoveredByTwo
<1>4. SumOver(f, Stretch(t)) \in Nat /\ SumOver(f, Before(s)) \in Nat /\ SumOver(f, From(s)) \in Nat
  BY <1>1, <1>2, PartOfHistory
<1> QED BY <1>3, <1>4, Limits

(* A window that is over is as good as none.                                  *)
LEMMA OverIsGone ==
    ASSUME Rate!TypeOK, NEW c \in Callers, CallerInv(c), visitors[c] = None \/ Rate!Expired(visitors[c])
    PROVE  Gone(c)
<1>1. CASE visitors[c] = None
  BY <1>1 DEF CallerInv
<1>2. CASE visitors[c] # None
  <2>1. UnderWay(c) /\ now > visitors[c].windowEnd
    BY <1>2 DEF CallerInv, Rate!Expired
  <2>2. now \in Moments /\ allowed[c] \in History /\ visitors[c] \in Rate!visitor
    BY <1>2, RateTypes
  <2>3. allowed[c][now] = 0
    BY <2>1, <2>2 DEF UnderWay
  <2>4. Before(now) \in SUBSET From(Began(c)) /\ From(Began(c)) \in SUBSET Moments
    BY <2>1, <2>2, Limits DEF Before, From, Began, Moments
  <2>5. SumOver(allowed[c], Before(now)) <= SumOver(allowed[c], From(Began(c)))
    BY <2>2, <2>4, PartOfHistory
  <2>6. SumOver(allowed[c], Before(now)) \in Nat /\ SumOver(allowed[c], From(Began(c))) \in Nat
    BY <2>2, <2>4, PartOfHistory
  <2>7. SumOver(allowed[c], From(Began(c))) <= limit
    BY <2>1 DEF UnderWay
  <2> QED BY <2>3, <2>5, <2>6, <2>7, Limits DEF Gone
<1> QED BY <1>1, <1>2

LEMMA RateStarts == ASSUME Rate!Init PROVE RateInv
<1>1. now = 0 /\ visitors = [c \in Callers |-> None] /\ allowed = [c \in Callers |-> [t \in Moments |-> 0]]
  BY DEF Rate!Init, Rate!NewLimiter, Moments
<1>2. Rate!TypeOK
  BY <1>1, Limits DEF Rate!TypeOK, Moments
<1>3. ASSUME NEW c \in Callers, NEW S \in SUBSET Moments PROVE SumOver(allowed[c], S) = 0
  <2>1. IsFiniteSet(S)
    BY MomentsAreFinite
  <2>2. \A u \in S : allowed[c][u] = 0
    BY <1>1
  <2> QED BY <2>1, <2>2, SumOfZeros
<1>4. \A c \in Callers : CallerInv(c)
  <2> SUFFICES ASSUME NEW c \in Callers PROVE CallerInv(c)
    OBVIOUS
  <2>1. Before(now) \in SUBSET Moments
    BY DEF Before
  <2>2. SumOver(allowed[c], Before(now)) = 0
    BY <1>3, <2>1
  <2>3. visitors[c] = None /\ \A u \in Moments : allowed[c][u] = 0
    BY <1>1
  <2>4. now \in Moments
    BY <1>1, Limits DEF Moments
  <2> QED BY <2>2, <2>3, <2>4, Limits DEF CallerInv, Gone
<1>5. Rate!TwiceTheLimitAtMost
  <2> SUFFICES ASSUME NEW c \in Callers, NEW t \in Moments PROVE Rate!SumOver(allowed[c], Stretch(t)) <= 2 * limit
    BY DEF Rate!TwiceTheLimitAtMost, Stretch, Moments
  <2>1. Stretch(t) \in SUBSET Moments
    BY Limits DEF Stretch, Moments
  <2>2. Rate!SumOver(allowed[c], Stretch(t)) = 0
    BY <1>3, <2>1, RateSums
  <2> QED BY <2>2, Limits
<1> QED BY <1>2, <1>4, <1>5 DEF RateInv, TwiceTheLimitAtMost

LEMMA TickStep == ASSUME RateInv, Rate!Tick PROVE RateInv'
<1>1. now < MaxTime /\ now' = now + 1 /\ visitors' = visitors /\ allowed' = allowed
  BY DEF Rate!Tick
<1>2. Rate!TypeOK /\ Rate!TwiceTheLimitAtMost /\ \A c \in Callers : CallerInv(c)
  BY DEF RateInv, TwiceTheLimitAtMost
<1>3. now \in Nat /\ now \in Moments /\ now + 1 \in Moments
  BY <1>1, <1>2, Limits DEF Rate!TypeOK, Moments
<1>4. Rate!TypeOK' /\ Rate!TwiceTheLimitAtMost'
  BY <1>1, <1>2, <1>3 DEF Rate!TypeOK, Rate!TwiceTheLimitAtMost, Moments
<1>5. ASSUME NEW c \in Callers PROVE CallerInv(c)'
  <2>1. allowed[c] \in History /\ CallerInv(c)
    BY <1>2, RateTypes
  <2>2. \A u \in Moments : u > now => allowed[c][u] = 0
    BY <2>1 DEF CallerInv
  <2>3. CASE visitors[c] = None
    <3>1. SumOver(allowed[c], Before(now)) <= limit /\ allowed[c][now] = 0
      BY <2>1, <2>3 DEF CallerInv, Gone
    <3> DEFINE T == Before(now) \cup {now}
    <3>2. T \in SUBSET Moments /\ Before(now) \in SUBSET T /\ Before(now + 1) \in SUBSET T
      BY <1>3, Limits DEF Before, Moments
    <3>3. SumOver(allowed[c], T) = SumOver(allowed[c], Before(now))
      <4>1. IsFiniteSet(T) /\ \A u \in T : allowed[c][u] \in Int
        BY <2>1, <3>2, MomentsAreFinite DEF History
      <4>2. \A u \in T \ Before(now) : allowed[c][u] = 0
        BY <3>1
      <4> HIDE DEF T
      <4> QED BY <3>2, <4>1, <4>2, SumWithoutZeros
    <3>4. /\ SumOver(allowed[c], Before(now + 1)) <= SumOver(allowed[c], T)
          /\ SumOver(allowed[c], Before(now + 1)) \in Nat /\ SumOver(allowed[c], T) \in Nat
      <4> HIDE DEF T
      <4> QED BY <2>1, <3>2, PartOfHistory
    <3>5. SumOver(allowed[c], Before(now + 1)) <= limit
      BY <3>1, <3>3, <3>4, Limits
    <3>6. allowed[c][now + 1] = 0
      BY <1>3, <2>2
    <3> QED BY <1>1, <1>3, <2>2, <2>3, <3>5, <3>6 DEF CallerInv, Gone, Moments
  <2>4. CASE visitors[c] # None
    <3>1. UnderWay(c)
      BY <2>1, <2>4 DEF CallerInv
    <3>2. UnderWay(c)'
      BY <1>1, <1>3, <3>1 DEF UnderWay, Began
    <3> QED BY <1>1, <1>3, <2>2, <2>4, <3>2 DEF CallerInv, Moments
  <2> QED BY <2>3, <2>4
<1> QED BY <1>4, <1>5 DEF RateInv, TwiceTheLimitAtMost

(* The window of a caller that is let in or refused, and what is left of the  *)
(* others after the sweep.                                                    *)
LEMMA CountedAndSwept ==
    ASSUME Rate!TypeOK, NEW c \in Callers, Rate!Allow(c)
    PROVE  /\ visitors'[c] = Rate!Count(c) /\ Rate!Count(c) \in Rate!visitor
           /\ \A d \in Callers \ {c} : \/ visitors'[d] = visitors[d]
                                       \/ visitors'[d] = None /\ Rate!Expired(visitors[d])
           /\ visitors' \in [Callers -> Rate!visitor \cup {None}]
<1> DEFINE v == Rate!Count(c)
           vs == [visitors EXCEPT ![c] = v]
<1>1. /\ v.count <= MaxCount
      /\ visitors' = IF Rate!Size(vs) > evictThreshold THEN Rate!evictExpiredLocked(vs) ELSE vs
  BY DEF Rate!Allow
<1>2. now \in 0..MaxTime /\ visitors \in [Callers -> Rate!visitor \cup {None}]
  BY DEF Rate!TypeOK
<1>3. v \in Rate!visitor /\ ~Rate!Expired(v)
  <2>1. CASE visitors[c] = None \/ Rate!Expired(visitors[c])
    <3>1. v = [count |-> 1, windowEnd |-> now + window]
      BY <2>1 DEF Rate!Count
    <3> QED BY <1>1, <1>2, <3>1, Limits DEF Rate!visitor, Rate!Expired
  <2>2. CASE visitors[c] # None /\ ~Rate!Expired(visitors[c])
    <3>1. v = [visitors[c] EXCEPT !.count = @ + 1]
      BY <2>2 DEF Rate!Count
    <3>2. visitors[c] \in Rate!visitor
      BY <1>2, <2>2
    <3>3. now <= visitors[c].windowEnd
      BY <1>2, <2>2, <3>2, Limits DEF Rate!Expired
    <3> QED BY <1>1, <1>2, <3>1, <3>2, <3>3, Limits DEF Rate!visitor, Rate!Expired
  <2> QED BY <2>1, <2>2
<1> HIDE DEF v
<1>4. vs \in [Callers -> Rate!visitor \cup {None}] /\ vs[c] = v /\ \A d \in Callers \ {c} : vs[d] = visitors[d]
  BY <1>2, <1>3
<1> HIDE DEF vs
<1>5. CASE visitors' = vs
  BY <1>3, <1>4, <1>5 DEF v
<1>6. CASE visitors' = Rate!evictExpiredLocked(vs)
  <2>1. visitors' = [d \in Callers |-> IF Rate!Expired(vs[d]) THEN None ELSE vs[d]]
    BY <1>6 DEF Rate!evictExpiredLocked
  <2>2. visitors'[c] = v
    BY <1>3, <1>4, <2>1
  <2> QED BY <1>3, <1>4, <2>1, <2>2 DEF v
<1> QED BY <1>1, <1>5, <1>6

(* Whoever does not call keeps a window, or loses one that is over.           *)
LEMMA OthersAreKept ==
    ASSUME Rate!TypeOK, NEW d \in Callers, CallerInv(d), now' = now, allowed'[d] = allowed[d],
           \/ visitors'[d] = visitors[d]
           \/ visitors'[d] = None /\ Rate!Expired(visitors[d])
    PROVE  CallerInv(d)'
<1>1. CASE visitors'[d] = visitors[d]
  BY <1>1 DEF CallerInv, Gone, UnderWay, Began
<1>2. CASE visitors'[d] = None /\ Rate!Expired(visitors[d])
  <2>1. Gone(d)
    BY <1>2, OverIsGone
  <2> QED BY <1>2, <2>1 DEF CallerInv, Gone
<1> QED BY <1>1, <1>2

(* The caller's own window afterwards.                                        *)
LEMMA CallerCounts ==
    ASSUME Rate!TypeOK, NEW c \in Callers, CallerInv(c), Rate!Allow(c)
    PROVE  visitors'[c] # None /\ UnderWay(c)' /\ CallerInv(c)'
<1> DEFINE v == Rate!Count(c)
           f == allowed[c]
           g == allowed'[c]
           s == v.windowEnd - window
<1>1. now' = now /\ visitors'[c] = v /\ v \in Rate!visitor /\ v # None
  BY CountedAndSwept, Limits DEF Rate!Allow
<1>2. now \in Moments /\ f \in History /\ allowed \in [Callers -> History]
  BY RateTypes DEF Rate!TypeOK, History, Moments
<1>3. g = IF v.count <= limit THEN [f EXCEPT ![now] = @ + 1] ELSE f
  BY <1>2 DEF Rate!Allow
<1>4. /\ \A u \in Moments : u > now => f[u] = 0
      /\ IF visitors[c] = None THEN Gone(c) ELSE UnderWay(c)
  BY DEF CallerInv
<1>5. /\ g \in History
      /\ \A S \in SUBSET Moments :
            /\ SumOver(f, S) \in Nat
            /\ SumOver(g, S) = SumOver(f, S) + (IF v.count <= limit /\ now \in S THEN 1 ELSE 0)
  <2>1. \A S \in SUBSET Moments : SumOver(f, S) \in Nat
    BY <1>2, PartOfHistory
  <2> HIDE DEF f, g, v
  <2>2. CASE v.count <= limit
    <3>1. g = [f EXCEPT ![now] = @ + 1]
      BY <1>3, <2>2
    <3>2. g \in History
      BY <1>2, <3>1, MomentsAreFinite DEF History
    <3>3. ASSUME NEW S \in SUBSET Moments PROVE SumOver(g, S) = SumOver(f, S) + (IF now \in S THEN 1 ELSE 0)
      <4>1. CallMore(g, f, now)
        BY <3>1 DEF CallMore
      <4>2. f \in History /\ now \in Moments
        BY <1>2
      <4>3. g \in History /\ SumOver(g, S) = SumOver(f, S) + (IF now \in S THEN 1 ELSE 0)
        BY ONLY <4>1, <4>2, S \in SUBSET Moments, OneCallMore
      <4> QED BY <4>3
    <3> QED BY <2>1, <2>2, <3>2, <3>3
  <2>3. CASE ~(v.count <= limit)
    BY <1>2, <1>3, <2>1, <2>3
  <2> QED BY <2>2, <2>3
<1>6. \A u \in Moments : u > now => g[u] = 0
  BY <1>2, <1>3, <1>4 DEF History, Moments
<1>7. UnderWay(c)'
  <2>1. CASE visitors[c] = None \/ Rate!Expired(visitors[c])
    <3>1. v = [count |-> 1, windowEnd |-> now + window]
      BY <2>1 DEF Rate!Count
    <3>2. SumOver(f, Before(now)) <= limit /\ f[now] = 0
      BY <2>1, OverIsGone DEF Gone
    <3>3. s = now /\ v.count = 1 /\ v.windowEnd = now + window /\ now \in Nat
      BY <1>2, <3>1, Limits DEF Moments
    <3>4. Before(now) \in SUBSET Moments /\ From(now) \in SUBSET Moments /\ now \notin Before(now)
      BY <1>2, Limits DEF Before, From, Moments
    <3>5. SumOver(f, From(now)) = 0
      <4>1. IsFiniteSet(From(now)) /\ \A u \in From(now) : f[u] = 0
        BY <1>2, <1>4, <3>2, <3>4, MomentsAreFinite DEF From, Moments
      <4> QED BY <4>1, SumOfZeros
    <3> HIDE DEF f, g, v, s
    <3>6. SumOver(g, Before(now)) <= limit
      BY <1>5, <3>2, <3>4
    <3>7. SumOver(g, From(now)) <= 1
      BY <1>5, <3>4, <3>5
    <3>8. SumOver(g, From(now)) \in Int
      BY <1>5, <3>4, <3>5
    <3>9. \A u \in Moments : u > v.windowEnd => g[u] = 0
      BY <1>2, <1>6, <3>3, Limits DEF Moments
    <3>10. Began(c)' = now
      BY <1>1, <3>3 DEF Began, s
    <3> QED BY <1>1, <3>3, <3>6, <3>7, <3>8, <3>9, <3>10, Limits DEF UnderWay, g
  <2>2. CASE visitors[c] # None /\ ~Rate!Expired(visitors[c])
    <3>1. v = [visitors[c] EXCEPT !.count = @ + 1]
      BY <2>2 DEF Rate!Count
    <3>2. visitors[c] \in Rate!visitor /\ visitors[c].windowEnd \in Nat /\ visitors[c].count \in Nat
      BY <2>2, RateTypes, Limits
    <3>3. v.windowEnd = visitors[c].windowEnd /\ v.count = visitors[c].count + 1 /\ now <= v.windowEnd /\ now \in Nat
      BY <1>2, <2>2, <3>1, <3>2, Limits DEF Rate!visitor, Rate!Expired, Moments
    <3>4. /\ s \in 0..now /\ SumOver(f, Before(s)) <= limit
          /\ SumOver(f, From(s)) <= limit /\ SumOver(f, From(s)) <= visitors[c].count
          /\ \A u \in Moments : u > v.windowEnd => f[u] = 0
      BY <1>4, <2>2, <3>3 DEF UnderWay, Began
    <3>5. Before(s) \in SUBSET Moments /\ From(s) \in SUBSET Moments /\ now \notin Before(s)
      BY <1>2, <3>4 DEF Before, From, Moments
    <3>6. Began(c)' = s
      BY <1>1 DEF Began
    <3> HIDE DEF f, g, v, s
    <3>7. SumOver(g, Before(s)) <= limit
      BY <1>5, <3>4, <3>5
    <3>8. SumOver(g, From(s)) <= limit /\ SumOver(g, From(s)) <= v.count
      <4>1. SumOver(f, From(s)) \in Nat
        BY <1>5, <3>5
      <4>2. SumOver(g, From(s)) <= SumOver(f, From(s)) + 1
        BY <1>5, <3>5
      <4>3. v.count > limit => SumOver(g, From(s)) = SumOver(f, From(s))
        BY <1>5, <3>2, <3>3, <3>5, Limits
      <4>4. SumOver(g, From(s)) \in Nat
        BY <1>5, <3>5
      <4> QED BY <3>2, <3>3, <3>4, <4>1, <4>2, <4>3, <4>4, Limits
    <3>9. \A u \in Moments : u > v.windowEnd => g[u] = 0
      BY <1>2, <1>6, <3>2, <3>3 DEF Moments
    <3> QED BY <1>1, <3>4, <3>6, <3>7, <3>8, <3>9 DEF UnderWay, g
  <2> QED BY <2>1, <2>2
<1> QED BY <1>1, <1>6, <1>7 DEF CallerInv

LEMMA AllowStep == ASSUME RateInv, NEW c \in Callers, Rate!Allow(c) PROVE RateInv'
<1>1. Rate!TypeOK /\ Rate!TwiceTheLimitAtMost /\ \A d \in Callers : CallerInv(d)
  BY DEF RateInv, TwiceTheLimitAtMost
<1>2. now' = now /\ now \in Moments /\ allowed \in [Callers -> History]
  BY <1>1 DEF Rate!Allow, Rate!TypeOK, Moments, History
<1>3. /\ allowed' \in [Callers -> History]
      /\ \A d \in Callers \ {c} : allowed'[d] = allowed[d]
      /\ \A u \in Moments : u # now => allowed'[c][u] = allowed[c][u]
  BY <1>2 DEF Rate!Allow, History
<1>4. Rate!TypeOK'
  BY <1>1, <1>2, <1>3, CountedAndSwept DEF Rate!TypeOK, History, Moments
<1>5. visitors'[c] # None /\ UnderWay(c)' /\ CallerInv(c)'
  BY <1>1, CallerCounts
<1>6. \A d \in Callers : CallerInv(d)'
  <2> SUFFICES ASSUME NEW d \in Callers \ {c} PROVE CallerInv(d)'
    BY <1>5
  <2>1. visitors'[d] = visitors[d] \/ (visitors'[d] = None /\ Rate!Expired(visitors[d]))
    BY <1>1, CountedAndSwept
  <2> QED BY <1>1, <1>2, <1>3, <2>1, OthersAreKept
<1>7. ASSUME NEW d \in Callers, NEW t \in Moments
      PROVE  SumOver(allowed'[d], Stretch(t)) <= 2 * limit
  <2>1. SumOver(allowed[d], Stretch(t)) <= 2 * limit
    BY <1>1, RateSums DEF Rate!TwiceTheLimitAtMost, Stretch, Moments
  <2>2. Stretch(t) \in SUBSET Moments /\ IsFiniteSet(Stretch(t))
    BY Limits, MomentsAreFinite DEF Stretch, Moments
  <2>3. CASE d = c /\ now \in Stretch(t)
    <3> DEFINE f == allowed'[c]
               s == Began(c)'
    <3>1. s \in 0..now /\ SumOver(f, Before(s)) <= limit /\ SumOver(f, From(s)) <= limit
      BY <1>2, <1>5 DEF UnderWay
    <3>2. f \in History
      BY <1>3
    <3> HIDE DEF f, s
    <3>4. s \in Moments /\ s <= now
      BY <1>2, <3>1, Limits DEF Moments
    <3>3. SumOver(f, Stretch(t)) <= 2 * limit
      BY <1>2, <2>3, <3>1, <3>2, <3>4, WindowAndBefore
    <3> QED BY <2>3, <3>3 DEF f
  <2>4. CASE d # c \/ now \notin Stretch(t)
    <3>1. \A u \in Stretch(t) : allowed[d][u] \in Int /\ allowed'[d][u] = allowed[d][u]
      BY <1>2, <1>3, <2>2, <2>4 DEF History
    <3>2. SumOver(allowed'[d], Stretch(t)) = SumOver(allowed[d], Stretch(t))
      BY <2>2, <3>1, SumSame
    <3> QED BY <2>1, <3>2
  <2> QED BY <2>3, <2>4
<1>8. Rate!TwiceTheLimitAtMost'
  <2>1. \A d \in Callers, t \in 0..MaxTime : Rate!SumOver(allowed'[d], {u \in t..(t + window) : u <= MaxTime}) <= 2 * limit
    BY <1>7, RateSums DEF Stretch, Moments
  <2> QED BY <2>1 DEF Rate!TwiceTheLimitAtMost
<1> QED BY <1>4, <1>6, <1>8 DEF RateInv, TwiceTheLimitAtMost

LEMMA RateStep == ASSUME RateInv, [Rate!Next]_(Rate!vars) PROVE RateInv'
<1>1. CASE UNCHANGED Rate!vars
  BY <1>1 DEF Rate!vars, RateInv, TwiceTheLimitAtMost, Rate!TypeOK, Rate!TwiceTheLimitAtMost,
              CallerInv, Gone, UnderWay, Began
<1>2. CASE Rate!Next
  BY <1>2, TickStep, AllowStep DEF Rate!Next
<1> QED BY <1>1, <1>2

(* TwiceTheLimitAtMost: a fixed window lets its limit through at its end and  *)
(* the next window its own at once, and no sweep adds to that.                *)
THEOREM LimitHolds == Rate!Spec => []TwiceTheLimitAtMost
<1>1. Rate!Init => RateInv
  BY RateStarts
<1>2. RateInv /\ [Rate!Next]_(Rate!vars) => RateInv'
  BY RateStep
<1>3. RateInv => TwiceTheLimitAtMost
  BY DEF RateInv
<1> QED BY <1>1, <1>2, <1>3, PTL DEF Rate!Spec
=============================================================================

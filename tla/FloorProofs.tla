----------------------------- MODULE FloorProofs -----------------------------
(* For any number of requests, rounds, tokens and moments: a link to a shared *)
(* bill that was replaced, was revoked or has expired is dead for good, and a *)
(* page shows what was on the bill at one moment. For any number of           *)
(* transactions, bills and carts: whoever waits in a circle, some of them go   *)
(* from variant to variant against the others' order. For any number of       *)
(* devices, intents and taps: what the tabs page took is on the bill, nothing *)
(* is owed back, and an idle page that stayed shows what was done there.      *)
EXTENDS Floor, SumTheorems


LinkRow == [token: Nat, expires: Nat, revoked: BOOLEAN]
Round == [variant: Variants, quantity: Int, price: Nat, occurred: Nat]

(* The row and the clock, and what a request is about to make of the row.     *)
LinkInv == /\ link \in LinkRow /\ clock \in Nat /\ tokens \in Nat
           /\ request = [q \in Requests |-> request[q]]
           /\ \A q \in Requests : At(q, "create") => Open(q).token \in Nat /\ Open(q).expires \in Nat

(* The sales of a page are the rounds there were when it read them, in        *)
(* whatever order the clocks of the devices gave them.                        *)
Reordered(sales, n) ==
    \E order \in Bijection(1..n, 1..n) : sales = [k \in 1..n |-> rounds[order[k]]]

Reading(q) == At(q, "resolve") \/ At(q, "bill") \/ At(q, "sales")

PageInv == /\ rounds \in Seq(Round)
           /\ \A q \in Requests :
                 /\ Reading(q) => Open(q).from \in 0..Len(rounds)
                 /\ At(q, "page") => /\ Open(q).from \in Nat /\ Open(q).to \in 0..Len(rounds)
                                     /\ Open(q).from <= Open(q).to
                                     /\ Reordered(Open(q).sales, Open(q).to)

IInv == LinkInv /\ PageInv

LEMMA InitInv == Init => IInv
BY DEF Init, IInv, LinkInv, PageInv, LinkRow, Null, Free, At, Open, Reading

(******************************************************************************)
(* What a request goes on to is its own affair.                               *)
(******************************************************************************)
LEMMA OthersStay ==
    ASSUME IInv, NEW q \in Requests, NEW next, Proceed(q, next)
    PROVE  /\ request'[q] = next
           /\ \A r \in Requests \ {q} : request'[r] = request[r]
           /\ request' = [r \in Requests |-> request'[r]]
<1>1. request = [r \in Requests |-> request[r]]
  BY DEF IInv, LinkInv
<1>2. request' = [request EXCEPT ![q] = next]
  BY DEF Proceed
<1> QED BY <1>1, <1>2

(* A request goes on, and not to make a link. *)
LEMMA LinkStays ==
    ASSUME IInv, NEW q \in Requests, NEW next, next.at # "create", Proceed(q, next), UNCHANGED <<link, clock, tokens>>
    PROVE  LinkInv'
BY OthersStay DEF IInv, LinkInv, At, Open

(* A request goes on, having read what next says. *)
LEMMA PageStays ==
    ASSUME IInv, NEW q \in Requests, NEW next, Proceed(q, next), UNCHANGED rounds,
           next.at \in {"resolve", "bill", "sales"} => next.from \in 0..Len(rounds),
           next.at = "page" => /\ next.from \in Nat /\ next.to \in 0..Len(rounds)
                               /\ next.from <= next.to /\ Reordered(next.sales, next.to)
    PROVE  PageInv'
<1>1. request'[q] = next /\ \A r \in Requests \ {q} : request'[r] = request[r]
  BY OthersStay
<1>2. rounds' = rounds
  OBVIOUS
<1> SUFFICES ASSUME NEW r \in Requests
             PROVE  /\ Reading(r)' => request'[r].from \in 0..Len(rounds)
                    /\ At(r, "page")' => /\ request'[r].from \in Nat /\ request'[r].to \in 0..Len(rounds)
                                         /\ request'[r].from <= request'[r].to
                                         /\ Reordered(request'[r].sales, request'[r].to)
  BY <1>2 DEF IInv, PageInv, Open, Reordered
<1>3. CASE r = q
  BY <1>1, <1>3 DEF Reading, At, Open
<1>4. CASE r # q
  BY <1>1, <1>4 DEF IInv, PageInv, Reading, At, Open
<1> QED BY <1>3, <1>4

(* A round more, and the pages read before stay as they are. *)
LEMMA RoundPosted ==
    ASSUME IInv, NEW round \in Round, rounds' = Append(rounds, round), UNCHANGED request
    PROVE  PageInv'
<1>1. /\ rounds \in Seq(Round) /\ rounds' \in Seq(Round)
      /\ Len(rounds) \in Nat /\ Len(rounds') = Len(rounds) + 1
      /\ \A i \in 1..Len(rounds) : rounds'[i] = rounds[i]
  BY DEF IInv, PageInv
<1>2. ASSUME NEW sales, NEW n \in 0..Len(rounds), Reordered(sales, n)
      PROVE  Reordered(sales, n)'
  <2>1. PICK order \in Bijection(1..n, 1..n) : sales = [k \in 1..n |-> rounds[order[k]]]
    BY <1>2 DEF Reordered
  <2>2. \A k \in 1..n : order[k] \in 1..n
    BY <2>1 DEF Bijection, Injection
  <2>3. \A k \in 1..n : order[k] \in 1..Len(rounds)
    BY <1>1, <2>2
  <2>4. sales = [k \in 1..n |-> rounds'[order[k]]]
    BY <1>1, <2>1, <2>3
  <2> QED BY <2>1, <2>4 DEF Reordered
<1> SUFFICES ASSUME NEW q \in Requests
             PROVE  /\ Reading(q) => request[q].from \in 0..Len(rounds')
                    /\ At(q, "page") => /\ request[q].from \in Nat /\ request[q].to \in 0..Len(rounds')
                                        /\ request[q].from <= request[q].to
                                        /\ Reordered(request[q].sales, request[q].to)'
  BY <1>1 DEF PageInv, Open, At, Reading
<1>3. CASE Reading(q)
  <2>1. request[q].from \in 0..Len(rounds) /\ ~At(q, "page")
    BY <1>3 DEF IInv, PageInv, Reading, At, Open
  <2> QED BY <1>1, <2>1
<1>4. CASE At(q, "page")
  <2>1. /\ request[q].from \in Nat /\ request[q].to \in 0..Len(rounds)
        /\ request[q].from <= request[q].to /\ Reordered(request[q].sales, request[q].to)
    BY <1>4 DEF IInv, PageInv, Open
  <2>2. PICK n \in 0..Len(rounds) : n = request[q].to
    BY <2>1
  <2> PICK sales : sales = request[q].sales
    OBVIOUS
  <2>3. Reordered(sales, n)'
    BY <1>2, <2>1, <2>2
  <2>4. Reordered(request[q].sales, request[q].to)'
    BY <2>2, <2>3
  <2>5. ~Reading(q)
    BY <1>4 DEF Reading, At
  <2> QED BY <1>1, <2>1, <2>4, <2>5
<1> QED BY <1>3, <1>4

LEMMA Posts ==
    ASSUME IInv, NEW v \in Variants, NEW n \in Quantities, NEW p \in Prices, NEW occurred \in 1..clock,
           Post(v, n, p, occurred) \/ Post(v, -n, p, occurred)
    PROVE  IInv'
<1>1. n \in Int /\ p \in Nat
  BY AmountsAssumption
<1>2. occurred \in Nat
  BY DEF IInv, LinkInv
<1>3. PICK quantity \in {n, -n} : Post(v, quantity, p, occurred)
  OBVIOUS
<1> DEFINE round == [variant |-> v, quantity |-> quantity, price |-> p, occurred |-> occurred]
<1>4. round \in Round
  BY <1>1, <1>2 DEF Round
<1>5. rounds' = Append(rounds, round) /\ UNCHANGED <<link, tokens, clock, request>>
  BY <1>3 DEF Post
<1> HIDE DEF round
<1>6. PageInv'
  BY <1>4, <1>5, RoundPosted
<1>7. LinkInv'
  BY <1>5 DEF IInv, LinkInv, At, Open
<1> QED BY <1>6, <1>7 DEF IInv

(* Neither the bill nor what a request has read of it changes. *)
LEMMA BillStays ==
    ASSUME IInv, UNCHANGED <<rounds, request>>
    PROVE  PageInv'
BY DEF IInv, PageInv, Reading, At, Open, Reordered

(* The list a page reads is the bill's rounds in some order. *)
LEMMA ListIsReordered ==
    ASSUME IInv, NEW sales \in ListSalesByBillID
    PROVE  Reordered(sales, Len(rounds))
<1>1. DOMAIN rounds = 1..Len(rounds)
  BY DEF IInv, PageInv
<1> QED BY <1>1 DEF ListSalesByBillID, Reordered

LEMMA Makes ==
    ASSUME IInv, NEW q \in Requests, createOrRotateBillShareLink(q) \/ CreateOrRotateShareLink(q)
    PROVE  IInv'
<1>1. CASE createOrRotateBillShareLink(q)
  <2>1. PICK expires \in {Null} \union ((clock + 1)..LastMoment) :
            Proceed(q, [at |-> "create", token |-> tokens + 1, expires |-> expires])
    BY <1>1 DEF createOrRotateBillShareLink
  <2>2. expires \in Nat
    BY BoundsAssumption DEF IInv, LinkInv, Null
  <2>3. tokens' = tokens + 1 /\ UNCHANGED <<rounds, link, clock>>
    BY <1>1 DEF createOrRotateBillShareLink, bill
  <2> DEFINE next == [at |-> "create", token |-> tokens + 1, expires |-> expires]
  <2>4. PageInv'
    BY <2>1, <2>3, PageStays
  <2>5. LinkInv'
    BY <2>1, <2>2, <2>3, OthersStay DEF IInv, LinkInv, At, Open
  <2> QED BY <2>4, <2>5 DEF IInv
<1>2. CASE CreateOrRotateShareLink(q)
  <2>1. link' \in LinkRow
    BY <1>2 DEF CreateOrRotateShareLink, UpsertBillShareLink, IInv, LinkInv, LinkRow
  <2>2. Proceed(q, Free) /\ UNCHANGED <<rounds, tokens, clock>>
    BY <1>2 DEF CreateOrRotateShareLink, bill
  <2>3. PageInv'
    BY <2>2, PageStays DEF Free
  <2>4. LinkInv'
    BY <2>1, <2>2, OthersStay DEF IInv, LinkInv, At, Open, Free
  <2> QED BY <2>3, <2>4 DEF IInv
<1> QED BY <1>1, <1>2

LEMMA Resolves ==
    ASSUME IInv, NEW q \in Requests, getPublicBill(q) \/ ResolveShareLink(q) \/ Leave(q)
    PROVE  IInv'
<1>1. UNCHANGED <<rounds, link, tokens, clock>>
  BY DEF getPublicBill, ResolveShareLink, Leave, bill
<1>2. PICK next : /\ Proceed(q, next)
                  /\ next.at \in {"free", "resolve", "bill"}
                  /\ next.at \in {"resolve", "bill"} => next.from \in 0..Len(rounds)
  <2>1. CASE getPublicBill(q)
    <3>1. PICK token : Proceed(q, [at |-> "resolve", token |-> token, from |-> Len(rounds)])
      BY <2>1 DEF getPublicBill
    <3>2. Len(rounds) \in 0..Len(rounds)
      BY DEF IInv, PageInv
    <3> QED BY <3>1, <3>2
  <2>2. CASE ResolveShareLink(q)
    <3>1. request[q].from \in 0..Len(rounds)
      BY <2>2 DEF ResolveShareLink, IInv, PageInv, Reading, Open
    <3>2. Proceed(q, [at |-> "bill", from |-> request[q].from]) \/ Proceed(q, Free)
      BY <2>2 DEF ResolveShareLink, Open
    <3> QED BY <3>1, <3>2 DEF Free
  <2>3. CASE Leave(q)
    BY <2>3 DEF Leave, Free
  <2> QED BY <2>1, <2>2, <2>3
<1>3. PageInv'
  BY <1>1, <1>2, PageStays
<1>4. LinkInv'
  BY <1>1, <1>2, LinkStays
<1> QED BY <1>3, <1>4 DEF IInv

LEMMA ReadsBill ==
    ASSUME IInv, NEW q \in Requests, GetBillDetail(q)
    PROVE  IInv'
<1>1. UNCHANGED <<rounds, link, tokens, clock>>
  BY DEF GetBillDetail, bill
<1>2. request[q].from \in 0..Len(rounds) /\ Len(rounds) \in Nat
  BY DEF GetBillDetail, IInv, PageInv, Reading, Open
<1>3. CASE At(q, "bill") /\ Proceed(q, [at |-> "sales", from |-> request[q].from, balance |-> Balance])
  <2>1. PageInv'
    BY <1>1, <1>2, <1>3, PageStays
  <2>2. LinkInv'
    BY <1>1, <1>3, LinkStays
  <2> QED BY <2>1, <2>2 DEF IInv
<1>4. ASSUME NEW sales \in ListSalesByBillID,
             Proceed(q, [at |-> "page", from |-> request[q].from, balance |-> request[q].balance,
                         sales |-> sales, to |-> Len(rounds)])
      PROVE  IInv'
  <2>1. Reordered(sales, Len(rounds))
    BY ListIsReordered
  <2>2. PageInv'
    BY <1>1, <1>2, <1>4, <2>1, PageStays
  <2>3. LinkInv'
    BY <1>1, <1>4, LinkStays
  <2> QED BY <2>2, <2>3 DEF IInv
<1> QED BY <1>3, <1>4 DEF GetBillDetail, Open

LEMMA StepInv == ASSUME IInv, [Next]_vars PROVE IInv'
<1>1. CASE UNCHANGED vars
  BY <1>1, BillStays DEF vars, bill, IInv, LinkInv, At, Open
<1>2. CASE AddSaleRound \/ RemoveBillItem
  <2>1. PICK v \in Variants, n \in Quantities, p \in Prices, occurred \in 1..clock :
            Post(v, n, p, occurred) \/ Post(v, -n, p, occurred)
    BY <1>2 DEF AddSaleRound, RemoveBillItem
  <2> QED BY <2>1, Posts
<1>3. CASE RecordPayment
  BY <1>3, BillStays DEF RecordPayment, IInv, LinkInv, At, Open
<1>4. CASE RevokeShareLink
  BY <1>4, BillStays DEF RevokeShareLink, RevokeBillShareLinkByBillID, bill, IInv, LinkInv, LinkRow, At, Open
<1>5. CASE Tick
  BY <1>5, BillStays DEF Tick, bill, IInv, LinkInv, At, Open
<1>6. ASSUME NEW q \in Requests, createOrRotateBillShareLink(q) \/ CreateOrRotateShareLink(q) PROVE IInv'
  BY <1>6, Makes
<1>7. ASSUME NEW q \in Requests, getPublicBill(q) \/ ResolveShareLink(q) \/ Leave(q) PROVE IInv'
  BY <1>7, Resolves
<1>8. ASSUME NEW q \in Requests, GetBillDetail(q) PROVE IInv'
  BY <1>8, ReadsBill
<1> QED BY <1>1, <1>2, <1>3, <1>4, <1>5, <1>6, <1>7, <1>8 DEF Next

(******************************************************************************)
(* A page that reads the first n rounds in any order shows what they come to. *)
(******************************************************************************)
LEMMA FirstRounds ==
    ASSUME IInv, NEW n \in 0..Len(rounds), NEW then, then = SubSeq(rounds, 1, n)
    PROVE  /\ DOMAIN then = 1..n
           /\ \A i \in 1..n : then[i] = rounds[i] /\ then[i] \in Round
<1>1. rounds \in Seq(Round) /\ Len(rounds) \in Nat
  BY DEF IInv, PageInv
<1>2. n \in Nat /\ \A i \in 1..n : i \in 1..Len(rounds)
  BY <1>1
<1>3. then = [i \in 1..n |-> rounds[i]]
  BY <1>1, <1>2
<1> QED BY <1>1, <1>2, <1>3

(* The columns of the page are those of the rounds, moved. *)
LEMMA MovedColumn ==
    ASSUME NEW n \in Nat, NEW order,
           NEW S \in SUBSET (1..n), NEW T, Renames(order, S, T),
           NEW f, NEW g, Moved(g, f, order, 1..n)
    PROVE  SumOver(g, S) = SumOver(f, T)
<1>1. IsFiniteSet(S)
  <2>1. IsFiniteSet(1..n)
    BY FS_Interval
  <2> QED BY <2>1, FS_Subset
<1>2. Moved(g, f, order, S)
  BY DEF Moved
<1> QED BY <1>1, <1>2, SumMoved

LEMMA SameColumns ==
    ASSUME NEW n \in Nat, NEW then, DOMAIN then = 1..n, \A i \in 1..n : then[i] \in Round,
           NEW order \in Bijection(1..n, 1..n), NEW sales, sales = [k \in 1..n |-> then[order[k]]],
           NEW v
    PROVE  /\ SumBillItemQuantityByVariant(sales, v) = SumBillItemQuantityByVariant(then, v)
           /\ LinesOver(sales, Of(sales, v)) = LinesOver(then, Of(then, v))
           /\ Total(sales) = Total(then)
<1>1. /\ \A k \in 1..n : order[k] \in 1..n
      /\ \A j, k \in 1..n : order[j] = order[k] => j = k
      /\ \A i \in 1..n : \E k \in 1..n : order[k] = i
  BY DEF Bijection, Injection, Surjection, IsInjective
<1>2. DOMAIN sales = 1..n /\ \A k \in 1..n : sales[k] = then[order[k]]
  OBVIOUS
<1>3. \A i \in 1..n : then[i].quantity \in Int /\ LineTotal(then[i]) \in Int
  <2> SUFFICES ASSUME NEW i \in 1..n PROVE then[i].quantity \in Int /\ LineTotal(then[i]) \in Int
    OBVIOUS
  <2>1. then[i].quantity \in Int /\ then[i].price \in Int
    BY DEF Round
  <2>2. \A a, b \in Int : a * b \in Int
    OBVIOUS
  <2> QED BY <2>1, <2>2 DEF LineTotal
<1>4. Renames(order, 1..n, 1..n)
  BY <1>1 DEF Renames
<1>5. Of(sales, v) \in SUBSET (1..n)
  BY <1>2 DEF Of
<1>6. Renames(order, Of(sales, v), Of(then, v))
  <2>1. \A k \in 1..n : k \in Of(sales, v) <=> order[k] \in Of(then, v)
    BY <1>1, <1>2 DEF Of
  <2>2. Of(then, v) \in SUBSET (1..n)
    BY DEF Of
  <2> HIDE DEF Of
  <2> QED BY ONLY <1>1, <1>5, <2>1, <2>2 DEF Renames
<1> DEFINE f == [i \in 1..n |-> then[i].quantity]
           g == [k \in 1..n |-> sales[k].quantity]
           ft == [i \in 1..n |-> LineTotal(then[i])]
           gt == [k \in 1..n |-> LineTotal(sales[k])]
<1>7. Moved(g, f, order, 1..n)
  BY <1>1, <1>2, <1>3 DEF Moved
<1>8. Moved(gt, ft, order, 1..n)
  BY <1>1, <1>2, <1>3 DEF Moved
<1> HIDE DEF f, g, ft, gt
<1>9. SumOver(g, Of(sales, v)) = SumOver(f, Of(then, v)) /\ SumOver(gt, Of(sales, v)) = SumOver(ft, Of(then, v))
  <2> HIDE DEF Of
  <2>1. SumOver(g, Of(sales, v)) = SumOver(f, Of(then, v))
    BY ONLY <1>5, <1>6, <1>7, MovedColumn, n \in Nat
  <2>2. SumOver(gt, Of(sales, v)) = SumOver(ft, Of(then, v))
    BY ONLY <1>5, <1>6, <1>8, MovedColumn, n \in Nat
  <2> QED BY <2>1, <2>2
<1>10. SumOver(gt, 1..n) = SumOver(ft, 1..n)
  <2>1. 1..n \in SUBSET (1..n)
    OBVIOUS
  <2> QED BY ONLY <1>4, <1>8, <2>1, MovedColumn, n \in Nat
<1>11. SumBillItemQuantityByVariant(sales, v) = SumBillItemQuantityByVariant(then, v)
  BY <1>2, <1>9 DEF SumBillItemQuantityByVariant, f, g
<1>12. LinesOver(sales, Of(sales, v)) = LinesOver(then, Of(then, v))
  BY <1>2, <1>9 DEF LinesOver, ft, gt
<1>13. Total(sales) = Total(then)
  BY <1>2, <1>10 DEF Total, LinesOver, ft, gt
<1> QED BY <1>11, <1>12, <1>13

LEMMA ShowsAllItRead ==
    ASSUME IInv, NEW n \in 0..Len(rounds), NEW sales, Reordered(sales, n)
    PROVE  ShowsTheFirst(sales, n)
<1>1. PICK order \in Bijection(1..n, 1..n) : sales = [k \in 1..n |-> rounds[order[k]]]
  BY DEF Reordered
<1> DEFINE then == SubSeq(rounds, 1, n)
<1>2. n \in Nat /\ DOMAIN then = 1..n /\ \A i \in 1..n : then[i] = rounds[i] /\ then[i] \in Round
  <2>1. n \in Nat
    OBVIOUS
  <2> QED BY <2>1, FirstRounds
<1> HIDE DEF then
<1>3. sales = [k \in 1..n |-> then[order[k]]]
  BY <1>1, <1>2 DEF Bijection, Injection
<1>4. \A v : /\ SumBillItemQuantityByVariant(sales, v) = SumBillItemQuantityByVariant(then, v)
             /\ LinesOver(sales, Of(sales, v)) = LinesOver(then, Of(then, v))
             /\ Total(sales) = Total(then)
  BY <1>2, <1>3, SameColumns
<1> DEFINE line(v) == [variant |-> v, quantity |-> SumBillItemQuantityByVariant(sales, v),
                       price |-> sales[Max(Of(sales, v))].price, total |-> LinesOver(sales, Of(sales, v))]
           served == {v \in Variants : SumBillItemQuantityByVariant(sales, v) > 0}
<1>5. Lines(sales) = {line(v) : v \in served}
  BY DEF Lines
<1>6. \A v : /\ line(v).variant = v
             /\ line(v).quantity = SumBillItemQuantityByVariant(sales, v)
             /\ line(v).total = LinesOver(sales, Of(sales, v))
  OBVIOUS
<1> HIDE DEF line
<1>7. served = {v \in Variants : SumBillItemQuantityByVariant(then, v) > 0}
  BY <1>4
<1>8. {l.variant : l \in Lines(sales)} = served
  BY <1>5, <1>6
<1>9. \A l \in Lines(sales) : /\ l.quantity = SumBillItemQuantityByVariant(then, l.variant)
                              /\ l.total = LinesOver(then, Of(then, l.variant))
  BY <1>4, <1>5, <1>6
<1>10. \A l, m \in Lines(sales) : l.variant = m.variant => l = m
  BY <1>5, <1>6
<1> QED BY <1>4, <1>7, <1>8, <1>9, <1>10 DEF ShowsTheFirst, then

(******************************************************************************)
(* The balance a page shows is of the moment it read the bill's row at.       *)
(******************************************************************************)
MoneyInv == /\ paid \in Nat /\ Balance \in Nat
            /\ \A q \in Requests :
                  /\ At(q, "sales") => \E m \in Open(q).from..Len(rounds) : OwedAt(Open(q).balance, m)
                  /\ At(q, "page") => \E m \in Open(q).from..Open(q).to : OwedAt(Open(q).balance, m)

(* A request goes on, and if it has read the balance, that was owed. *)
LEMMA MoneyStays ==
    ASSUME IInv, MoneyInv, NEW q \in Requests, NEW next, Proceed(q, next), UNCHANGED <<rounds, paid>>,
           next.at = "sales" => \E m \in next.from..Len(rounds) : OwedAt(next.balance, m),
           next.at = "page" => \E m \in next.from..next.to : OwedAt(next.balance, m)
    PROVE  MoneyInv'
<1>1. request'[q] = next /\ \A r \in Requests \ {q} : request'[r] = request[r]
  BY OthersStay
<1>2. rounds' = rounds /\ paid' = paid
  OBVIOUS
<1>3. \A balance, m : OwedAt(balance, m)' <=> OwedAt(balance, m)
  BY <1>2 DEF OwedAt
<1>4. paid' \in Nat /\ Balance' \in Nat
  BY <1>2 DEF MoneyInv, Balance
<1> SUFFICES ASSUME NEW r \in Requests
             PROVE  /\ At(r, "sales")' => \E m \in request'[r].from..Len(rounds) : OwedAt(request'[r].balance, m)
                    /\ At(r, "page")' => \E m \in request'[r].from..request'[r].to : OwedAt(request'[r].balance, m)
  BY <1>2, <1>3, <1>4 DEF MoneyInv, Open, OwedAt
<1>5. CASE r = q
  BY <1>1, <1>5 DEF At, Open
<1>6. CASE r # q
  BY <1>1, <1>6 DEF MoneyInv, At, Open
<1> QED BY <1>5, <1>6

LEMMA LineTotalType == ASSUME NEW item \in Round PROVE LineTotal(item) \in Int
<1>1. item.quantity \in Int /\ item.price \in Int
  BY DEF Round
<1>2. \A a, b \in Int : a * b \in Int
  OBVIOUS
<1> QED BY <1>1, <1>2 DEF LineTotal

LEMMA TotalType == ASSUME NEW items \in Seq(Round) PROVE Total(items) \in Int
<1>1. DOMAIN items = 1..Len(items) /\ Len(items) \in Nat /\ \A i \in 1..Len(items) : items[i] \in Round
  OBVIOUS
<1> DEFINE f == [k \in DOMAIN items |-> LineTotal(items[k])]
<1>2. \A k \in DOMAIN items : f[k] \in Int
  BY <1>1, LineTotalType
<1>3. IsFiniteSet(DOMAIN items)
  BY <1>1, FS_Interval
<1> HIDE DEF f
<1>4. SumOver(f, DOMAIN items) \in Int
  BY <1>2, <1>3, SumType
<1> QED BY <1>4 DEF f, Total, LinesOver

LEMMA TotalAppend ==
    ASSUME NEW items \in Seq(Round), NEW item \in Round
    PROVE  Total(Append(items, item)) = Total(items) + LineTotal(item)
<1> DEFINE n == Len(items)
           more == Append(items, item)
           f == [k \in 1..n |-> LineTotal(items[k])]
           g == [k \in 1..(n + 1) |-> LineTotal(more[k])]
<1>1. /\ n \in Nat /\ DOMAIN items = 1..n /\ DOMAIN more = 1..(n + 1)
      /\ \A k \in 1..n : items[k] \in Round /\ more[k] = items[k]
      /\ more[n + 1] = item
  OBVIOUS
<1> HIDE DEF n, more
<1>2. /\ \A k \in 1..n : f[k] \in Int /\ g[k] = f[k]
      /\ g[n + 1] = LineTotal(item) /\ LineTotal(item) \in Int
      /\ \A k \in (1..n) \cup {n + 1} : g[k] \in Int
  BY <1>1, LineTotalType
<1>3. Total(items) = SumOver(f, 1..n) /\ Total(more) = SumOver(g, 1..(n + 1))
  BY <1>1 DEF Total, LinesOver
<1> HIDE DEF f, g
<1>4. IsFiniteSet(1..n) /\ 1..(n + 1) = (1..n) \cup {n + 1} /\ n + 1 \notin 1..n
  <2>1. n \in Int /\ 1 \in Int
    BY <1>1
  <2>2. IsFiniteSet(1..n)
    BY ONLY <2>1, FS_Interval
  <2>3. 1..(n + 1) = (1..n) \cup {n + 1} /\ n + 1 \notin 1..n
    BY ONLY <1>1
  <2> QED BY <2>2, <2>3
<1>5. SumOver(g, 1..n) = SumOver(f, 1..n)
  BY <1>2, <1>4, SumSame
<1>6. SumOver(g, 1..(n + 1)) = SumOver(g, 1..n) + g[n + 1]
  <2>1. SumOver(g, (1..n) \cup {n + 1}) = SumOver(g, 1..n) + g[n + 1]
    BY ONLY <1>2, <1>4, SumAdd
  <2> QED BY <1>4, <2>1
<1> QED BY <1>2, <1>3, <1>5, <1>6 DEF more

(* What was owed once was owed then, whatever is posted or paid afterwards. *)
LEMMA OwedStays ==
    ASSUME IInv, paid \in Nat, paid' \in Nat, paid' >= paid,
           \/ rounds' = rounds
           \/ \E round \in Round : rounds' = Append(rounds, round),
           NEW balance, NEW m \in 0..Len(rounds), OwedAt(balance, m)
    PROVE  OwedAt(balance, m)'
<1>1. rounds \in Seq(Round)
  BY DEF IInv, PageInv
<1>2. SubSeq(rounds', 1, m) = SubSeq(rounds, 1, m)
  <2>1. CASE rounds' = rounds
    BY <2>1
  <2>2. ASSUME NEW round \in Round, rounds' = Append(rounds, round)
        PROVE  SubSeq(rounds', 1, m) = SubSeq(rounds, 1, m)
    BY <1>1, <2>2
  <2> QED BY <2>1, <2>2
<1>3. SubSeq(rounds, 1, m) \in Seq(Round)
  BY <1>1
<1>4. Total(SubSeq(rounds, 1, m)) \in Int
  BY <1>3, TotalType
<1> DEFINE total == Total(SubSeq(rounds, 1, m))
<1>5. total \in Int /\ balance \in 0..total /\ total - balance <= paid
  BY <1>4 DEF OwedAt
<1>6. OwedAt(balance, m)' <=> balance \in 0..total /\ total - balance <= paid'
  BY <1>2 DEF OwedAt, Total, LinesOver
<1> HIDE DEF total
<1> QED BY <1>5, <1>6

LEMMA OwedKept ==
    ASSUME IInv, MoneyInv, paid' \in Nat, Balance' \in Nat, paid' >= paid, UNCHANGED request,
           \/ rounds' = rounds
           \/ \E round \in Round : rounds' = Append(rounds, round),
           Len(rounds) \in Nat, Len(rounds') \in Nat, Len(rounds') >= Len(rounds)
    PROVE  MoneyInv'
<1>1. ASSUME NEW q \in Requests, At(q, "sales")
      PROVE  \E m \in request[q].from..Len(rounds') : OwedAt(request[q].balance, m)'
  <2>1. PICK m \in request[q].from..Len(rounds) : OwedAt(request[q].balance, m)
    BY <1>1 DEF MoneyInv, Open
  <2>2. request[q].from \in Nat /\ m \in 0..Len(rounds)
    BY <1>1, <2>1 DEF IInv, PageInv, Reading, Open
  <2> PICK balance : balance = request[q].balance
    OBVIOUS
  <2>3. OwedAt(balance, m)'
    BY <2>1, <2>2, OwedStays DEF MoneyInv
  <2> QED BY <2>1, <2>2, <2>3
<1>2. ASSUME NEW q \in Requests, At(q, "page")
      PROVE  \E m \in request[q].from..request[q].to : OwedAt(request[q].balance, m)'
  <2>1. PICK m \in request[q].from..request[q].to : OwedAt(request[q].balance, m)
    BY <1>2 DEF MoneyInv, Open
  <2>2. request[q].from \in Nat /\ request[q].to \in 0..Len(rounds)
    BY <1>2 DEF IInv, PageInv, Open
  <2>3. PICK first \in Nat, last \in 0..Len(rounds) : first = request[q].from /\ last = request[q].to
    BY <2>2
  <2>4. m \in first..last
    BY <2>1, <2>3
  <2>5. m \in 0..Len(rounds)
    BY ONLY <2>4, Len(rounds) \in Nat
  <2> PICK balance : balance = request[q].balance
    OBVIOUS
  <2>6. OwedAt(balance, m)'
    BY <2>1, <2>5, OwedStays DEF MoneyInv
  <2> QED BY <2>1, <2>6
<1> QED BY <1>1, <1>2 DEF MoneyInv, At, Open

(* The whole bill, what is owed of it now. *)
LEMMA OwedNow == ASSUME IInv, MoneyInv PROVE OwedAt(Balance, Len(rounds))
<1>1. rounds \in Seq(Round) /\ Len(rounds) \in Nat
  BY DEF IInv, PageInv
<1>2. SubSeq(rounds, 1, Len(rounds)) = rounds
  BY <1>1
<1>3. Total(rounds) \in Int
  BY <1>1, TotalType
<1>4. PICK total \in Int : total = Total(rounds)
  BY <1>3
<1>5. paid \in Nat /\ Balance = total - paid /\ Balance \in Nat
  BY <1>4 DEF MoneyInv, Balance
<1>6. Balance \in 0..total /\ total - Balance <= paid
  BY <1>5
<1> QED BY <1>2, <1>4, <1>6 DEF OwedAt

LEMMA MoneyInit == Init => MoneyInv
<1> SUFFICES ASSUME Init PROVE MoneyInv
  OBVIOUS
<1>1. Total(<<>>) = 0
  <2>1. DOMAIN <<>> = {}
    OBVIOUS
  <2> QED BY <2>1, SumOfNone DEF Total, LinesOver
<1> QED BY <1>1 DEF Init, MoneyInv, Balance, Free, At

LEMMA MoneyStep == ASSUME IInv, MoneyInv, [Next]_vars PROVE MoneyInv'
<1>1. CASE UNCHANGED bill /\ UNCHANGED request
  BY <1>1 DEF bill, MoneyInv, Balance, At, Open, OwedAt
<1>2. CASE AddSaleRound \/ RemoveBillItem
  <2>1. PICK v \in Variants, n \in Quantities, p \in Prices, occurred \in 1..clock :
            \/ Post(v, n, p, occurred)
            \/ n * p <= Balance /\ Post(v, -n, p, occurred)
    BY <1>2 DEF AddSaleRound, RemoveBillItem
  <2>2. n \in Nat /\ p \in Nat /\ n * p \in Nat /\ (-n) * p = -(n * p)
    BY AmountsAssumption
  <2>3. PICK quantity \in {n, -n} : /\ Post(v, quantity, p, occurred)
                                   /\ quantity * p \in Int
                                   /\ quantity * p >= -Balance
    BY <2>1, <2>2 DEF MoneyInv
  <2> DEFINE round == [variant |-> v, quantity |-> quantity, price |-> p, occurred |-> occurred]
  <2>4. round \in Round /\ LineTotal(round) = quantity * p
    BY <2>2 DEF Round, LineTotal, IInv, LinkInv
  <2>5. rounds' = Append(rounds, round) /\ UNCHANGED <<paid, request>>
    BY <2>3 DEF Post
  <2> HIDE DEF round
  <2>6. Total(rounds) \in Int /\ Total(rounds') = Total(rounds) + LineTotal(round)
    BY <2>4, <2>5, TotalAppend, TotalType DEF IInv, PageInv
  <2>7. paid' \in Nat /\ Balance' \in Nat
    BY <2>3, <2>4, <2>5, <2>6 DEF MoneyInv, Balance
  <2>8. Len(rounds') = Len(rounds) + 1 /\ Len(rounds) \in Nat
    BY <2>4, <2>5 DEF IInv, PageInv
  <2>9. paid \in Nat /\ paid' >= paid
    BY <2>5 DEF MoneyInv
  <2> QED BY <2>4, <2>5, <2>7, <2>8, <2>9, OwedKept
<1>3. CASE RecordPayment
  <2>1. rounds' = rounds /\ request' = request /\ paid' = paid + Balance
    BY <1>3 DEF RecordPayment
  <2>2. Total(rounds) \in Int
    BY TotalType DEF IInv, PageInv
  <2>3. paid \in Nat /\ paid' \in Nat /\ paid' >= paid /\ Balance' \in Nat
    BY <2>1, <2>2 DEF MoneyInv, Balance
  <2>4. Len(rounds') >= Len(rounds) /\ Len(rounds) \in Nat /\ Len(rounds') \in Nat
    BY <2>1 DEF IInv, PageInv
  <2> QED BY <2>1, <2>3, <2>4, OwedKept
<1>4. ASSUME NEW q \in Requests, GetBillDetail(q) PROVE MoneyInv'
  <2>1. UNCHANGED <<rounds, paid>> /\ request[q].from \in 0..Len(rounds) /\ Len(rounds) \in Nat
    BY <1>4 DEF GetBillDetail, bill, IInv, PageInv, Reading, Open
  <2>2. CASE Proceed(q, [at |-> "sales", from |-> request[q].from, balance |-> Balance])
    <3>1. OwedAt(Balance, Len(rounds))
      BY OwedNow
    <3> DEFINE next == [at |-> "sales", from |-> request[q].from, balance |-> Balance]
    <3>2. next.at = "sales" /\ Len(rounds) \in next.from..Len(rounds) /\ next.balance = Balance
      BY <2>1
    <3>3. Proceed(q, next)
      BY <2>2
    <3> HIDE DEF next
    <3> QED BY <2>1, <3>1, <3>2, <3>3, MoneyStays
  <2>3. ASSUME At(q, "sales"), NEW sales,
               Proceed(q, [at |-> "page", from |-> request[q].from, balance |-> request[q].balance,
                           sales |-> sales, to |-> Len(rounds)])
        PROVE  MoneyInv'
    <3>1. \E m \in request[q].from..Len(rounds) : OwedAt(request[q].balance, m)
      BY <2>3 DEF MoneyInv, Open
    <3> DEFINE next == [at |-> "page", from |-> request[q].from, balance |-> request[q].balance,
                        sales |-> sales, to |-> Len(rounds)]
    <3>2. next.at = "page" /\ \E m \in next.from..next.to : OwedAt(next.balance, m)
      BY <3>1
    <3>3. Proceed(q, next)
      BY <2>3
    <3> HIDE DEF next
    <3> QED BY <2>1, <3>2, <3>3, MoneyStays
  <2> QED BY <1>4, <2>2, <2>3 DEF GetBillDetail, Open
<1>5. ASSUME NEW q \in Requests, \/ createOrRotateBillShareLink(q) \/ CreateOrRotateShareLink(q)
                                 \/ getPublicBill(q) \/ ResolveShareLink(q) \/ Leave(q)
      PROVE  MoneyInv'
  <2>1. PICK next : Proceed(q, next) /\ next.at \in {"free", "create", "resolve", "bill"}
    <3>1. CASE createOrRotateBillShareLink(q)
      <4>1. PICK expires : Proceed(q, [at |-> "create", token |-> tokens + 1, expires |-> expires])
        BY <3>1 DEF createOrRotateBillShareLink
      <4> QED BY <4>1
    <3>2. CASE getPublicBill(q)
      <4>1. PICK token : Proceed(q, [at |-> "resolve", token |-> token, from |-> Len(rounds)])
        BY <3>2 DEF getPublicBill
      <4> QED BY <4>1
    <3>3. CASE ResolveShareLink(q)
      BY <3>3 DEF ResolveShareLink, Free
    <3>4. CASE CreateOrRotateShareLink(q) \/ Leave(q)
      BY <3>4 DEF CreateOrRotateShareLink, Leave, Free
    <3> QED BY <1>5, <3>1, <3>2, <3>3, <3>4
  <2>2. UNCHANGED <<rounds, paid>>
    BY <1>5 DEF createOrRotateBillShareLink, CreateOrRotateShareLink, getPublicBill, ResolveShareLink, Leave, bill
  <2> QED BY <2>1, <2>2, MoneyStays
<1>6. CASE RevokeShareLink \/ Tick \/ UNCHANGED vars
  BY <1>1, <1>6 DEF RevokeShareLink, Tick, vars
<1> QED BY <1>2, <1>3, <1>4, <1>5, <1>6 DEF Next

(******************************************************************************)
(* Theorems.                                                                  *)
(******************************************************************************)

(* The row of the link, what requests are about to make of it, and what pages *)
(* have read by then (internal/sales/share_links.go, GetBillDetail).          *)
THEOREM SharedBillInvariant == Spec => []IInv
<1>1. Init => IInv
  BY InitInv
<1>2. IInv /\ [Next]_vars => IInv'
  BY StepInv
<1> QED BY <1>1, <1>2, PTL DEF Spec

(* The balance a page shows was owed at the moment it was read at.            *)
LEMMA MoneyInvariant == Spec => []MoneyInv
<1>1. Init => MoneyInv
  BY MoneyInit
<1>2. IInv /\ MoneyInv /\ [Next]_vars => MoneyInv'
  BY MoneyStep
<1> QED BY <1>1, <1>2, SharedBillInvariant, PTL DEF Spec

(* A page lists, once for every variant, what was left on the bill at one     *)
(* moment while it was read, and what that came to (getPublicBill), however   *)
(* the clocks of the devices order the rounds; the balance beside it was owed *)
(* at that moment or at an earlier one.                                       *)
THEOREM PagesAreWhole == Spec => []PageIsOneMoment
<1>1. ASSUME IInv, MoneyInv PROVE PageIsOneMoment
  <2> SUFFICES ASSUME NEW q \in Requests, At(q, "page")
               PROVE  \E n \in request[q].from..request[q].to :
                        /\ ShowsTheFirst(request[q].sales, n)
                        /\ \E m \in request[q].from..n : OwedAt(request[q].balance, m)
    BY DEF PageIsOneMoment, Open
  <2>1. /\ request[q].from \in Nat /\ request[q].to \in 0..Len(rounds) /\ request[q].from <= request[q].to
        /\ Reordered(request[q].sales, request[q].to)
    BY <1>1 DEF IInv, PageInv, Open
  <2>2. ShowsTheFirst(request[q].sales, request[q].to)
    BY <1>1, <2>1, ShowsAllItRead
  <2>3. request[q].to \in request[q].from..request[q].to
    BY <2>1
  <2>4. \E m \in request[q].from..request[q].to : OwedAt(request[q].balance, m)
    BY <1>1 DEF MoneyInv, Open
  <2> QED BY <2>2, <2>3, <2>4
<1>2. IInv /\ MoneyInv => PageIsOneMoment
  BY <1>1
<1> QED BY <1>2, SharedBillInvariant, MoneyInvariant, PTL

(* A token that resolves did so before, or is that of the request that has    *)
(* just made the link, however requests to make and revoke links overlap      *)
(* (UpsertBillShareLink, RevokeBillShareLinkByBillID).                        *)
THEOREM DeadForGood == Spec => DeadStaysDead
<1> DEFINE Step == \A t \in 1..MaxTokens :
        t <= tokens /\ GetActiveBillShareLinkByTokenHash(t)' =>
            GetActiveBillShareLinkByTokenHash(t) \/ \E q \in Requests : At(q, "create") /\ Open(q).token = t
<1>1. ASSUME IInv, Next PROVE Step
  <2> SUFFICES ASSUME NEW t \in 1..MaxTokens, t <= tokens,
                      link'.token = t, ~link'.revoked, link'.expires = Null \/ link'.expires > clock'
               PROVE  \/ link.token = t /\ ~link.revoked /\ (link.expires = Null \/ link.expires > clock)
                      \/ \E q \in Requests : At(q, "create") /\ Open(q).token = t
    BY DEF GetActiveBillShareLinkByTokenHash
  <2>1. CASE UNCHANGED <<link, clock>>
    BY <2>1
  <2>2. CASE Tick
    BY <1>1, <2>2 DEF Tick, IInv, LinkInv, LinkRow
  <2>3. CASE RevokeShareLink
    BY <1>1, <2>3 DEF RevokeShareLink, RevokeBillShareLinkByBillID, IInv, LinkInv, LinkRow
  <2>4. ASSUME NEW q \in Requests, CreateOrRotateShareLink(q)
        PROVE  At(q, "create") /\ Open(q).token = t
    BY <2>4 DEF CreateOrRotateShareLink, UpsertBillShareLink
  <2>5. ASSUME NEW q \in Requests, \/ createOrRotateBillShareLink(q) \/ getPublicBill(q) \/ ResolveShareLink(q)
                                   \/ GetBillDetail(q) \/ Leave(q)
        PROVE  UNCHANGED <<link, clock>>
    BY <2>5 DEF createOrRotateBillShareLink, getPublicBill, ResolveShareLink, GetBillDetail, Leave
  <2>6. CASE AddSaleRound \/ RemoveBillItem \/ RecordPayment
    BY <2>1, <2>6 DEF AddSaleRound, RemoveBillItem, RecordPayment, Post
  <2> QED BY <1>1, <2>1, <2>2, <2>3, <2>4, <2>5, <2>6 DEF Next
<1>2. IInv /\ [Next]_vars => [Step]_vars
  BY <1>1
<1> HIDE DEF Step
<1>3. Spec => [][Step]_vars
  BY <1>2, SharedBillInvariant, PTL DEF Spec
<1>4. [][Step]_vars => DeadStaysDead
  BY PTL DEF Step, DeadStaysDead
<1> QED BY <1>3, <1>4, PTL

(******************************************************************************)
(* LockOrder: who waits for whom.                                             *)
(******************************************************************************)


(* A transaction that is under way: how far it is in what it locks.           *)
TaskRow == [at: {"running", "failed"}, todo: Seq(Locks!Rows), locks: Locks!Asked, again: BOOLEAN]
Through(q, n) == /\ Len(task[q].todo) = Len(task[q].locks) - n
                 /\ \A i \in 1..Len(task[q].todo) : task[q].todo[i] = task[q].locks[n + i]
                 /\ held[q] = {task[q].locks[j] : j \in 1..n}

TasksInv == /\ task \in [Transactions -> TaskRow \cup {Locks!Free}]
            /\ held \in [Transactions -> SUBSET Locks!Rows]
            /\ \A q \in Transactions :
                  IF Locks!At(q, "running") THEN \E n \in 0..Len(task[q].locks) : Through(q, n)
                  ELSE held[q] = {}

QueueInv == /\ queue \in Seq(Transactions)
            /\ \A k \in DOMAIN queue : /\ Locks!Wants(queue[k])
                                       /\ \A j \in DOMAIN queue : queue[j] = queue[k] => j = k

LocksInv == TasksInv /\ QueueInv

(* Whatever the order of the variants: a bill is locked first, and a          *)
(* variant's lots after its balance.                                          *)
InShape(locks) ==
    \A k \in DOMAIN locks :
        /\ k > 1 => \A b \in OpenBills : locks[k] # Locks!Bill(b)
        /\ \A v \in Variants : locks[k] = Locks!Lots(v) => \E j \in 1..(k - 1) : locks[j] = Locks!Balance(v)

(* Where a row stands if the variants are ranked: below all the bills, then   *)
(* every variant's balance and, above it, its lots.                           *)
Level(row, rank) == IF row[1] = "bills" THEN 0
                    ELSE 2 * rank[row[2]] + (IF row[1] = "stock_lots" THEN 1 ELSE 0)

LEMMA RowsAre ==
    /\ Locks!Rows = {Locks!Bill(b) : b \in OpenBills} \cup {Locks!Balance(v) : v \in Variants}
                     \cup {Locks!Lots(v) : v \in Variants}
    /\ \A b, v, u : /\ Locks!Bill(b) # Locks!Balance(v) /\ Locks!Bill(b) # Locks!Lots(v)
                    /\ Locks!Balance(v) # Locks!Lots(u)
                    /\ Locks!Balance(v) = Locks!Balance(u) => v = u
                    /\ Locks!Lots(v) = Locks!Lots(u) => v = u
    /\ \A b : Locks!Bill(b)[1] = "bills"
    /\ \A v : /\ Locks!Balance(v)[1] = "inventory_balances" /\ Locks!Balance(v)[2] = v
              /\ Locks!Lots(v)[1] = "stock_lots" /\ Locks!Lots(v)[2] = v
BY DEF Locks!Rows, Locks!Bill, Locks!Balance, Locks!Lots

LEMMA LevelsAre ==
    ASSUME NEW rank \in [Variants -> Nat]
    PROVE  /\ \A b : Level(Locks!Bill(b), rank) = 0
           /\ \A v \in Variants : /\ Level(Locks!Balance(v), rank) = 2 * rank[v]
                                 /\ Level(Locks!Lots(v), rank) = 2 * rank[v] + 1
           /\ \A row \in Locks!Rows : Level(row, rank) \in Nat
<1>1. \A b : Level(Locks!Bill(b), rank) = 0
  BY RowsAre DEF Level
<1>2. \A v \in Variants : Level(Locks!Balance(v), rank) = 2 * rank[v] /\ Level(Locks!Lots(v), rank) = 2 * rank[v] + 1
  BY RowsAre DEF Level
<1>3. \A v \in Variants : rank[v] \in Nat
  OBVIOUS
<1> QED BY <1>1, <1>2, <1>3, RowsAre

(* The items of a cart, two rows each, and before them perhaps the bill.      *)
Pairs(cart) == Locks!InTurn(cart, Locks!Balance, Locks!Lots)

LEMMA PairsAre ==
    ASSUME NEW cart \in Seq(Variants)
    PROVE  /\ Pairs(cart) \in Seq(Locks!Rows) /\ Len(Pairs(cart)) = 2 * Len(cart)
           /\ \A k \in 1..(2 * Len(cart)) : \E v \in Variants :
                 \/ Pairs(cart)[k] = Locks!Balance(v)
                 \/ /\ Pairs(cart)[k] = Locks!Lots(v)
                    /\ k - 1 \in 1..(2 * Len(cart)) /\ Pairs(cart)[k - 1] = Locks!Balance(v)
<1> DEFINE n == Len(cart)
<1>1. n \in Nat /\ DOMAIN cart = 1..n /\ 2 * n \in Nat
  OBVIOUS
<1>2. \A k \in 1..(2 * n) : (k + 1) \div 2 \in 1..n
  BY <1>1
<1>3. \A k \in 1..(2 * n) : cart[(k + 1) \div 2] \in Variants
  BY <1>1, <1>2
<1>4. Pairs(cart) = [k \in 1..(2 * n) |-> IF k % 2 = 1 THEN Locks!Balance(cart[(k + 1) \div 2])
                                                     ELSE Locks!Lots(cart[(k + 1) \div 2])]
  BY DEF Pairs, Locks!InTurn
<1>5. \A k \in 1..(2 * n) : Pairs(cart)[k] \in Locks!Rows
  BY <1>3, <1>4, RowsAre
<1>6. Pairs(cart) \in Seq(Locks!Rows) /\ Len(Pairs(cart)) = 2 * n
  BY <1>1, <1>4, <1>5
<1>7. ASSUME NEW k \in 1..(2 * n)
      PROVE  \E v \in Variants :
                 \/ Pairs(cart)[k] = Locks!Balance(v)
                 \/ /\ Pairs(cart)[k] = Locks!Lots(v)
                    /\ k - 1 \in 1..(2 * n) /\ Pairs(cart)[k - 1] = Locks!Balance(v)
  <2> DEFINE v == cart[(k + 1) \div 2]
  <2>1. v \in Variants
    BY <1>3
  <2>2. CASE k % 2 = 1
    BY <1>4, <2>1, <2>2
  <2>3. CASE k % 2 # 1
    <3>1. k - 1 \in 1..(2 * n) /\ (k - 1) % 2 = 1 /\ ((k - 1) + 1) \div 2 = (k + 1) \div 2
      BY <1>1, <2>3
    <3>2. Pairs(cart)[k] = Locks!Lots(v) /\ Pairs(cart)[k - 1] = Locks!Balance(v)
      BY <1>4, <2>3, <3>1
    <3> QED BY <2>1, <3>1, <3>2
  <2> QED BY <2>2, <2>3
<1> QED BY <1>6, <1>7

LEMMA PairsInShape == ASSUME NEW cart \in Seq(Variants) PROVE InShape(Pairs(cart))
<1>1. Len(cart) \in Nat /\ DOMAIN Pairs(cart) = 1..(2 * Len(cart))
  BY PairsAre
<1>2. ASSUME NEW k \in 1..(2 * Len(cart)), NEW v \in Variants, Pairs(cart)[k] = Locks!Lots(v)
      PROVE  \E j \in 1..(k - 1) : Pairs(cart)[j] = Locks!Balance(v)
  <2>1. PICK u \in Variants :
           \/ Pairs(cart)[k] = Locks!Balance(u)
           \/ /\ Pairs(cart)[k] = Locks!Lots(u)
              /\ k - 1 \in 1..(2 * Len(cart)) /\ Pairs(cart)[k - 1] = Locks!Balance(u)
    BY PairsAre
  <2>2. u = v /\ Pairs(cart)[k] # Locks!Balance(u)
    BY <1>2, <2>1, RowsAre
  <2> QED BY <1>1, <2>1, <2>2
<1>3. ASSUME NEW k \in 1..(2 * Len(cart)), NEW b \in OpenBills PROVE Pairs(cart)[k] # Locks!Bill(b)
  <2>1. PICK u \in Variants : Pairs(cart)[k] = Locks!Balance(u) \/ Pairs(cart)[k] = Locks!Lots(u)
    BY PairsAre
  <2> QED BY <2>1, RowsAre
<1> QED BY <1>1, <1>2, <1>3 DEF InShape

LEMMA BillFirst ==
    ASSUME NEW cart \in Seq(Variants), NEW b \in OpenBills
    PROVE  <<Locks!Bill(b)>> \o Pairs(cart) \in Seq(Locks!Rows) /\ InShape(<<Locks!Bill(b)>> \o Pairs(cart))
<1> DEFINE locks == <<Locks!Bill(b)>> \o Pairs(cart)
<1>1. /\ locks \in Seq(Locks!Rows) /\ Len(locks) = 2 * Len(cart) + 1 /\ Len(cart) \in Nat
      /\ locks[1] = Locks!Bill(b)
      /\ \A k \in 2..Len(locks) : k - 1 \in 1..(2 * Len(cart)) /\ locks[k] = Pairs(cart)[k - 1]
      /\ \A k \in 1..(2 * Len(cart)) : locks[k + 1] = Pairs(cart)[k]
  BY PairsAre, RowsAre
<1>2. ASSUME NEW k \in 1..Len(locks), NEW v \in Variants, locks[k] = Locks!Lots(v)
      PROVE  \E j \in 1..(k - 1) : locks[j] = Locks!Balance(v)
  <2>1. k \in 2..Len(locks)
    BY <1>1, <1>2, RowsAre
  <2>2. /\ Pairs(cart)[k - 1] = Locks!Lots(v) /\ k - 1 \in 1..(2 * Len(cart))
    BY <1>1, <1>2, <2>1
  <2>3. PICK j \in 1..((k - 1) - 1) : Pairs(cart)[j] = Locks!Balance(v)
    <3>1. DOMAIN Pairs(cart) = 1..(2 * Len(cart))
      BY PairsAre, <1>1
    <3> QED BY <2>2, <3>1, PairsInShape DEF InShape
  <2>4. j + 1 \in 1..(k - 1) /\ j \in 1..(2 * Len(cart)) /\ locks[j + 1] = Locks!Balance(v)
    BY <1>1, <2>1, <2>2, <2>3
  <2> QED BY <2>4
<1>3. ASSUME NEW k \in 1..Len(locks), k > 1, NEW c \in OpenBills PROVE locks[k] # Locks!Bill(c)
  <2>1. k - 1 \in 1..(2 * Len(cart)) /\ locks[k] = Pairs(cart)[k - 1]
    BY <1>1, <1>3
  <2>2. PICK u \in Variants : Pairs(cart)[k - 1] = Locks!Balance(u) \/ Pairs(cart)[k - 1] = Locks!Lots(u)
    BY <2>1, PairsAre
  <2> QED BY <2>1, <2>2, RowsAre
<1> HIDE DEF locks
<1>4. InShape(locks)
  BY <1>1, <1>2, <1>3 DEF InShape
<1> QED BY <1>1, <1>4 DEF locks

LEMMA InAnyOrderIsACart ==
    ASSUME NEW cart \in Seq(Variants), NEW c \in Locks!InAnyOrder(cart) PROVE c \in Seq(Variants)
<1>1. PICK f \in Locks!Bijection(DOMAIN cart, DOMAIN cart) : c = [k \in DOMAIN cart |-> cart[f[k]]]
  BY DEF Locks!InAnyOrder
<1>2. f \in [DOMAIN cart -> DOMAIN cart]
  BY <1>1 DEF Locks!Bijection, Locks!Injection, Locks!Surjection
<1>3. Len(cart) \in Nat /\ DOMAIN cart = 1..Len(cart)
  OBVIOUS
<1>4. \A k \in 1..Len(cart) : c[k] \in Variants
  BY <1>1, <1>2, <1>3
<1> QED BY <1>1, <1>3, <1>4

LEMMA LocksAre == ASSUME NEW locks \in Locks!Asked
                  PROVE  locks \in Seq(Locks!Rows) /\ InShape(locks)
<1>1. \A cart \in Carts : cart \in Seq(Variants)
  BY CartsAssumption
<1>2. ASSUME NEW cart \in Carts, locks = Locks!CreateSale(cart) \/ \E b \in OpenBills : locks = Locks!AddSaleRound(b, cart)
      PROVE  locks \in Seq(Locks!Rows) /\ InShape(locks)
  <2>1. Locks!postSaleRound(cart) = Pairs(cart) /\ cart \in Seq(Variants)
    BY <1>1 DEF Locks!postSaleRound, Pairs, Locks!InTurn, Locks!UpsertInventoryBalanceDelta, Locks!ListLotsForAllocation
  <2>2. CASE locks = Locks!CreateSale(cart)
    <3>1. locks = Pairs(cart)
      BY <2>1, <2>2 DEF Locks!CreateSale
    <3> QED BY <3>1, <2>1, PairsAre, PairsInShape
  <2>3. ASSUME NEW b \in OpenBills, locks = Locks!AddSaleRound(b, cart)
        PROVE  locks \in Seq(Locks!Rows) /\ InShape(locks)
    <3>1. locks = <<Locks!Bill(b)>> \o Pairs(cart)
      BY <2>1, <2>3 DEF Locks!AddSaleRound, Locks!GetBillForUpdate
    <3> QED BY <3>1, <2>1, BillFirst
  <2> QED BY <1>2, <2>2, <2>3
<1>3. ASSUME NEW b \in OpenBills, NEW v \in Variants, locks = Locks!RemoveBillItem(b, v)
      PROVE  locks \in Seq(Locks!Rows) /\ InShape(locks)
  <2>1. locks = <<Locks!Bill(b), Locks!Balance(v)>>
    BY <1>3 DEF Locks!RemoveBillItem, Locks!GetBillForUpdate, Locks!UpsertInventoryBalanceDelta
  <2>2. locks \in Seq(Locks!Rows) /\ DOMAIN locks = 1..2
    BY <2>1, RowsAre
  <2>3. locks[1] = Locks!Bill(b) /\ locks[2] = Locks!Balance(v)
    BY <2>1
  <2>4. \A k \in 1..2 : (k > 1 => k = 2) /\ (k = 1 \/ k = 2)
    OBVIOUS
  <2> QED BY <2>2, <2>3, <2>4, RowsAre DEF InShape
<1>4. ASSUME NEW b \in OpenBills, locks = Locks!RecordPayment(b)
      PROVE  locks \in Seq(Locks!Rows) /\ InShape(locks)
  BY <1>4, RowsAre DEF Locks!RecordPayment, Locks!GetBillForUpdate, InShape
<1>5. ASSUME NEW cart \in Carts, locks = Locks!ReceiveStock(cart)
      PROVE  locks \in Seq(Locks!Rows) /\ InShape(locks)
  <2>1. cart \in Seq(Variants) /\ locks = [k \in DOMAIN cart |-> Locks!Balance(cart[k])]
    BY <1>1, <1>5 DEF Locks!ReceiveStock, Locks!UpsertInventoryBalanceDelta
  <2>2. Len(cart) \in Nat /\ DOMAIN cart = 1..Len(cart) /\ \A k \in DOMAIN cart : cart[k] \in Variants
    BY <2>1
  <2>3. locks \in Seq(Locks!Rows) /\ \A k \in DOMAIN locks : locks[k] = Locks!Balance(cart[k])
    BY <2>1, <2>2, RowsAre
  <2> QED BY <2>3, RowsAre DEF InShape
<1>6. ASSUME NEW cart \in Carts, NEW c \in Locks!InAnyOrder(cart),
             locks = Locks!ReverseSale(c) \/ locks = Locks!ReverseStockReceipt(c)
      PROVE  locks \in Seq(Locks!Rows) /\ InShape(locks)
  <2>1. c \in Seq(Variants)
    BY <1>1, InAnyOrderIsACart
  <2>2. locks = Pairs(c)
    BY <1>6 DEF Locks!ReverseSale, Locks!ReverseStockReceipt, Pairs, Locks!InTurn, Locks!UpsertInventoryBalanceDelta
  <2> QED BY <2>1, <2>2, PairsAre, PairsInShape
<1> QED BY <1>2, <1>3, <1>4, <1>5, <1>6 DEF Locks!Asked, Locks!Posted

(* A waiting transaction that goes from variant to variant in the order of    *)
(* the ranks wants a row that stands above all that it has.                   *)
LEMMA WantsHigher ==
    ASSUME LocksInv, NEW rank \in [Variants -> Nat], \A v \in Variants : rank[v] >= 1,
           NEW r \in Transactions, Locks!Follows(r, rank),
           Locks!Wants(r), Locks!Wanted(r) \notin held[r], NEW row \in held[r]
    PROVE  Level(row, rank) < Level(Locks!Wanted(r), rank)
<1> DEFINE locks == task[r].locks
           wanted == Locks!Wanted(r)
<1>1. task[r] \in TaskRow /\ Locks!At(r, "running") /\ task[r].todo # <<>>
  BY DEF LocksInv, TasksInv, Locks!Wants, Locks!At, Locks!Free
<1>2. locks \in Seq(Locks!Rows) /\ InShape(locks)
  BY <1>1, LocksAre DEF TaskRow
<1>3. PICK n \in 0..Len(locks) : Through(r, n)
  BY <1>1 DEF LocksInv, TasksInv
<1>4. Len(task[r].todo) > 0 /\ task[r].todo \in Seq(Locks!Rows)
  BY <1>1 DEF TaskRow
<1>5. n + 1 \in DOMAIN locks /\ wanted = locks[n + 1]
  <2>1. wanted = task[r].todo[1]
    BY <1>1, <1>4 DEF Locks!Wanted
  <2>2. 1 \in 1..Len(task[r].todo) /\ Len(task[r].todo) = Len(locks) - n
    BY <1>3, <1>4 DEF Through
  <2>3. task[r].todo[1] = locks[n + 1]
    BY <1>3, <2>2 DEF Through
  <2> QED BY <2>1, <2>2, <2>3, <1>2, <1>3
<1>6. PICK j \in 1..n : row = locks[j]
  BY <1>3 DEF Through
<1>7. /\ \A i \in 1..n : locks[i] # wanted
      /\ j \in DOMAIN locks /\ j < n + 1 /\ n + 1 > 1 /\ n \in Nat
      /\ row \in Locks!Rows /\ wanted \in Locks!Rows
  BY <1>2, <1>3, <1>5, <1>6 DEF Through
<1>8. "bills" \notin {row[1], wanted[1]} /\ row[2] # wanted[2] => rank[row[2]] < rank[wanted[2]]
  BY <1>5, <1>6, <1>7 DEF Locks!Follows
<1>9. \A b \in OpenBills : wanted # Locks!Bill(b)
  BY <1>2, <1>5, <1>7 DEF InShape
<1>10. \A v \in Variants : row = Locks!Lots(v) => wanted # Locks!Balance(v)
  <2> SUFFICES ASSUME NEW v \in Variants, row = Locks!Lots(v) PROVE wanted # Locks!Balance(v)
    OBVIOUS
  <2>1. PICK i \in 1..(j - 1) : locks[i] = Locks!Balance(v)
    BY <1>2, <1>6, <1>7 DEF InShape
  <2> QED BY <2>1, <1>6, <1>7
<1>11. row # wanted
  BY <1>6, <1>7
<1> HIDE DEF locks, wanted
<1>12. PICK v \in Variants : wanted = Locks!Balance(v) \/ wanted = Locks!Lots(v)
  BY <1>7, <1>9, RowsAre
<1>13. rank[v] \in Nat /\ rank[v] >= 1 /\ wanted[2] = v /\ wanted[1] # "bills"
       /\ Level(wanted, rank) >= 2 * rank[v] /\ Level(wanted, rank) \in Nat
  BY <1>12, LevelsAre, RowsAre
<1>14. CASE \E b \in OpenBills : row = Locks!Bill(b)
  <2>1. Level(row, rank) = 0
    BY <1>14, LevelsAre
  <2> QED BY <2>1, <1>13 DEF wanted
<1>15. ASSUME NEW u \in Variants, row = Locks!Balance(u) \/ row = Locks!Lots(u), u # v
       PROVE  Level(row, rank) < Level(wanted, rank)
  <2>1. rank[u] < rank[v] /\ rank[u] \in Nat
    BY <1>8, <1>13, <1>15, RowsAre
  <2>2. Level(row, rank) <= 2 * rank[u] + 1 /\ Level(row, rank) \in Nat
    BY <1>15, <2>1, LevelsAre
  <2> QED BY <2>1, <2>2, <1>13
<1>16. CASE row = Locks!Balance(v) \/ row = Locks!Lots(v)
  <2>1. row = Locks!Balance(v) /\ wanted = Locks!Lots(v)
    BY <1>10, <1>11, <1>12, <1>16
  <2>2. Level(row, rank) = 2 * rank[v] /\ Level(wanted, rank) = 2 * rank[v] + 1
    BY <2>1, LevelsAre
  <2> QED BY <2>2, <1>13 DEF wanted
<1> QED BY <1>7, <1>14, <1>15, <1>16, RowsAre DEF wanted

LEMMA WaitingIsFinite == ASSUME LocksInv PROVE IsFiniteSet(Locks!Waiting) /\ Locks!Waiting \subseteq Transactions
<1>1. DOMAIN queue = 1..Len(queue) /\ Len(queue) \in Nat
  BY DEF LocksInv, QueueInv
<1>2. IsFiniteSet(DOMAIN queue)
  BY <1>1, FS_Interval
<1>3. IsFiniteSet({queue[k] : k \in DOMAIN queue})
  BY <1>2, FiniteImage
<1> QED BY <1>3 DEF Locks!Waiting, LocksInv, QueueInv

LEMMA LocksCount == ASSUME NEW S PROVE Locks!Cardinality(S) = Cardinality(S)
  BY Zenon DEF Locks!Cardinality, Cardinality

(* Of those who wait for each other in a circle, look at the first in the     *)
(* queue for the highest row that is wanted.                                  *)
LEMMA NobodyInAnOrderedCircle ==
    ASSUME LocksInv, NEW rank \in Locks!Ranks, NEW s \in Locks!Circles
    PROVE  \E q \in s : ~Locks!Follows(q, rank)
<1> SUFFICES ASSUME \A q \in s : Locks!Follows(q, rank) PROVE FALSE
  OBVIOUS
<1> DEFINE level == [q \in s |-> Level(Locks!Wanted(q), rank)]
<1>0. rank \in [Variants -> Nat] /\ \A v \in Variants : rank[v] >= 1
  BY DEF Locks!Ranks
<1>1. /\ s \in SUBSET Locks!Waiting /\ s # {}
      /\ \A q \in s : Locks!WaitsFor(q) \cap s # {}
  <2>1. /\ s \in SUBSET Locks!Waiting /\ Locks!Cardinality(s) > 1
        /\ \A part \in (SUBSET s) \ {{}, s} : \E q \in part : Locks!WaitsFor(q) \cap (s \ part) # {}
    BY DEF Locks!Circles
  <2>2. Cardinality(s) > 1
    BY <2>1, LocksCount
  <2>3. s # {}
    BY <2>2, FS_EmptySet
  <2>4. \A q \in s : {q} \in (SUBSET s) \ {{}, s}
    BY <2>2, FS_Singleton
  <2>5. ASSUME NEW q \in s PROVE Locks!WaitsFor(q) \cap s # {}
    <3>1. {q} \in (SUBSET s) \ {{}, s}
      BY <2>4, <2>5, Zenon
    <3>2. PICK p \in {q} : Locks!WaitsFor(p) \cap (s \ {q}) # {}
      BY <2>1, <3>1, Zenon
    <3>3. p = q
      BY <3>2, Zenon
    <3>4. Locks!WaitsFor(q) \cap (s \ {q}) # {}
      BY <3>2, <3>3, Zenon
    <3> HIDE DEF level
    <3> QED BY <3>4, Zenon
  <2> QED BY <2>1, <2>3, <2>5, Zenon
<1>2. \A q \in s : /\ q \in Transactions /\ Locks!Wants(q)
                   /\ Locks!Wanted(q) \notin held[q] /\ level[q] \in Nat
  <2> SUFFICES ASSUME NEW q \in s
               PROVE  /\ q \in Transactions /\ Locks!Wants(q)
                      /\ Locks!Wanted(q) \notin held[q] /\ level[q] \in Nat
    OBVIOUS
  <2>1. q \in Transactions /\ Locks!Wants(q)
    BY <1>1, WaitingIsFinite DEF LocksInv, QueueInv, Locks!Waiting
  <2>2. Locks!Wanted(q) \notin held[q]
    BY <1>1 DEF Locks!WaitsFor
  <2>3. task[q] \in TaskRow /\ task[q].todo # <<>>
    BY <2>1 DEF LocksInv, TasksInv, Locks!Wants, Locks!At, Locks!Free
  <2>4. Locks!Wanted(q) \in Locks!Rows
    BY <2>3 DEF TaskRow, Locks!Wanted
  <2>5. Level(Locks!Wanted(q), rank) \in Nat
    BY <2>4, <1>0, LevelsAre
  <2> QED BY <2>1, <2>2, <2>5
<1>3. PICK top \in s : \A q \in s : level[q] <= level[top]
  <2> DEFINE levels == {level[q] : q \in s}
  <2>1. IsFiniteSet(levels)
    <3>1. IsFiniteSet(s)
      BY <1>1, WaitingIsFinite, FS_Subset
    <3> HIDE DEF level
    <3> QED BY <3>1, FiniteImage
  <2>2. levels \in SUBSET Nat /\ levels # {}
    BY <1>1, <1>2
  <2>3. PICK m \in levels : \A k \in levels : k <= m
    <3> HIDE DEF levels
    <3> QED BY <2>1, <2>2, LargestOf
  <2> QED BY <2>3
<1> DEFINE highest == {k \in DOMAIN queue : queue[k] \in s /\ level[queue[k]] = level[top]}
<1>4. PICK k \in highest : \A j \in highest : k <= j
  <2>1. PICK j \in DOMAIN queue : queue[j] = top
    BY <1>1, <1>3 DEF Locks!Waiting
  <2>2. DOMAIN queue \subseteq Nat /\ j \in highest
    BY <1>3, <2>1 DEF LocksInv, QueueInv
  <2>3. highest # {} /\ highest \in SUBSET Nat
    BY <2>2
  <2> HIDE DEF highest
  <2> QED BY <2>3, SmallestOf
<1> DEFINE q == queue[k]
<1>5. q \in s /\ level[q] = level[top] /\ k \in DOMAIN queue /\ DOMAIN queue \subseteq Nat
  BY <1>4 DEF LocksInv, QueueInv
<1>6. PICK r \in s : r \in Locks!WaitsFor(q)
  BY <1>1, <1>5
<1>7. CASE Locks!Wanted(q) \in held[r]
  <2>1. Level(Locks!Wanted(q), rank) < Level(Locks!Wanted(r), rank)
    <3>1. /\ Locks!Follows(r, rank) /\ r \in Transactions
          /\ Locks!Wants(r) /\ Locks!Wanted(r) \notin held[r]
      BY <1>2, <1>6
    <3> QED BY <1>0, <1>7, <3>1, WantsHigher
  <2>2. level[q] < level[r] /\ level[r] <= level[top]
    BY <2>1, <1>3, <1>5
  <2> QED BY <2>2, <1>2, <1>5
<1>8. CASE r \in Locks!Earlier(q) /\ Locks!Wanted(r) = Locks!Wanted(q)
  <2>1. PICK j \in DOMAIN queue : r = queue[j] /\ \A i \in 1..j : queue[i] # q
    BY <1>8 DEF Locks!Earlier
  <2>2. j \in highest
    BY <1>5, <1>8, <2>1
  <2>3. k <= j /\ k \in 1..j
    BY <2>2, <1>4, <1>5 DEF LocksInv, QueueInv
  <2> QED BY <2>1, <2>3
<1> QED BY <1>6, <1>7, <1>8 DEF Locks!WaitsFor

(* The queue without one who waits, and with one more.                        *)
LEMMA QueueLeft ==
    ASSUME QueueInv, NEW q \in Transactions, Locks!Leave(q)
    PROVE  /\ queue' \in Seq(Transactions)
           /\ \A k \in DOMAIN queue' : queue'[k] # q /\ \E j \in DOMAIN queue : queue'[k] = queue[j]
           /\ \A k, j \in DOMAIN queue' : queue'[j] = queue'[k] => j = k
<1> USE DEF QueueInv
<1>1. CASE q \notin Locks!Waiting /\ UNCHANGED queue
  BY <1>1 DEF Locks!Waiting
<1>2. ASSUME NEW k \in DOMAIN queue, queue[k] = q, queue' = Locks!RemoveAt(queue, k)
      PROVE  /\ queue' \in Seq(Transactions)
             /\ \A i \in DOMAIN queue' : queue'[i] # q /\ \E j \in DOMAIN queue : queue'[i] = queue[j]
             /\ \A i, j \in DOMAIN queue' : queue'[j] = queue'[i] => j = i
  <2>1. k \in 1..Len(queue) /\ Len(queue) \in Nat
    OBVIOUS
  <2>2. queue' = SubSeq(queue, 1, k - 1) \o SubSeq(queue, k + 1, Len(queue))
    BY <1>2 DEF Locks!RemoveAt
  <2>3. /\ queue' \in Seq(Transactions) /\ DOMAIN queue' = 1..(Len(queue) - 1)
        /\ \A i \in 1..(Len(queue) - 1) : queue'[i] = IF i < k THEN queue[i] ELSE queue[i + 1]
    BY <2>1, <2>2
  <2> DEFINE place(i) == IF i < k THEN i ELSE i + 1
  <2>4. \A i \in DOMAIN queue' : place(i) \in DOMAIN queue /\ place(i) # k /\ queue'[i] = queue[place(i)]
    BY <2>1, <2>3
  <2>5. \A i, j \in DOMAIN queue' : place(i) = place(j) => i = j
    BY <2>1, <2>3
  <2> HIDE DEF place
  <2> QED BY <1>2, <2>3, <2>4, <2>5
<1> QED BY <1>1, <1>2 DEF Locks!Leave

LEMMA LocksInit == ASSUME Locks!Init PROVE LocksInv
BY DEF Locks!Init, LocksInv, TasksInv, QueueInv, Locks!At, Locks!Free

(* A transaction takes a step of its own: the others stay where they were.    *)
LEMMA TaskTakesAStep ==
    ASSUME TasksInv, NEW q \in Transactions, NEW row \in TaskRow \cup {Locks!Free}, NEW rows \in SUBSET Locks!Rows,
           task' = [task EXCEPT ![q] = row], held' = [held EXCEPT ![q] = rows],
           IF row.at = "running"
           THEN \E n \in 0..Len(row.locks) : /\ Len(row.todo) = Len(row.locks) - n
                                             /\ \A i \in 1..Len(row.todo) : row.todo[i] = row.locks[n + i]
                                             /\ rows = {row.locks[j] : j \in 1..n}
           ELSE rows = {}
    PROVE  TasksInv'
<1>1. task' \in [Transactions -> TaskRow \cup {Locks!Free}] /\ held' \in [Transactions -> SUBSET Locks!Rows]
  BY DEF TasksInv
<1>2. ASSUME NEW r \in Transactions
      PROVE  (IF Locks!At(r, "running") THEN \E n \in 0..Len(task[r].locks) : Through(r, n) ELSE held[r] = {})'
  <2>1. CASE r = q
    <3>1. task'[r] = row /\ held'[r] = rows
      BY <2>1 DEF TasksInv
    <3>2. CASE row.at = "running"
      <4>1. PICK n \in 0..Len(row.locks) :
               /\ Len(row.todo) = Len(row.locks) - n
               /\ \A i \in 1..Len(row.todo) : row.todo[i] = row.locks[n + i]
               /\ rows = {row.locks[j] : j \in 1..n}
        BY <3>2
      <4>2. Through(r, n)' /\ n \in 0..Len(task'[r].locks)
        <5>1. Len(task'[r].todo) = Len(task'[r].locks) - n /\ n \in 0..Len(task'[r].locks)
          BY <3>1, <4>1
        <5>2. \A i \in 1..Len(task'[r].todo) : task'[r].todo[i] = task'[r].locks[n + i]
          BY <3>1, <4>1
        <5>3. held'[r] = {task'[r].locks[j] : j \in 1..n}
          BY <3>1, <4>1
        <5> QED BY <5>1, <5>2, <5>3 DEF Through
      <4>3. Locks!At(r, "running")'
        BY <3>1, <3>2 DEF Locks!At
      <4> QED BY <4>2, <4>3
    <3>3. CASE row.at # "running"
      BY <3>1, <3>3 DEF Locks!At
    <3> QED BY <3>2, <3>3
  <2>2. CASE r # q
    <3>1. task'[r] = task[r] /\ held'[r] = held[r]
      BY <2>2 DEF TasksInv
    <3>2. IF Locks!At(r, "running") THEN \E n \in 0..Len(task[r].locks) : Through(r, n) ELSE held[r] = {}
      BY DEF TasksInv
    <3>3. Locks!At(r, "running")' = Locks!At(r, "running")
      BY <3>1 DEF Locks!At
    <3>4. \A n : Through(r, n)' = Through(r, n)
      BY <3>1 DEF Through
    <3>5. CASE Locks!At(r, "running")
      <4>1. PICK n \in 0..Len(task[r].locks) : Through(r, n)
        BY <3>2, <3>5
      <4>2. Through(r, n)' /\ n \in 0..Len(task'[r].locks)
        BY <3>1, <3>4, <4>1
      <4> QED BY <3>3, <3>5, <4>2
    <3>6. CASE ~Locks!At(r, "running")
      BY <3>1, <3>2, <3>3, <3>6
    <3> QED BY <3>5, <3>6
  <2> QED BY <2>1, <2>2
<1> QED BY <1>1, <1>2 DEF TasksInv

(* Who waits keeps wanting, unless it is the one that takes a step.           *)
LEMMA WaitersStay ==
    ASSUME QueueInv, TasksInv, NEW q \in Transactions, NEW row, task' = [task EXCEPT ![q] = row],
           \/ UNCHANGED queue /\ ~Locks!Wants(q)
           \/ Locks!Leave(q)
    PROVE  QueueInv'
<1>1. \A r \in Transactions \ {q} : Locks!Wants(r) => Locks!Wants(r)'
  BY DEF TasksInv, Locks!Wants, Locks!At
<1>2. CASE UNCHANGED queue /\ ~Locks!Wants(q)
  BY <1>1, <1>2 DEF QueueInv
<1>3. CASE Locks!Leave(q)
  BY <1>1, <1>3, QueueLeft DEF QueueInv
<1> QED BY <1>2, <1>3

LEMMA LocksBegin == ASSUME LocksInv, NEW q \in Transactions, Locks!Begin(q) PROVE LocksInv'
<1>1. PICK locks \in Locks!Asked, again \in BOOLEAN :
         /\ Locks!At(q, "free") /\ UNCHANGED <<held, queue>>
         /\ task' = [task EXCEPT ![q] = [at |-> "running", todo |-> locks, locks |-> locks, again |-> again]]
  BY DEF Locks!Begin
<1> DEFINE row == [at |-> "running", todo |-> locks, locks |-> locks, again |-> again]
<1>2. locks \in Seq(Locks!Rows) /\ row \in TaskRow
  BY LocksAre DEF TaskRow
<1>3. held[q] = {} /\ held' = [held EXCEPT ![q] = {}] /\ ~Locks!Wants(q)
  BY <1>1 DEF LocksInv, TasksInv, Locks!At, Locks!Wants
<1>4. /\ Len(row.todo) = Len(row.locks) - 0 /\ 0 \in 0..Len(row.locks)
      /\ \A i \in 1..Len(row.todo) : row.todo[i] = row.locks[0 + i]
      /\ {} = {row.locks[j] : j \in 1..0}
  BY <1>2
<1>5. TasksInv'
  BY <1>1, <1>2, <1>3, <1>4, TaskTakesAStep DEF LocksInv
<1>6. QueueInv'
  BY <1>1, <1>3, WaitersStay DEF LocksInv
<1> QED BY <1>5, <1>6 DEF LocksInv

LEMMA LocksLock == ASSUME LocksInv, NEW q \in Transactions, Locks!Lock(q) PROVE LocksInv'
<1> DEFINE row == [task[q] EXCEPT !.todo = Tail(@)]
           locks == task[q].locks
           rows == held[q] \cup {Locks!Wanted(q)}
<1>1. /\ task[q] \in TaskRow /\ Locks!At(q, "running") /\ task[q].todo # <<>>
      /\ task[q].todo \in Seq(Locks!Rows) /\ locks \in Seq(Locks!Rows)
  BY LocksAre DEF LocksInv, TasksInv, Locks!Lock, Locks!Wants, Locks!At, Locks!Free, TaskRow
<1>2. PICK n \in 0..Len(locks) : Through(q, n)
  BY <1>1 DEF LocksInv, TasksInv
<1>3. row \in TaskRow /\ row.at = "running" /\ row.locks = locks /\ row.todo = Tail(task[q].todo)
  <2>1. Tail(task[q].todo) \in Seq(Locks!Rows)
    BY <1>1
  <2> QED BY <1>1, <2>1 DEF TaskRow, Locks!At
<1>4. /\ Len(row.todo) = Len(row.locks) - (n + 1) /\ n + 1 \in 0..Len(row.locks)
      /\ \A i \in 1..Len(row.todo) : row.todo[i] = row.locks[(n + 1) + i]
      /\ Locks!Wanted(q) = locks[n + 1]
  <2>1. Len(task[q].todo) = Len(locks) - n /\ Len(task[q].todo) > 0
    BY <1>1, <1>2 DEF Through
  <2>2. \A i \in 1..Len(task[q].todo) : task[q].todo[i] = locks[n + i]
    BY <1>2 DEF Through
  <2>3. Len(row.todo) = Len(task[q].todo) - 1
    BY <1>1, <1>3, <2>1
  <2>4. \A i \in 1..Len(row.todo) : row.todo[i] = task[q].todo[i + 1] /\ i + 1 \in 1..Len(task[q].todo)
    BY <1>1, <1>3, <2>1, <2>3
  <2>5. Locks!Wanted(q) = task[q].todo[1]
    BY <1>1 DEF Locks!Wanted
  <2>6. \A i \in 1..Len(row.todo) : n + (i + 1) = (n + 1) + i
    BY <1>2, <2>3, <2>1
  <2>7. Len(row.todo) = Len(locks) - (n + 1) /\ n + 1 \in 0..Len(locks)
    BY <1>1, <1>2, <2>1, <2>3
  <2>8. \A i \in 1..Len(row.todo) : row.todo[i] = locks[(n + 1) + i]
    BY <2>2, <2>4, <2>6
  <2>9. Locks!Wanted(q) = locks[n + 1]
    BY <2>1, <2>2, <2>5, <1>1, <1>2
  <2> HIDE DEF row, locks
  <2> QED BY <1>3, <2>7, <2>8, <2>9
<1>5. rows = {row.locks[j] : j \in 1..(n + 1)} /\ rows \in SUBSET Locks!Rows
  <2>1. held[q] = {locks[j] : j \in 1..n}
    BY <1>2 DEF Through
  <2>2. 1..(n + 1) = (1..n) \cup {n + 1}
    BY <1>2
  <2>3. rows \in SUBSET Locks!Rows
    BY <1>1, <1>4, <1>3 DEF LocksInv, TasksInv
  <2> QED BY <1>3, <1>4, <2>1, <2>2, <2>3
<1>6. task' = [task EXCEPT ![q] = row] /\ held' = [held EXCEPT ![q] = rows] /\ Locks!Leave(q)
  BY DEF Locks!Lock
<1> HIDE DEF row, rows
<1>7. TasksInv'
  BY <1>3, <1>4, <1>5, <1>6, TaskTakesAStep DEF LocksInv
<1>8. QueueInv'
  BY <1>6, WaitersStay DEF LocksInv
<1> QED BY <1>7, <1>8 DEF LocksInv

LEMMA LocksWait == ASSUME LocksInv, NEW q \in Transactions, Locks!Wait(q) PROVE LocksInv'
<1>1. queue' = Append(queue, q) /\ Locks!Wants(q) /\ q \notin Locks!Waiting /\ UNCHANGED <<task, held>>
  BY DEF Locks!Wait
<1>2. TasksInv'
  BY <1>1 DEF LocksInv, TasksInv, Locks!At, Through
<1>3. QueueInv'
  BY <1>1 DEF LocksInv, QueueInv, Locks!Waiting, Locks!Wants, Locks!At
<1> QED BY <1>2, <1>3 DEF LocksInv

LEMMA LocksCommit == ASSUME LocksInv, NEW q \in Transactions, Locks!Commit(q) PROVE LocksInv'
<1>1. /\ task' = [task EXCEPT ![q] = Locks!Free] /\ held' = [held EXCEPT ![q] = {}]
      /\ UNCHANGED queue /\ ~Locks!Wants(q)
  BY DEF Locks!Commit, Locks!Wants
<1>2. TasksInv'
  BY <1>1, TaskTakesAStep DEF LocksInv, Locks!Free
<1>3. QueueInv'
  BY <1>1, WaitersStay DEF LocksInv
<1> QED BY <1>2, <1>3 DEF LocksInv

LEMMA LocksFail == ASSUME LocksInv, NEW q \in Transactions, Locks!FailDeadlocked(q) PROVE LocksInv'
<1> DEFINE row == [task[q] EXCEPT !.at = "failed"]
<1>1. /\ task' = [task EXCEPT ![q] = row] /\ held' = [held EXCEPT ![q] = {}] /\ Locks!Leave(q)
      /\ \E s \in Locks!Circles : q \in s
  BY DEF Locks!FailDeadlocked
<1>2. Locks!Wants(q)
  BY <1>1 DEF Locks!Circles, Locks!Waiting, LocksInv, QueueInv
<1>3. task[q] \in TaskRow
  BY <1>2 DEF LocksInv, TasksInv, Locks!Wants, Locks!At, Locks!Free
<1>4. row \in TaskRow /\ row.at # "running"
  BY <1>3 DEF TaskRow
<1> HIDE DEF row
<1>5. TasksInv'
  BY <1>1, <1>4, TaskTakesAStep DEF LocksInv
<1>6. QueueInv'
  BY <1>1, WaitersStay DEF LocksInv
<1> QED BY <1>5, <1>6 DEF LocksInv

LEMMA LocksRetry == ASSUME LocksInv, NEW q \in Transactions, Locks!Retry(q) PROVE LocksInv'
<1> DEFINE row == IF task[q].again THEN [task[q] EXCEPT !.at = "running", !.todo = task[q].locks] ELSE Locks!Free
<1>1. task' = [task EXCEPT ![q] = row] /\ UNCHANGED <<held, queue>> /\ Locks!At(q, "failed")
  BY DEF Locks!Retry
<1>2. task[q] \in TaskRow /\ held[q] = {} /\ ~Locks!Wants(q)
  BY <1>1 DEF LocksInv, TasksInv, Locks!At, Locks!Free, Locks!Wants
<1>3. task[q].locks \in Seq(Locks!Rows) /\ task[q].again \in BOOLEAN
  BY <1>2, LocksAre DEF TaskRow
<1>4. row \in TaskRow \cup {Locks!Free}
  BY <1>2, <1>3 DEF TaskRow
<1>5. held' = [held EXCEPT ![q] = {}] /\ {} \in SUBSET Locks!Rows
  BY <1>1, <1>2 DEF LocksInv, TasksInv
<1>6. row.at = "running" =>
        /\ 0 \in 0..Len(row.locks) /\ Len(row.todo) = Len(row.locks) - 0
        /\ \A i \in 1..Len(row.todo) : row.todo[i] = row.locks[0 + i]
        /\ {} = {row.locks[j] : j \in 1..0}
  <2>1. CASE task[q].again
    <3>1. row.locks = task[q].locks /\ row.todo = task[q].locks
      BY <1>2, <2>1 DEF TaskRow
    <3> QED BY <1>3, <3>1
  <2>2. CASE ~task[q].again
    BY <2>2 DEF Locks!Free
  <2> QED BY <2>1, <2>2
<1> HIDE DEF row
<1>7. TasksInv'
  BY <1>1, <1>4, <1>5, <1>6, TaskTakesAStep DEF LocksInv
<1>8. QueueInv'
  BY <1>1, <1>2, WaitersStay DEF LocksInv
<1> QED BY <1>7, <1>8 DEF LocksInv

LEMMA LocksStep == ASSUME LocksInv, [Locks!Next]_(Locks!vars) PROVE LocksInv'
<1>1. CASE UNCHANGED Locks!vars
  <2>1. TasksInv'
    BY <1>1 DEF Locks!vars, LocksInv, TasksInv, Locks!At, Through
  <2>2. QueueInv'
    BY <1>1 DEF Locks!vars, LocksInv, QueueInv, Locks!At, Locks!Wants
  <2> QED BY <2>1, <2>2 DEF LocksInv
<1>2. CASE Locks!Next
  <2>1. PICK q \in Transactions : \/ Locks!Begin(q) \/ Locks!Lock(q) \/ Locks!Wait(q) \/ Locks!Commit(q)
                                   \/ Locks!FailDeadlocked(q) \/ Locks!Retry(q)
    BY <1>2 DEF Locks!Next
  <2> QED BY <2>1, LocksBegin, LocksLock, LocksWait, LocksCommit, LocksFail, LocksRetry
<1> QED BY <1>1, <1>2

(* Whatever the carts are and however many transactions overlap, fail and     *)
(* start again: of those that wait for each other in a circle, some go from   *)
(* variant to variant against any order one could have agreed on. Bills,      *)
(* balances and lots make no circle by themselves, and transactions that keep *)
(* to one order make none (internal/sales, internal/inventory).               *)
THEOREM CirclesGoAgainstTheOrder == Locks!Spec => []CirclesAreOutOfOrder
<1>1. Locks!Init => LocksInv
  BY LocksInit
<1>2. LocksInv /\ [Locks!Next]_(Locks!vars) => LocksInv'
  BY LocksStep
<1>3. LocksInv => CirclesAreOutOfOrder
  BY NobodyInAnOrderedCircle DEF CirclesAreOutOfOrder, Locks!CirclesAreOutOfOrder
<1> QED BY <1>1, <1>2, <1>3, PTL DEF Locks!Spec

(******************************************************************************)
(* TabScreen: taps, posts and loads over a connection that breaks.            *)
(******************************************************************************)


LEMMA ScreenSums == ASSUME NEW f, NEW S PROVE Screen!SumOver(f, S) = SumOver(f, S)
  BY DEF Screen!SumOver, SumOver, Screen!MapThenSumSet, MapThenSumSet, Screen!MapThenFoldSet, MapThenFoldSet

Bill == [Screen!Intents -> Nat]
Tapped == [by: Devices, tap: Nat, intent: Screen!Intents, kept: BOOLEAN \cup {None}]
Load == [by: Devices, tap: Nat, saw: SUBSET Bill]

ScreenType == /\ recorded \in Bill
              /\ posts \subseteq Tapped /\ reads \subseteq Load
              /\ shown \in [Devices -> SUBSET Bill]
              /\ busy \in [Devices -> Screen!Intents \cup {None}]
              /\ taps \in [Devices -> Nat] /\ looks \in [Devices -> Nat]
              /\ done \subseteq Screen!Intents

(* A tap posts once, on the device of its intent; what was kept is recorded.  *)
PostsInv == /\ \A p \in posts : /\ p.tap \in 1..taps[p.by] /\ Whose[p.intent] = p.by
                                /\ p.kept = TRUE => recorded[p.intent] > 0
            /\ \A p, r \in posts : p.by = r.by /\ p.tap = r.tap => p = r
            /\ \A d \in Devices : busy[d] # None => Whose[busy[d]] = d

(* A handler's reload is its last step: what it posted is recorded, and it    *)
(* sees that and all that was done on its device before.                      *)
Behind(r) == r.tap # 0
DoneOn(d) == {i \in done : Whose[i] = d}
ReloadsInv == /\ \A r \in reads : Behind(r) =>
                    /\ r.tap = taps[r.by] /\ busy[r.by] # None /\ recorded[busy[r.by]] > 0
                    /\ \A p \in posts : ~(p.by = r.by /\ p.tap = r.tap)
                    /\ \A b \in r.saw, i \in DoneOn(r.by) \cup {busy[r.by]} : b[i] > 0
              /\ \A r, s \in reads : Behind(r) /\ Behind(s) /\ r.by = s.by => r = s

(* A device that has turned to the bill once has one load of it, before the   *)
(* page shows anything.                                                       *)
EffectsInv == \A d \in Devices :
    /\ shown[d] = {} => busy[d] = None /\ DoneOn(d) = {}
    /\ looks[d] = 0 => shown[d] = {} /\ \A r \in reads : r.by # d
    /\ looks[d] = 1 => /\ shown[d] # {} => \A r \in reads : r.by = d => Behind(r)
                       /\ \A r, s \in reads : r.by = d /\ s.by = d /\ ~Behind(r) /\ ~Behind(s) => r = s
                       /\ \A b \in shown[d], i \in DoneOn(d) : b[i] > 0

ScreenInv == /\ ScreenType /\ Screen!DoneIsRecorded /\ Screen!NothingOwedBack
             /\ PostsInv /\ ReloadsInv /\ EffectsInv

LEMMA IntentsAreFinite ==
    /\ Screen!Intents = Rounds \cup Removals \cup Payments
    /\ IsFiniteSet(Rounds) /\ IsFiniteSet(Removals) /\ IsFiniteSet(Payments)
    /\ Whose \in [Screen!Intents -> Devices] /\ None \notin Screen!Intents
    /\ None # TRUE /\ None # FALSE
BY IntentsAssumption, UnservedAssumption DEF Screen!Intents

(* What is on a bill of one kind.                                             *)
LEMMA TimesType ==
    ASSUME NEW b \in Bill, NEW kind \in {Rounds, Removals, Payments}
    PROVE  Screen!Times(kind, b) \in Nat /\ Screen!Times(kind, b) = SumOver(b, kind)
<1>1. IsFiniteSet(kind) /\ \A i \in kind : b[i] \in Nat
  BY IntentsAreFinite DEF Bill
<1>2. SumOver(b, kind) \in Nat
  BY <1>1, SumOfNaturals
<1> QED BY <1>2, ScreenSums DEF Screen!Times

(* One intent more on the bill counts once, under its kind.                   *)
OneMoreTap(b, i, c) == c = [b EXCEPT ![i] = @ + 1]

LEMMA TimesOneMore ==
    ASSUME NEW b \in Bill, NEW i \in Screen!Intents, NEW c, OneMoreTap(b, i, c),
           NEW kind \in {Rounds, Removals, Payments}
    PROVE  Screen!Times(kind, c) = Screen!Times(kind, b) + (IF i \in kind THEN 1 ELSE 0)
<1> USE DEF OneMoreTap
<1>1. c \in Bill /\ IsFiniteSet(kind) /\ kind \subseteq Screen!Intents
  BY IntentsAreFinite DEF Bill
<1>2. \A j \in kind : b[j] \in Int /\ c[j] \in Int
  BY <1>1 DEF Bill
<1>3. \A j \in kind : j # i => c[j] = b[j]
  BY <1>1 DEF Bill
<1>4. CASE i \in kind
  <2>1. SumOver(c, kind) = SumOver(b, kind) + (c[i] - b[i])
    BY ONLY <1>1, <1>2, <1>3, <1>4, SumChange
  <2>2. c[i] - b[i] = 1
    BY DEF Bill
  <2> QED BY <2>1, <2>2, <1>1, <1>4, TimesType
<1>5. CASE i \notin kind
  <2>1. \A j \in kind : b[j] \in Int /\ c[j] = b[j]
    BY <1>2, <1>3, <1>5
  <2>2. SumOver(c, kind) = SumOver(b, kind)
    BY <1>1, <2>1, SumSame
  <2> QED BY <2>2, <1>1, <1>5, TimesType
<1> QED BY <1>4, <1>5

LEMMA ScreenStarts == ASSUME Screen!Init PROVE ScreenInv
<1> USE DEF Screen!Init
<1>1. ScreenType
  BY IntentsAreFinite DEF ScreenType, Bill
<1>2. Screen!NothingOwedBack
  <2>1. \A kind \in {Rounds, Removals, Payments} : Screen!Times(kind, recorded) = 0
    <3> SUFFICES ASSUME NEW kind \in {Rounds, Removals, Payments} PROVE Screen!Times(kind, recorded) = 0
      OBVIOUS
    <3>1. IsFiniteSet(kind) /\ \A i \in kind : recorded[i] = 0
      BY IntentsAreFinite
    <3> QED BY <3>1, <1>1, SumOfZeros, TimesType DEF ScreenType
  <2> QED BY <2>1, OpeningAssumption DEF Screen!NothingOwedBack, Screen!Quantity, Screen!Balance
<1>3. Screen!DoneIsRecorded /\ PostsInv /\ ReloadsInv /\ EffectsInv
  BY DEF Screen!DoneIsRecorded, PostsInv, ReloadsInv, EffectsInv, DoneOn, Behind
<1> QED BY <1>1, <1>2, <1>3 DEF ScreenInv

(* Nothing is recorded by the step, so the bill is what it was.               *)
LEMMA ScreenBillStays ==
    ASSUME ScreenInv, recorded' = recorded
    PROVE  Screen!NothingOwedBack'
<1>1. Screen!Quantity(recorded)' = Screen!Quantity(recorded) /\ Screen!Balance(recorded)' = Screen!Balance(recorded)
  BY DEF Screen!Quantity, Screen!Balance
<1> QED BY <1>1 DEF ScreenInv, Screen!NothingOwedBack

LEMMA LookStep == ASSUME ScreenInv, NEW d \in Devices, Screen!Look(d) PROVE ScreenInv'
<1> DEFINE new == [by |-> d, tap |-> 0, saw |-> {}]
<1>1. /\ reads' = reads \cup {new} /\ looks' = [looks EXCEPT ![d] = @ + 1]
      /\ UNCHANGED <<recorded, posts, shown, busy, taps, done>>
  BY DEF Screen!Look, Screen!server
<1>2. new \in Load /\ ~Behind(new) /\ new.by = d
  BY DEF Load, Behind
<1> HIDE DEF new
<1>3. ScreenType'
  BY <1>1, <1>2 DEF ScreenInv, ScreenType
<1>4. Screen!DoneIsRecorded' /\ PostsInv' /\ ReloadsInv'
  BY <1>1, <1>2 DEF ScreenInv, Screen!DoneIsRecorded, PostsInv, ReloadsInv, DoneOn
<1>5. EffectsInv'
  BY <1>1, <1>2 DEF ScreenInv, ScreenType, EffectsInv, DoneOn
<1> QED BY <1>1, <1>3, <1>4, <1>5, ScreenBillStays DEF ScreenInv

LEMMA NewStep == ASSUME ScreenInv, NEW d \in Devices, Screen!New(d) PROVE ScreenInv'
<1>1. /\ reads' \subseteq reads
      /\ UNCHANGED <<recorded, posts, shown, busy, taps, looks, done>>
  BY DEF Screen!New, Screen!server, Screen!counts
<1>3. ScreenType'
  BY <1>1 DEF ScreenInv, ScreenType
<1>4. Screen!DoneIsRecorded' /\ PostsInv' /\ ReloadsInv'
  BY <1>1 DEF ScreenInv, Screen!DoneIsRecorded, PostsInv, ReloadsInv, DoneOn
<1>5. EffectsInv'
  BY <1>1 DEF ScreenInv, ScreenType, EffectsInv, DoneOn
<1> QED BY <1>1, <1>3, <1>4, <1>5, ScreenBillStays DEF ScreenInv

LEMMA TapStep == ASSUME ScreenInv, NEW d \in Devices, NEW i \in Screen!Intents, Screen!Tap(d, i) PROVE ScreenInv'
<1> DEFINE new == [by |-> d, tap |-> taps'[d], intent |-> i, kept |-> None]
<1>1. /\ posts' = posts \cup {new} /\ busy' = [busy EXCEPT ![d] = i] /\ taps' = [taps EXCEPT ![d] = @ + 1]
      /\ UNCHANGED <<recorded, reads, shown, looks, done>>
      /\ busy[d] = None /\ Whose[i] = d /\ shown[d] # {}
  BY DEF Screen!Tap
<1>2. new \in Tapped /\ new.by = d /\ new.tap = taps[d] + 1 /\ new.kept # TRUE /\ new.intent = i
  <2>1. taps'[d] = taps[d] + 1 /\ taps[d] \in Nat
    BY <1>1 DEF ScreenInv, ScreenType
  <2>2. None \in BOOLEAN \cup {None} /\ None # TRUE
    BY IntentsAreFinite
  <2>3. \A t \in Nat, j \in Screen!Intents : [by |-> d, tap |-> t, intent |-> j, kept |-> None] \in Tapped
    <3> SUFFICES ASSUME NEW t \in Nat, NEW j \in Screen!Intents
                 PROVE  [by |-> d, tap |-> t, intent |-> j, kept |-> None] \in Tapped
      OBVIOUS
    <3> DEFINE Kept == BOOLEAN \cup {None}
    <3>1. None \in Kept
      OBVIOUS
    <3> HIDE DEF Kept
    <3>2. [by |-> d, tap |-> t, intent |-> j, kept |-> None] \in [by: Devices, tap: Nat, intent: Screen!Intents, kept: Kept]
      BY <3>1
    <3> QED BY <3>2 DEF Tapped, Kept
  <2>4. taps'[d] \in Nat
    BY <2>1
  <2>5. new \in Tapped
    BY <2>3, <2>4
  <2> QED BY <2>1, <2>2, <2>5
<1> HIDE DEF new
<1>3. ScreenType'
  BY <1>1, <1>2 DEF ScreenInv, ScreenType
<1>4. \A p \in posts : p.by \in Devices /\ taps[p.by] \in Nat /\ p.tap \in 1..taps[p.by]
  BY DEF ScreenInv, ScreenType, PostsInv, Tapped
<1>5. \A e \in Devices : taps'[e] = (IF e = d THEN taps[d] + 1 ELSE taps[e]) /\ taps[e] \in Nat
  BY <1>1 DEF ScreenInv, ScreenType
<1>6. \A e \in Devices : busy'[e] = (IF e = d THEN i ELSE busy[e])
  BY <1>1 DEF ScreenInv, ScreenType
<1>7. PostsInv'
  <2>1. \A p \in posts' : /\ p.tap \in 1..taps'[p.by] /\ Whose[p.intent] = p.by
                          /\ p.kept = TRUE => recorded'[p.intent] > 0
    <3> SUFFICES ASSUME NEW p \in posts'
                 PROVE  /\ p.tap \in 1..taps'[p.by] /\ Whose[p.intent] = p.by
                        /\ p.kept = TRUE => recorded'[p.intent] > 0
      OBVIOUS
    <3>1. CASE p = new
      <4>1. taps'[d] = taps[d] + 1 /\ taps[d] \in Nat
        BY <1>5
      <4>2. p.by = d /\ p.tap = taps[d] + 1 /\ p.intent = i /\ p.kept # TRUE /\ Whose[i] = d
        BY <1>1, <1>2, <3>1
      <4>3. p.tap \in 1..taps'[p.by]
        BY <4>1, <4>2
      <4> QED BY <4>2, <4>3
    <3>2. CASE p \in posts
      BY <1>1, <1>4, <1>5, <3>2 DEF ScreenInv, PostsInv
    <3> QED BY <1>1, <3>1, <3>2
  <2>2. \A p, r \in posts' : p.by = r.by /\ p.tap = r.tap => p = r
    BY <1>1, <1>2, <1>4 DEF ScreenInv, PostsInv
  <2>3. \A e \in Devices : busy'[e] # None => Whose[busy'[e]] = e
    BY <1>1, <1>6 DEF ScreenInv, PostsInv
  <2> QED BY <2>1, <2>2, <2>3 DEF PostsInv
<1>8. \A r \in reads : Behind(r) => r.by # d /\ r.by \in Devices
  BY <1>1 DEF ScreenInv, ScreenType, Load, ReloadsInv
<1>9. ReloadsInv'
  BY <1>1, <1>2, <1>5, <1>6, <1>8 DEF ScreenInv, ReloadsInv, DoneOn, Behind
<1>10. EffectsInv'
  BY <1>1, <1>6 DEF ScreenInv, EffectsInv, DoneOn
<1>11. Screen!DoneIsRecorded'
  BY <1>1 DEF ScreenInv, Screen!DoneIsRecorded
<1> QED BY <1>1, <1>3, <1>7, <1>9, <1>10, <1>11, ScreenBillStays DEF ScreenInv

(* A bill on which one more of an accepted intent is recorded owes nothing    *)
(* back: Accepts has looked at the very bill that it adds to.                 *)
LEMMA AcceptedOwesNothing ==
    ASSUME NEW b \in Bill, NEW i \in Screen!Intents, NEW c, c = [b EXCEPT ![i] = @ + 1],
           Screen!Quantity(b) >= 0, Screen!Balance(b) >= 0,
           i \in Removals => Screen!Quantity(b) > 0,
           i \notin Rounds => Screen!Balance(b) > 0
    PROVE  Screen!Quantity(c) >= 0 /\ Screen!Balance(c) >= 0
<1> DEFINE One(kind) == IF i \in kind THEN 1 ELSE 0
           T(kind) == Screen!Times(kind, b)
<1>0. OneMoreTap(b, i, c)
  BY DEF OneMoreTap
<1>1. \A kind \in {Rounds, Removals, Payments} : T(kind) \in Nat /\ Screen!Times(kind, c) = T(kind) + One(kind)
  <2> SUFFICES ASSUME NEW kind \in {Rounds, Removals, Payments}
               PROVE  T(kind) \in Nat /\ Screen!Times(kind, c) = T(kind) + One(kind)
    OBVIOUS
  <2>1. Screen!Times(kind, b) \in Nat
    BY TimesType
  <2>2. Screen!Times(kind, c) = Screen!Times(kind, b) + (IF i \in kind THEN 1 ELSE 0)
    BY <1>0, TimesOneMore, Zenon
  <2> QED BY <2>1, <2>2
<1>2. /\ One(Rounds) \in {0, 1} /\ One(Removals) \in {0, 1} /\ One(Payments) \in {0, 1}
      /\ One(Rounds) + One(Removals) + One(Payments) = 1
      /\ (One(Removals) = 1) = (i \in Removals) /\ (One(Rounds) = 1) = (i \in Rounds)
  BY IntentsAssumption, IntentsAreFinite
<1> HIDE DEF One, T
<1>3. /\ Screen!Times(Rounds, b) = T(Rounds) /\ Screen!Times(Removals, b) = T(Removals)
      /\ Screen!Times(Payments, b) = T(Payments)
  BY DEF T
<1>4. /\ Screen!Quantity(b) = Opening + T(Rounds) - T(Removals)
      /\ Screen!Balance(b) = Opening + T(Rounds) - T(Removals) - T(Payments)
      /\ Screen!Quantity(c) = Opening + (T(Rounds) + One(Rounds)) - (T(Removals) + One(Removals))
      /\ Screen!Balance(c) = Opening + (T(Rounds) + One(Rounds)) - (T(Removals) + One(Removals)) - (T(Payments) + One(Payments))
  <2>1. /\ Screen!Quantity(b) = Opening + Screen!Times(Rounds, b) - Screen!Times(Removals, b)
        /\ Screen!Quantity(c) = Opening + Screen!Times(Rounds, c) - Screen!Times(Removals, c)
    BY DEF Screen!Quantity
  <2>2. /\ Screen!Balance(b) = Screen!Quantity(b) - Screen!Times(Payments, b)
        /\ Screen!Balance(c) = Screen!Quantity(c) - Screen!Times(Payments, c)
    BY DEF Screen!Balance
  <2>3. /\ Screen!Times(Rounds, c) = T(Rounds) + One(Rounds)
        /\ Screen!Times(Removals, c) = T(Removals) + One(Removals)
        /\ Screen!Times(Payments, c) = T(Payments) + One(Payments)
    BY <1>1
  <2>4. T(Rounds) \in Nat /\ T(Removals) \in Nat /\ T(Payments) \in Nat /\ Opening \in Nat
    BY <1>1, OpeningAssumption
  <2> QED BY <1>2, <1>3, <2>1, <2>2, <2>3, <2>4
<1>5. T(Rounds) \in Nat /\ T(Removals) \in Nat /\ T(Payments) \in Nat /\ Opening \in Nat
  BY <1>1, OpeningAssumption
<1> QED BY <1>2, <1>4, <1>5

LEMMA AcceptedAddsUp ==
    ASSUME ScreenInv, NEW i \in Screen!Intents, Screen!Accepts(i),
           recorded' = [recorded EXCEPT ![i] = @ + 1]
    PROVE  Screen!NothingOwedBack'
<1>1. recorded \in Bill /\ Screen!Quantity(recorded) >= 0 /\ Screen!Balance(recorded) >= 0
  BY DEF ScreenInv, ScreenType, Screen!NothingOwedBack
<1>2. /\ i \in Removals => Screen!Quantity(recorded) > 0
      /\ i \notin Rounds => Screen!Balance(recorded) > 0
  BY DEF Screen!Accepts
<1>3. Screen!Quantity(recorded') >= 0 /\ Screen!Balance(recorded') >= 0
  BY <1>1, <1>2, AcceptedOwesNothing
<1> QED BY <1>3 DEF Screen!NothingOwedBack

LEMMA ServeStep == ASSUME ScreenInv, NEW p \in posts, Screen!Serve(p) PROVE ScreenInv'
<1> DEFINE kept == Screen!Accepts(p.intent)
           answer == [p EXCEPT !.kept = kept]
<1>1. /\ posts' = (posts \ {p}) \cup {answer}
      /\ recorded' = IF kept THEN [recorded EXCEPT ![p.intent] = @ + 1] ELSE recorded
      /\ UNCHANGED <<reads, shown, busy, taps, looks, done>>
  BY DEF Screen!Serve, Screen!page, Screen!counts
<1>2. p \in Tapped /\ p.intent \in Screen!Intents /\ kept \in BOOLEAN
  BY DEF ScreenInv, ScreenType, Tapped, Screen!Accepts
<1>3. answer \in Tapped /\ answer.by = p.by /\ answer.tap = p.tap /\ answer.intent = p.intent /\ answer.kept = kept
  <2> DEFINE Kept == BOOLEAN \cup {None}
  <2>1. kept \in Kept
    BY <1>2
  <2>2. p \in [by: Devices, tap: Nat, intent: Screen!Intents, kept: Kept]
    BY <1>2 DEF Tapped
  <2> HIDE DEF kept, Kept
  <2>3. /\ answer \in [by: Devices, tap: Nat, intent: Screen!Intents, kept: Kept]
        /\ answer.by = p.by /\ answer.tap = p.tap /\ answer.intent = p.intent /\ answer.kept = kept
    BY <2>1, <2>2
  <2> QED BY <2>3 DEF Tapped, Kept
<1> HIDE DEF answer, kept
<1>4. /\ \A i \in Screen!Intents : recorded[i] \in Nat /\ recorded'[i] \in Nat /\ recorded'[i] >= recorded[i]
      /\ kept => recorded'[p.intent] > 0
      /\ recorded' \in Bill
  BY <1>1, <1>2 DEF ScreenInv, ScreenType, Bill
<1>5. ScreenType'
  BY <1>1, <1>3, <1>4 DEF ScreenInv, ScreenType
<1>6. Screen!NothingOwedBack'
  <2>1. CASE kept
    BY <1>1, <1>2, <2>1, AcceptedAddsUp DEF kept
  <2>2. CASE ~kept
    BY <1>1, <2>2, ScreenBillStays
  <2> QED BY <2>1, <2>2
<1>7. Screen!DoneIsRecorded'
  BY <1>1, <1>4 DEF ScreenInv, ScreenType, Screen!DoneIsRecorded
<1>8. PostsInv'
  <2>1. \A r \in posts' : /\ r.tap \in 1..taps'[r.by] /\ Whose[r.intent] = r.by
                          /\ r.kept = TRUE => recorded'[r.intent] > 0
    <3> SUFFICES ASSUME NEW r \in posts'
                 PROVE  /\ r.tap \in 1..taps'[r.by] /\ Whose[r.intent] = r.by
                        /\ r.kept = TRUE => recorded'[r.intent] > 0
      OBVIOUS
    <3>1. CASE r = answer
      <4>1. answer.tap \in 1..taps[answer.by] /\ Whose[answer.intent] = answer.by
        BY <1>3 DEF ScreenInv, PostsInv
      <4>2. answer.kept = TRUE => recorded'[answer.intent] > 0
        BY <1>3, <1>4
      <4> QED BY <1>1, <3>1, <4>1, <4>2
    <3>2. CASE r \in posts
      <4>1. r.intent \in Screen!Intents /\ (r.kept = TRUE => recorded[r.intent] > 0)
            /\ r.tap \in 1..taps[r.by] /\ Whose[r.intent] = r.by
        BY <3>2 DEF ScreenInv, ScreenType, Tapped, PostsInv
      <4> QED BY <1>1, <1>4, <4>1
    <3> QED BY <1>1, <3>1, <3>2
  <2>2. \A r, s \in posts' : r.by = s.by /\ r.tap = s.tap => r = s
    BY <1>1, <1>3 DEF ScreenInv, PostsInv
  <2> QED BY <1>1, <2>1, <2>2 DEF ScreenInv, PostsInv
<1>9. ReloadsInv'
  <2>1. \A r \in reads : Behind(r) => busy[r.by] # None /\ busy[r.by] \in Screen!Intents
    BY DEF ScreenInv, ScreenType, Load, ReloadsInv
  <2>2. \A q \in posts' : \E s \in posts : s.by = q.by /\ s.tap = q.tap
    BY <1>1, <1>3
  <2> QED BY <1>1, <1>4, <2>1, <2>2 DEF ScreenInv, ReloadsInv, DoneOn
<1>10. EffectsInv'
  BY <1>1 DEF ScreenInv, EffectsInv, DoneOn
<1> QED BY <1>5, <1>6, <1>7, <1>8, <1>9, <1>10 DEF ScreenInv

(* A post that is awaited is the last one of its device, which is at it.      *)
LEMMA AwaitedIsTheLast ==
    ASSUME ScreenInv, NEW p \in posts, Screen!Awaits(p.by, p)
    PROVE  /\ p.by \in Devices /\ p.intent \in Screen!Intents /\ Whose[p.intent] = p.by
           /\ busy[p.by] = p.intent /\ p.intent # None /\ p.tap = taps[p.by] /\ p.tap # 0
           /\ \A r \in reads : r.by = p.by => ~Behind(r)
           /\ shown[p.by] # {}
<1>1. p \in Tapped /\ Whose[p.intent] = p.by /\ p.tap \in 1..taps[p.by]
  BY DEF ScreenInv, ScreenType, PostsInv
<1>2. p.by \in Devices /\ p.intent \in Screen!Intents /\ p.tap # 0 /\ p.tap = taps[p.by] /\ busy[p.by] = p.intent
  BY <1>1 DEF Tapped, Screen!Awaits, ScreenInv, ScreenType
<1>3. p.intent # None
  BY <1>2, IntentsAreFinite
<1>4. \A r \in reads : r.by = p.by => ~Behind(r)
  BY <1>2 DEF ScreenInv, ReloadsInv
<1> QED BY <1>1, <1>2, <1>3, <1>4 DEF ScreenInv, EffectsInv

LEMMA AnsweredStep == ASSUME ScreenInv, NEW p \in posts, Screen!Answered(p) PROVE ScreenInv'
<1> DEFINE new == Screen!Reload(p.by)
<1>1. /\ posts' = posts \ {p} /\ reads' = reads \cup {new} /\ p.kept = TRUE
      /\ UNCHANGED <<recorded, shown, busy, taps, looks, done>>
  BY DEF Screen!Answered, Screen!page, Screen!counts
<1>2. /\ p.by \in Devices /\ Whose[p.intent] = p.by /\ busy[p.by] = p.intent /\ p.intent # None
      /\ p.tap = taps[p.by] /\ p.tap # 0 /\ \A r \in reads : r.by = p.by => ~Behind(r)
      /\ shown[p.by] # {}
  BY AwaitedIsTheLast DEF Screen!Answered
<1>3. recorded[p.intent] > 0
  BY <1>1 DEF ScreenInv, PostsInv
<1>4. new \in Load /\ new.by = p.by /\ new.tap = taps[p.by] /\ new.saw = {} /\ Behind(new)
  BY <1>2 DEF Screen!Reload, Load, ScreenInv, ScreenType, Behind
<1> HIDE DEF new
<1>5. ScreenType'
  BY <1>1, <1>4 DEF ScreenInv, ScreenType
<1>6. Screen!DoneIsRecorded' /\ PostsInv'
  BY <1>1 DEF ScreenInv, Screen!DoneIsRecorded, PostsInv
<1>7. ReloadsInv'
  <2>1. \A q \in posts' : ~(q.by = new.by /\ q.tap = new.tap)
    BY <1>1, <1>2, <1>4 DEF ScreenInv, PostsInv
  <2> QED BY <1>1, <1>2, <1>3, <1>4, <2>1 DEF ScreenInv, ReloadsInv, DoneOn, Behind
<1>8. EffectsInv'
  BY <1>1, <1>2, <1>4 DEF ScreenInv, EffectsInv, DoneOn, Behind
<1> QED BY <1>1, <1>5, <1>6, <1>7, <1>8, ScreenBillStays DEF ScreenInv

(* A handler that gives up leaves the bill, and what was done, as they were.  *)
LEMMA GivenUp ==
    ASSUME ScreenInv, NEW p \in posts, Screen!Awaits(p.by, p), Screen!Ended(p.by), posts' \subseteq posts,
           UNCHANGED <<recorded, reads, shown, taps, looks, done>>
    PROVE  ScreenInv'
<1>1. p.by \in Devices /\ shown[p.by] # {} /\ \A r \in reads : r.by = p.by => ~Behind(r)
  BY AwaitedIsTheLast
<1>2. \A e \in Devices : busy'[e] = (IF e = p.by THEN None ELSE busy[e])
  BY <1>1 DEF Screen!Ended, ScreenInv, ScreenType
<1>3. ScreenType'
  BY <1>1 DEF ScreenInv, ScreenType, Screen!Ended
<1>4. Screen!DoneIsRecorded' /\ PostsInv'
  BY <1>2 DEF ScreenInv, Screen!DoneIsRecorded, PostsInv
<1>5. \A r \in reads : Behind(r) => r.by \in Devices /\ busy'[r.by] = busy[r.by]
  BY <1>1, <1>2 DEF ScreenInv, ScreenType, Load
<1>6. ReloadsInv'
  BY <1>5 DEF ScreenInv, ReloadsInv, DoneOn
<1>7. EffectsInv'
  BY <1>1, <1>2 DEF ScreenInv, EffectsInv, DoneOn
<1> QED BY <1>3, <1>4, <1>6, <1>7, ScreenBillStays DEF ScreenInv

LEMMA RefusedStep == ASSUME ScreenInv, NEW p \in posts, Screen!Refused(p) PROVE ScreenInv'
BY GivenUp DEF Screen!Refused, Screen!counts

LEMMA BreaksStep == ASSUME ScreenInv, NEW p \in posts, Screen!Breaks(p) PROVE ScreenInv'
BY GivenUp DEF Screen!Breaks, Screen!counts

LEMMA ForgottenStep == ASSUME ScreenInv, NEW p \in posts, Screen!Forgotten(p) PROVE ScreenInv'
<1>1. posts' \subseteq posts /\ UNCHANGED <<recorded, reads, shown, busy, taps, looks, done>>
  BY DEF Screen!Forgotten, Screen!page, Screen!counts
<1>2. ScreenType'
  BY <1>1 DEF ScreenInv, ScreenType
<1>3. Screen!DoneIsRecorded' /\ PostsInv' /\ ReloadsInv' /\ EffectsInv'
  BY <1>1 DEF ScreenInv, Screen!DoneIsRecorded, PostsInv, ReloadsInv, EffectsInv, DoneOn
<1> QED BY <1>1, <1>2, <1>3, ScreenBillStays DEF ScreenInv

LEMMA ServeReadStep == ASSUME ScreenInv, NEW r \in reads, Screen!ServeRead(r) PROVE ScreenInv'
<1> DEFINE new == [r EXCEPT !.saw = {recorded}]
<1>1. /\ reads' = (reads \ {r}) \cup {new}
      /\ UNCHANGED <<recorded, posts, shown, busy, taps, looks, done>>
  BY DEF Screen!ServeRead, Screen!server, Screen!page, Screen!counts
<1>2. r \in Load /\ recorded \in Bill
  BY DEF ScreenInv, ScreenType
<1>3. new \in Load /\ new.by = r.by /\ new.tap = r.tap /\ new.saw = {recorded}
  BY <1>2 DEF Load
<1> HIDE DEF new
<1>4. ScreenType'
  BY <1>1, <1>3 DEF ScreenInv, ScreenType
<1>5. Screen!DoneIsRecorded' /\ PostsInv'
  BY <1>1 DEF ScreenInv, Screen!DoneIsRecorded, PostsInv
<1>6. ReloadsInv'
  BY <1>1, <1>3 DEF ScreenInv, ReloadsInv, Screen!DoneIsRecorded, DoneOn, Behind
<1>7. EffectsInv'
  BY <1>1, <1>3 DEF ScreenInv, EffectsInv, DoneOn, Behind
<1> QED BY <1>1, <1>4, <1>5, <1>6, <1>7, ScreenBillStays DEF ScreenInv

(* A load of the page's effect comes to a page that has shown nothing yet; a  *)
(* handler's reload ends the handler, and what it posted is done.             *)
LEMMA EffectLoaded == ASSUME ScreenInv, NEW r \in reads, Screen!Loaded(r), ~Behind(r) PROVE ScreenInv'
<1>1. /\ r.saw # {} /\ reads' = reads \ {r} /\ shown' = [shown EXCEPT ![r.by] = r.saw]
      /\ UNCHANGED <<recorded, posts, busy, taps, looks, done>>
  BY DEF Screen!Loaded, Screen!server, Screen!counts, Behind
<1>2. r \in Load /\ r.by \in Devices /\ r.saw \subseteq Bill
  BY DEF ScreenInv, ScreenType, Load
<1>3. ScreenType'
  BY <1>1, <1>2 DEF ScreenInv, ScreenType
<1>4. Screen!DoneIsRecorded' /\ PostsInv' /\ ReloadsInv'
  BY <1>1 DEF ScreenInv, Screen!DoneIsRecorded, PostsInv, ReloadsInv, DoneOn
<1>5. \A d \in Devices : shown'[d] = (IF d = r.by THEN r.saw ELSE shown[d])
  BY <1>1 DEF ScreenInv, ScreenType
<1>6. EffectsInv'
  BY <1>1, <1>2, <1>5 DEF ScreenInv, EffectsInv, DoneOn
<1> QED BY <1>1, <1>3, <1>4, <1>6, ScreenBillStays DEF ScreenInv

LEMMA ReloadLoaded == ASSUME ScreenInv, NEW r \in reads, Screen!Loaded(r), Behind(r) PROVE ScreenInv'
<1> DEFINE it == busy[r.by]
<1>1. /\ r.saw # {} /\ reads' = reads \ {r} /\ shown' = [shown EXCEPT ![r.by] = r.saw]
      /\ busy' = [busy EXCEPT ![r.by] = None] /\ done' = done \cup ({it} \ {None})
      /\ UNCHANGED <<recorded, posts, taps, looks>>
  BY DEF Screen!Loaded, Screen!server, Screen!counts, Screen!Ended, Behind
<1>2. r \in Load /\ r.by \in Devices /\ r.saw \subseteq Bill
  BY DEF ScreenInv, ScreenType, Load
<1>3. it # None /\ it \in Screen!Intents /\ Whose[it] = r.by /\ recorded[it] > 0
  BY <1>2 DEF ScreenInv, ScreenType, ReloadsInv, PostsInv
<1>4. done' = done \cup {it}
  BY <1>1, <1>3
<1>5. \A d \in Devices : /\ shown'[d] = (IF d = r.by THEN r.saw ELSE shown[d])
                         /\ busy'[d] = (IF d = r.by THEN None ELSE busy[d])
                         /\ DoneOn(d)' = (IF d = r.by THEN DoneOn(d) \cup {it} ELSE DoneOn(d))
  BY <1>1, <1>3, <1>4 DEF ScreenInv, ScreenType, DoneOn
<1>6. \A b \in r.saw, i \in DoneOn(r.by) \cup {it} : b[i] > 0
  BY DEF ScreenInv, ReloadsInv
<1> HIDE DEF it
<1>7. ScreenType'
  BY <1>1, <1>2, <1>3, <1>4 DEF ScreenInv, ScreenType
<1>8. Screen!DoneIsRecorded' /\ PostsInv'
  BY <1>1, <1>3, <1>4, <1>5 DEF ScreenInv, Screen!DoneIsRecorded, PostsInv
<1>9. \A s \in reads' : /\ s \in reads /\ s.by \in Devices
                        /\ Behind(s) => s.by # r.by
  BY <1>1 DEF ScreenInv, ScreenType, Load, ReloadsInv
<1>10. ReloadsInv'
  BY <1>1, <1>5, <1>9 DEF ScreenInv, ReloadsInv
<1>11. EffectsInv'
  BY <1>1, <1>2, <1>5, <1>6, <1>9 DEF ScreenInv, EffectsInv, ReloadsInv
<1> QED BY <1>1, <1>7, <1>8, <1>10, <1>11, ScreenBillStays DEF ScreenInv

LEMMA ReadBreaksStep == ASSUME ScreenInv, NEW r \in reads, Screen!ReadBreaks(r) PROVE ScreenInv'
<1>1. /\ reads' = reads \ {r}
      /\ IF ~Behind(r) THEN busy' = busy ELSE busy' = [busy EXCEPT ![r.by] = None]
      /\ UNCHANGED <<recorded, posts, shown, taps, looks, done>>
  BY DEF Screen!ReadBreaks, Screen!server, Screen!counts, Screen!Ended, Behind
<1>2. r \in Load /\ r.by \in Devices
  BY DEF ScreenInv, ScreenType, Load
<1>3. \A d \in Devices : busy'[d] = (IF d = r.by /\ Behind(r) THEN None ELSE busy[d])
  BY <1>1, <1>2 DEF ScreenInv, ScreenType
<1>4. ScreenType'
  BY <1>1, <1>2 DEF ScreenInv, ScreenType
<1>5. Screen!DoneIsRecorded' /\ PostsInv'
  BY <1>1, <1>3 DEF ScreenInv, Screen!DoneIsRecorded, PostsInv
<1>6. \A s \in reads' : s \in reads /\ s.by \in Devices /\ (Behind(s) => busy'[s.by] = busy[s.by])
  BY <1>1, <1>3 DEF ScreenInv, ScreenType, Load, ReloadsInv
<1>7. ReloadsInv'
  BY <1>1, <1>6 DEF ScreenInv, ReloadsInv, DoneOn
<1>8. EffectsInv'
  BY <1>1, <1>3 DEF ScreenInv, EffectsInv, DoneOn
<1> QED BY <1>1, <1>4, <1>5, <1>7, <1>8, ScreenBillStays DEF ScreenInv

LEMMA ScreenStep == ASSUME ScreenInv, Screen!Next PROVE ScreenInv'
<1>1. ASSUME NEW d \in Devices, Screen!Look(d) \/ Screen!New(d) \/ \E i \in Screen!Intents : Screen!Tap(d, i)
      PROVE  ScreenInv'
  BY <1>1, LookStep, NewStep, TapStep
<1>2. ASSUME NEW p \in posts,
             Screen!Serve(p) \/ Screen!Answered(p) \/ Screen!Refused(p) \/ Screen!Breaks(p) \/ Screen!Forgotten(p)
      PROVE  ScreenInv'
  BY <1>2, ServeStep, AnsweredStep, RefusedStep, BreaksStep, ForgottenStep
<1>3. ASSUME NEW r \in reads, Screen!ServeRead(r) \/ Screen!Loaded(r) \/ Screen!ReadBreaks(r)
      PROVE  ScreenInv'
  BY <1>3, ServeReadStep, EffectLoaded, ReloadLoaded, ReadBreaksStep
<1> QED BY <1>1, <1>2, <1>3 DEF Screen!Next

LEMMA ScreenStutters == ASSUME ScreenInv, UNCHANGED Screen!vars PROVE ScreenInv'
<1>1. UNCHANGED <<recorded, posts, reads, shown, busy, taps, looks, done>>
  BY DEF Screen!vars
<1>2. ScreenType'
  BY <1>1 DEF ScreenInv, ScreenType
<1>3. Screen!DoneIsRecorded' /\ PostsInv' /\ ReloadsInv' /\ EffectsInv'
  BY <1>1 DEF ScreenInv, Screen!DoneIsRecorded, PostsInv, ReloadsInv, EffectsInv, DoneOn
<1> QED BY <1>1, <1>2, <1>3, ScreenBillStays DEF ScreenInv

LEMMA ScreenAlways == Screen!Spec => []ScreenInv
<1>1. Screen!Init => ScreenInv
  BY ScreenStarts
<1>2. ScreenInv /\ [Screen!Next]_(Screen!vars) => ScreenInv'
  BY ScreenStep, ScreenStutters
<1> QED BY <1>1, <1>2, PTL DEF Screen!Spec

(* What a page took without an error is on the bill, and the bar owes nobody. *)
THEOREM TapsAddUpAlways == Screen!Spec => []TapsAddUp
<1>1. ScreenInv => TapsAddUp
  BY DEF ScreenInv, TapsAddUp
<1> QED BY <1>1, ScreenAlways, PTL

(* An idle page that stayed with the bill shows what was done there.          *)
THEOREM IdlePageShowsWhatItDid == Screen!Spec => []ShowsWhatItDid
<1>1. ScreenInv => ShowsWhatItDid
  BY IntentsAreFinite DEF ScreenInv, ScreenType, EffectsInv, DoneOn, ShowsWhatItDid, Screen!ShowsWhatItDid
<1> QED BY <1>1, ScreenAlways, PTL
==============================================================================

----------------------------- MODULE SharedBill -----------------------------
(* A tab's bill and the public page that shows it (internal/sales/            *)
(* share_links.go, bill_share_link_handlers.go): rounds and corrections are   *)
(* posted by devices whose clocks differ; a link is made, made anew, revoked  *)
(* or expires; the page is read in several statements meanwhile.              *)
EXTENDS Integers, Sequences, FiniteSets, Sums

CONSTANTS Requests,     \* bound: requests at a time
          Variants,
          Prices,       \* what a variant costs, at one time or another
          Quantities,   \* bound: of a variant in a round
          MaxRounds,    \* bound: rounds of the bill
          MaxTokens,    \* bound: links made
          LastMoment    \* bound: the clock

ASSUME AmountsAssumption == Prices \subseteq Nat /\ Quantities \subseteq Nat \ {0}
ASSUME BoundsAssumption == MaxRounds \in Nat /\ MaxTokens \in Nat /\ LastMoment \in Nat

Null == 0

VARIABLES rounds,     \* the bill's sales in the order they were posted; one item each
          paid,       \* the sum of its payments
          link,       \* its row of bill_share_links, if any
          tokens,     \* how many tokens were handed out
          clock, request

bill == <<rounds, paid>>
vars == <<bill, link, tokens, clock, request>>

Free == [at |-> "free"]
Open(q) == request[q]
At(q, at) == request[q].at = at
Proceed(q, next) == request' = [request EXCEPT ![q] = next]

Init == /\ rounds = <<>> /\ paid = 0
        /\ link = [token |-> Null, expires |-> Null, revoked |-> FALSE]
        /\ tokens = 0 /\ clock = 1
        /\ request = [q \in Requests |-> Free]

LineTotal(item) == item.quantity * item.price
LinesOver(items, those) == SumOver([k \in DOMAIN items |-> LineTotal(items[k])], those)
Total(items) == LinesOver(items, DOMAIN items)
Of(items, v) == {k \in DOMAIN items : items[k].variant = v}
SumBillItemQuantityByVariant(items, v) == SumOver([k \in DOMAIN items |-> items[k].quantity], Of(items, v))
Balance == Total(rounds) - paid

(* The bill: a round carries the time on the device that took the order.      *)

Post(v, quantity, price, occurred) ==
    /\ Len(rounds) < MaxRounds
    /\ rounds' = Append(rounds, [variant |-> v, quantity |-> quantity, price |-> price, occurred |-> occurred])
    /\ UNCHANGED <<paid, link, tokens, clock, request>>

AddSaleRound == \E v \in Variants, n \in Quantities, p \in Prices, t \in 1..clock : Post(v, n, p, t)

(* At the price of the day, for what is on the bill and not yet paid for.     *)
RemoveBillItem == \E v \in Variants, n \in Quantities, p \in Prices, t \in 1..clock :
    /\ n <= SumBillItemQuantityByVariant(rounds, v)
    /\ n * p <= Balance
    /\ Post(v, -n, p, t)

RecordPayment == /\ Balance > 0 /\ paid' = paid + Balance
                 /\ UNCHANGED <<rounds, link, tokens, clock, request>>

(* The link *)

GetActiveBillShareLinkByTokenHash(token) ==
    link.token = token /\ ~link.revoked /\ (link.expires = Null \/ link.expires > clock)

(* A slip: the row keeps the token it had. *)
KeepToken(token, expires) ==
    link' = [token |-> IF link.token = Null THEN token ELSE link.token, expires |-> expires, revoked |-> FALSE]

(* One row for the bill: a second INSERT becomes an UPDATE of the first. *)
UpsertBillShareLink(token, expires) == link' = [token |-> token, expires |-> expires, revoked |-> FALSE]

createOrRotateBillShareLink(q) == \E expires \in {Null} \union ((clock + 1)..LastMoment) :
    /\ At(q, "free") /\ tokens < MaxTokens
    /\ tokens' = tokens + 1
    /\ Proceed(q, [at |-> "create", token |-> tokens + 1, expires |-> expires])
    /\ UNCHANGED <<bill, link, clock>>

CreateOrRotateShareLink(q) ==
    /\ At(q, "create")
    /\ UpsertBillShareLink(Open(q).token, Open(q).expires)
    /\ Proceed(q, Free)
    /\ UNCHANGED <<bill, tokens, clock>>

RevokeBillShareLinkByBillID == link' = [link EXCEPT !.revoked = TRUE]

RevokeShareLink == /\ link.token # Null /\ ~link.revoked /\ RevokeBillShareLinkByBillID
                   /\ UNCHANGED <<bill, tokens, clock, request>>

(* The page *)

getPublicBill(q) == \E token \in 1..tokens :
    /\ At(q, "free")
    /\ Proceed(q, [at |-> "resolve", token |-> token, from |-> Len(rounds)])
    /\ UNCHANGED <<bill, link, tokens, clock>>

ResolveShareLink(q) ==
    /\ At(q, "resolve")
    /\ Proceed(q, IF GetActiveBillShareLinkByTokenHash(Open(q).token) THEN [at |-> "bill", from |-> Open(q).from] ELSE Free)
    /\ UNCHANGED <<bill, link, tokens, clock>>

(* ORDER BY occurred_at; rows of the same moment come in any order.          *)
InOrder(order) == \A j, k \in DOMAIN order : j < k => rounds[order[j]].occurred <= rounds[order[k]].occurred
ListSalesByBillID == {[k \in DOMAIN rounds |-> rounds[order[k]]] :
                         order \in {o \in Bijection(DOMAIN rounds, DOMAIN rounds) : InOrder(o)}}

(* Two statements: the bill's row with its balance, then its sales. *)
GetBillDetail(q) ==
    /\ \/ At(q, "bill") /\ Proceed(q, [at |-> "sales", from |-> Open(q).from, balance |-> Balance])
       \/ /\ At(q, "sales")
          /\ \E sales \in ListSalesByBillID :
                Proceed(q, [at |-> "page", from |-> Open(q).from, balance |-> Open(q).balance,
                            sales |-> sales, to |-> Len(rounds)])
    /\ UNCHANGED <<bill, link, tokens, clock>>

(* A slip: one line for every round, corrections included. *)
EveryRound(sales) == {[variant |-> sales[k].variant, quantity |-> sales[k].quantity,
                       price |-> sales[k].price, total |-> LineTotal(sales[k])] : k \in DOMAIN sales}

(* One line for every variant of which something is left, at its last price.  *)
Lines(sales) ==
    {[variant |-> v, quantity |-> SumBillItemQuantityByVariant(sales, v),
      price |-> sales[Max(Of(sales, v))].price, total |-> LinesOver(sales, Of(sales, v))] :
     v \in {w \in Variants : SumBillItemQuantityByVariant(sales, w) > 0}}

Leave(q) == At(q, "page") /\ Proceed(q, Free) /\ UNCHANGED <<bill, link, tokens, clock>>

Tick == clock < LastMoment /\ clock' = clock + 1 /\ UNCHANGED <<bill, link, tokens, request>>

Next == \/ AddSaleRound \/ RemoveBillItem \/ RecordPayment \/ RevokeShareLink \/ Tick
        \/ \E q \in Requests : \/ createOrRotateBillShareLink(q) \/ CreateOrRotateShareLink(q)
                               \/ getPublicBill(q) \/ ResolveShareLink(q) \/ GetBillDetail(q) \/ Leave(q)

Spec == Init /\ [][Next]_vars

(* Properties *)

(* A link that was replaced, was revoked or has expired never works again,    *)
(* whichever requests to make or revoke one overlap.                          *)
DeadStaysDead == [][\A t \in 1..MaxTokens :
    t <= tokens /\ GetActiveBillShareLinkByTokenHash(t)' =>
        GetActiveBillShareLinkByTokenHash(t) \/ \E q \in Requests : At(q, "create") /\ Open(q).token = t]_vars

(* What the page of sales shows of the bill when it had its first n rounds:   *)
(* every variant of which something was left, once, with the quantity that    *)
(* was left and what that came to.                                            *)
ShowsTheFirst(sales, n) ==
    LET then == SubSeq(rounds, 1, n)
        left(v) == SumBillItemQuantityByVariant(then, v)
        lines == Lines(sales)
    IN /\ {l.variant : l \in lines} = {v \in Variants : left(v) > 0}
       /\ \A l \in lines : l.quantity = left(l.variant) /\ l.total = LinesOver(then, Of(then, l.variant))
       /\ \A l, m \in lines : l.variant = m.variant => l = m
       /\ Total(sales) = Total(then)

(* What was owed when the bill had its first m rounds: what they come to, but *)
(* for payments.                                                              *)
OwedAt(balance, m) == LET total == Total(SubSeq(rounds, 1, m))
                      IN balance \in 0..total /\ total - balance <= paid

(* What a page lists is what was on the bill at one moment while it was read  *)
(* ("a single net line"), however devices' clocks order the rounds, and the   *)
(* balance it shows beside that is of that moment or an earlier one.          *)
PageIsOneMoment == \A q \in Requests : At(q, "page") =>
    \E n \in Open(q).from..Open(q).to : /\ ShowsTheFirst(Open(q).sales, n)
                                       /\ \E m \in Open(q).from..n : OwedAt(Open(q).balance, m)

(* Not kept: a page never asks for more than it lists. The bill's row is read *)
(* before its sales, and a drink may be taken off in between.                 *)
PageAddsUp == \A q \in Requests : At(q, "page") => Open(q).balance <= Total(Open(q).sales)

(* "Description/unit price reflect the most recently posted round for this    *)
(* variant."                                                                  *)
ShowsLastPosted == \A q \in Requests : At(q, "page") =>
    \A l \in Lines(Open(q).sales) : \E n \in Open(q).from..Open(q).to :
        LET posted == Of(SubSeq(rounds, 1, n), l.variant)
        IN posted # {} /\ l.price = rounds[Max(posted)].price
=============================================================================

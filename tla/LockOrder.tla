----------------------------- MODULE LockOrder -----------------------------
(* The row locks of the transactions that post rounds, payments, receipts and *)
(* reversals (internal/sales, internal/inventory), in the order in which each *)
(* takes them: an UPDATE, an upsert or a SELECT ... FOR UPDATE waits for the  *)
(* row until the transaction that has it ends. PostgreSQL finds a circle of   *)
(* waiting transactions and fails one of them.                                *)
EXTENDS Naturals, Sequences, FiniteSets, SequencesExt

CONSTANTS Requests,    \* bound: transactions at a time
          Bills,
          Variants,
          Carts        \* sequences of variants: the items of a round, the lines of a receipt

VARIABLES task,        \* what each request's transaction still has to lock, and whether it is over
          held,        \* the rows it has locked
          queue        \* who waits for a row, first come first

vars == <<task, held, queue>>

Bill(b) == <<"bills", b>>
Balance(v) == <<"inventory_balances", v>>
Lots(v) == <<"stock_lots", v>>
Rows == {Bill(b) : b \in Bills} \union {Balance(v) : v \in Variants} \union {Lots(v) : v \in Variants}

Free == [at |-> "free"]
At(q, at) == task[q].at = at

Init == /\ task = [q \in Requests |-> Free]
        /\ held = [q \in Requests |-> {}] /\ queue = <<>>

(* What each operation locks. *)

GetBillForUpdate(b) == Bill(b)
UpsertInventoryBalanceDelta(v) == Balance(v)

(* A variant's lots are locked by one statement, oldest first. *)
ListLotsForAllocation(v) == Lots(v)

(* Two rows for each item, one item after the other. *)
InTurn(cart, first(_), second(_)) ==
    [k \in 1..(2 * Len(cart)) |-> LET v == cart[(k + 1) \div 2] IN IF k % 2 = 1 THEN first(v) ELSE second(v)]

postSaleRound(cart) == InTurn(cart, UpsertInventoryBalanceDelta, ListLotsForAllocation)

CreateSale(cart) == postSaleRound(cart)
AddSaleRound(b, cart) == << GetBillForUpdate(b) >> \o postSaleRound(cart)
RemoveBillItem(b, v) == << GetBillForUpdate(b), UpsertInventoryBalanceDelta(v) >>
RecordPayment(b) == << GetBillForUpdate(b) >>

(* The items of the original sale, for which the query asks no order: the     *)
(* balance, then the lots given back to.                                      *)
ReverseSale(cart) == InTurn(cart, UpsertInventoryBalanceDelta, Lots)

ReceiveStock(cart) == [k \in DOMAIN cart |-> UpsertInventoryBalanceDelta(cart[k])]

(* A slip: the lot is emptied before the balance is lowered. *)
LotFirst(cart) == InTurn(cart, Lots, UpsertInventoryBalanceDelta)

(* ORDER BY created_at, which is one moment for all lines of a receipt.       *)
ReverseStockReceipt(cart) == InTurn(cart, UpsertInventoryBalanceDelta, Lots)

InAnyOrder(cart) == {[k \in DOMAIN cart |-> cart[f[k]]] : f \in Bijection(DOMAIN cart, DOMAIN cart)}

(* A device's outbox posts a walk-in sale again until it is answered; of the  *)
(* others the user is told that they failed.                                  *)
Posted == {CreateSale(cart) : cart \in Carts}
Asked == Posted \union {AddSaleRound(b, cart) : b \in Bills, cart \in Carts}
                \union {RemoveBillItem(b, v) : b \in Bills, v \in Variants}
                \union {RecordPayment(b) : b \in Bills}
                \union {ReceiveStock(cart) : cart \in Carts}
                \union UNION {{ReverseSale(c), ReverseStockReceipt(c)} : c \in UNION {InAnyOrder(cart) : cart \in Carts}}

(* Transactions *)

Begin(q) == \E locks \in Asked : \E again \in {FALSE} \union {locks \in Posted} :
    /\ At(q, "free")
    /\ task' = [task EXCEPT ![q] = [at |-> "running", todo |-> locks, locks |-> locks, again |-> again]]
    /\ UNCHANGED <<held, queue>>

Wanted(q) == Head(task[q].todo)
Wants(q) == At(q, "running") /\ task[q].todo # <<>>
Waiting == {queue[k] : k \in DOMAIN queue}
Earlier(q) == {queue[k] : k \in {n \in DOMAIN queue : \A i \in 1..n : queue[i] # q}}
WaitsFor(q) == {r \in Requests \ {q} : /\ Wanted(q) \notin held[q]
                                       /\ \/ Wanted(q) \in held[r]
                                          \/ r \in Earlier(q) /\ Wanted(r) = Wanted(q)}
Leave(q) == \/ q \notin Waiting /\ UNCHANGED queue
            \/ \E k \in DOMAIN queue : queue[k] = q /\ queue' = RemoveAt(queue, k)

Lock(q) == /\ Wants(q) /\ WaitsFor(q) = {}
           /\ held' = [held EXCEPT ![q] = @ \union {Wanted(q)}]
           /\ task' = [task EXCEPT ![q].todo = Tail(@)]
           /\ Leave(q)

Wait(q) == /\ Wants(q) /\ q \notin Waiting /\ WaitsFor(q) # {}
           /\ queue' = Append(queue, q)
           /\ UNCHANGED <<task, held>>

Commit(q) == /\ At(q, "running") /\ task[q].todo = <<>>
             /\ held' = [held EXCEPT ![q] = {}]
             /\ task' = [task EXCEPT ![q] = Free]
             /\ UNCHANGED queue

(* Everybody of a circle waits for everybody else of it, if through others:   *)
(* no part of it waits for nobody of the rest.                                *)
Circles == {s \in SUBSET Waiting : /\ Cardinality(s) > 1
                                   /\ \A part \in (SUBSET s) \ {{}, s} :
                                        \E q \in part : WaitsFor(q) \intersect (s \ part) # {}}

(* deadlock_timeout: one of the circle is rolled back. *)
FailDeadlocked(q) ==
    /\ \E s \in Circles : q \in s
    /\ held' = [held EXCEPT ![q] = {}]
    /\ task' = [task EXCEPT ![q].at = "failed"]
    /\ Leave(q)

Retry(q) == /\ At(q, "failed")
            /\ task' = [task EXCEPT ![q] = IF @.again THEN [@ EXCEPT !.at = "running", !.todo = task[q].locks] ELSE Free]
            /\ UNCHANGED <<held, queue>>

Next == \E q \in Requests : Begin(q) \/ Lock(q) \/ Wait(q) \/ Commit(q) \/ FailDeadlocked(q) \/ Retry(q)

Spec == Init /\ [][Next]_vars

(* Statements run, the database looks for circles, and the outbox is flushed  *)
(* again after a failure.                                                     *)
Fairness == \A q \in Requests : WF_vars(Lock(q) \/ Wait(q) \/ Commit(q) \/ FailDeadlocked(q) \/ Retry(q))

FairSpec == Spec /\ Fairness

(* Properties *)

(* Transaction q goes from variant to variant in the order of the ranks.      *)
Follows(q, rank) == \A j, k \in DOMAIN task[q].locks :
    LET row == task[q].locks[j]
        later == task[q].locks[k]
    IN j < k /\ "bills" \notin {row[1], later[1]} /\ row[2] # later[2] => rank[row[2]] < rank[later[2]]

Ranks == [Variants -> 1..Cardinality(Variants)]

(* The design's "deterministic lock ordering": whatever order of variants one *)
(* agrees on, some transaction of a circle goes against it. Bills, balances   *)
(* and lots alone, in the order in which each operation takes them, make none.*)
CirclesAreOutOfOrder == \A rank \in Ranks : \A s \in Circles : \E q \in s : ~Follows(q, rank)

(* So long as all go in one order, a sale that the device posts until it is   *)
(* answered is posted in the end, however many others begin meanwhile.        *)
SalesInOrderArePosted == \A rank \in Ranks :
    [](\A q \in Requests : At(q, "free") \/ Follows(q, rank))
    => \A q \in Requests : (At(q, "running") /\ task[q].again) ~> At(q, "free")

(* What the design says and the code does not keep: transactions never wait   *)
(* for each other in a circle, and every sale is posted in the end.           *)
NoCircle == Circles = {}
SalesArePosted == \A q \in Requests : (At(q, "running") /\ task[q].again) ~> At(q, "free")
=============================================================================

------------------------------ MODULE Expenses ------------------------------
(* The expenses of one business (internal/expenses): categories, expenses     *)
(* posted once under the key the device made for them, reversals that post    *)
(* the opposite amount, and the figures that the summary and the report by    *)
(* category draw from the rows. A request is a transaction under READ         *)
(* COMMITTED: what it looked up may be out of date when it inserts.           *)
EXTENDS Integers, Sequences, FiniteSets, Sums

CONSTANTS Requests,     \* bound: requests at a time
          Names,        \* names of categories
          Queued,       \* idempotency key -> the expense the device queued under it
          LastDay,      \* bound: days
          MaxExpenses,  \* bound: rows
          None

VARIABLES categories,   \* expense_categories: the names taken
          expenses,     \* the expenses rows; a row's place is its id
          day,          \* today
          request       \* request -> the call it makes and where that is

vars == <<categories, expenses, day, request>>
rows == <<categories, expenses, day>>

Keys == DOMAIN Queued
Days == 1..LastDay

(* The key a reversal is posted under is drawn for it and no device's.        *)
KeysAssumption == Keys \cap Nat = {}
QueuedAssumption == Queued \in [Keys -> [category: Names, amountKobo: Int, occurredAt: Days]]
BoundsAssumption == IsFiniteSet(Names) /\ LastDay \in Nat \ {0} /\ MaxExpenses \in Nat
NoneAssumption == None \notin Nat

Ids == DOMAIN expenses
Free == [at |-> "free"]

Begin(q, call) == request[q] = Free /\ request' = [request EXCEPT ![q] = call]
Proceed(q, at) == request' = [request EXCEPT ![q].at = at]
Created(q, id) == request' = [request EXCEPT ![q].at = "created", ![q].expense = id]
Failed(q) == Proceed(q, "failed")

Init == /\ categories = {}
        /\ expenses = <<>>
        /\ day = 1
        /\ request = [q \in Requests |-> Free]

(* Rows *)

Expense(category, amountKobo, key, occurredAt, reversalOf) ==
    [category |-> category, amountKobo |-> amountKobo, key |-> key,
     occurredAt |-> occurredAt, reversalOf |-> reversalOf]

(* UNIQUE (business_id, name). *)
CreateExpenseCategory(name) == name \notin categories /\ categories' = categories \union {name}

GetExpenseByID(id) == {i \in Ids : i = id}

GetExpenseByIdempotencyKey(key) == {i \in Ids : expenses[i].key = key}

(* The most recent rows, as many as were asked for. *)
ListExpensesDetailed(limit) ==
    LET After(i) == {j \in Ids : \/ expenses[j].occurredAt > expenses[i].occurredAt
                                 \/ (expenses[j].occurredAt = expenses[i].occurredAt /\ j > i)}
    IN {i \in Ids : Cardinality(After(i)) < limit}

GetReversalOfExpense(id) == {i \in Ids : expenses[i].reversalOf = id}

(* A slip: the key is not unique. *)
CreateExpenseTwice(e) == /\ Len(expenses) < MaxExpenses
                         /\ e.category \in categories
                         /\ expenses' = Append(expenses, e)

(* The foreign key to the category and UNIQUE (business_id, idempotency_key). *)
CreateExpense(e) == /\ Len(expenses) < MaxExpenses
                    /\ e.category \in categories
                    /\ GetExpenseByIdempotencyKey(e.key) = {}
                    /\ expenses' = Append(expenses, e)

CannotCreate(e) == e.category \notin categories \/ GetExpenseByIdempotencyKey(e.key) # {}

(* Categories *)

createExpenseCategory(q) == \E n \in Names :
    /\ Begin(q, [at |-> IF n \in categories THEN "failed" ELSE "named", name |-> n])
    /\ IF n \in categories THEN UNCHANGED rows
                           ELSE CreateExpenseCategory(n) /\ UNCHANGED <<expenses, day>>

(* Recording: the device posts what it queued, and posts it again when it *)
(* heard no answer.                                                       *)

recordExpense(q) == \E k \in Keys :
    /\ Queued[k].amountKobo > 0
    /\ Queued[k].occurredAt <= day
    /\ Begin(q, [at |-> "posting", key |-> k, expense |-> None])
    /\ UNCHANGED rows

RecordExpense(q) ==
    LET k == request[q].key
        found == GetExpenseByIdempotencyKey(k)
        posted == Expense(Queued[k].category, Queued[k].amountKobo, k, Queued[k].occurredAt, None)
    IN \/ /\ request[q].at = "posting"
          /\ IF found = {} THEN Proceed(q, "absent") ELSE \E i \in found : Created(q, i)
          /\ UNCHANGED rows
       \/ /\ request[q].at = "absent"
          /\ \/ CreateExpense(posted) /\ Created(q, Len(expenses) + 1)
             \/ CannotCreate(posted) /\ Failed(q) /\ UNCHANGED expenses
          /\ UNCHANGED <<categories, day>>

(* Reversing: the owner picks a row of the list, or names one there is not. *)

ListExpenses == ListExpensesDetailed(20)

reverseExpense(q) == \E i \in ListExpenses \union {Len(expenses) + 1} :
    /\ Begin(q, [at |-> "reversing", reverses |-> i, expense |-> None])
    /\ UNCHANGED rows

Opposite(amountKobo) == -amountKobo

(* The reversal's key is drawn for it: here, the reversal's own id. *)
ReverseExpense(q) ==
    LET id == request[q].reverses
        reversal == Expense(expenses[id].category, Opposite(expenses[id].amountKobo),
                            Len(expenses) + 1, day, id)
    IN \/ /\ request[q].at = "reversing"
          /\ IF GetExpenseByID(id) = {} \/ GetReversalOfExpense(id) # {}
             THEN Failed(q) ELSE Proceed(q, "standing")
          /\ UNCHANGED rows
       \/ /\ request[q].at = "standing"
          /\ CreateExpense(reversal) /\ Created(q, Len(expenses) + 1)
          /\ UNCHANGED <<categories, day>>

Answer(q) == /\ request[q].at \in {"failed", "named", "created"}
             /\ request' = [request EXCEPT ![q] = Free]
             /\ UNCHANGED rows

Midnight == day < LastDay /\ day' = day + 1 /\ UNCHANGED <<categories, expenses, request>>

Next == \/ \E q \in Requests : \/ createExpenseCategory(q)
                               \/ recordExpense(q) \/ RecordExpense(q)
                               \/ reverseExpense(q) \/ ReverseExpense(q)
                               \/ Answer(q)
        \/ Midnight

Spec == Init /\ [][Next]_vars

(* Figures *)

Kobo == [i \in Ids |-> expenses[i].amountKobo]

(* Reversals count in the total and not in the number. *)
Figures(those) == [totalKobo |-> SumOver(Kobo, those),
                   count |-> Cardinality({i \in those : expenses[i].reversalOf = None})]

SumExpensesTotalSince(since) == Figures({i \in Ids : expenses[i].occurredAt >= since})

SumExpensesByCategory(start, end) == [c \in categories |->
    Figures({i \in Ids : expenses[i].category = c /\ expenses[i].occurredAt \in start..(end - 1)})]

(* The summary since a moment, and the report of a range. *)
SumExpensesSince(since) == SumExpensesTotalSince(since)
ExpensesByCategory(start, end) == SumExpensesByCategory(start, end)
reportExpenses(start, end) == ExpensesByCategory(start, end)

(* Properties *)

(* Rows, requests and categories have their types, and a reversal names an   *)
(* earlier row.                                                              *)
TypeOK == /\ categories \subseteq Names
          /\ day \in Days
          /\ \A i \in Ids : /\ expenses[i].category \in categories
                            /\ expenses[i].occurredAt \in Days
                            /\ expenses[i].reversalOf \in (1..(i - 1)) \union {None}
          /\ \A q \in Requests : request[q].at \in {"free", "named", "posting", "absent", "reversing", "standing", "created", "failed"}

(* However often a device posts an expense, and however its posts overlap,   *)
(* every answer names one and the same row, and the row is what was queued.  *)
PostedOnce == \A p \in Requests : request[p].at = "created" /\ "key" \in DOMAIN request[p] =>
    LET k == request[p].key
    IN /\ {i \in Ids : expenses[i].key = k} = {request[p].expense}
       /\ Kobo[request[p].expense] = Queued[k].amountKobo

(* An expense is reversed once ("this expense has already been reversed").   *)
ReversedOnce == \A i, j \in Ids :
    expenses[i].reversalOf # None /\ expenses[i].reversalOf = expenses[j].reversalOf => i = j

(* Where a reversal may itself be reversed, the total is that of the         *)
(* expenses that still stand, as long as nothing is reversed twice.          *)
Stands[i \in Ids] == \A j \in Ids : expenses[j].reversalOf = i => ~Stands[j]
TotalStands == ReversedOnce =>
    SumExpensesSince(1).totalKobo = SumOver(Kobo, {i \in Ids : expenses[i].reversalOf = None /\ Stands[i]})

(* The report by category and the summary tell the same of every range.      *)
FiguresAgree == \A start, end \in 1..(LastDay + 1) : start <= end =>
    LET report == reportExpenses(start, end)
    IN /\ SumOver([c \in categories |-> report[c].totalKobo], categories) =
              SumExpensesSince(start).totalKobo - SumExpensesSince(end).totalKobo
       /\ SumOver([c \in categories |-> report[c].count], categories) =
              SumExpensesSince(start).count - SumExpensesSince(end).count
=============================================================================

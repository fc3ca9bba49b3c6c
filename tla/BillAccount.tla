---------------------------- MODULE BillAccount ----------------------------
(***************************************************************************)
(* What a bill promises the bar, with no word of rounds, payments or       *)
(* write-offs: an account with a status and an amount owed.  The amount is *)
(* never negative, an account that is closed and unpaid owes something, a  *)
(* settled or void one owes nothing, and void is final.  Tabs implements   *)
(* this (TabsRefinement).                                                  *)
(***************************************************************************)
EXTENDS Integers

CONSTANT Bills

VARIABLE account

Statuses == {"none", "open", "closed_unpaid", "settled", "void"}

Init == account = [b \in Bills |-> [status |-> "none", owed |-> 0]]

\* Account b alone changes, to this status; what it then owes is a natural
\* number that the action constrains further.
Becomes(b, status) ==
    /\ account'[b].owed \in Nat
    /\ account' = [account EXCEPT ![b] = [status |-> status, owed |-> account'[b].owed]]

Active(b) == account[b].status \in {"open", "closed_unpaid"}

\* A tab is opened, or a bill that is settled from the start is recorded.
Open(b) ==
    /\ account[b].status = "none"
    /\ Becomes(b, "open") \/ Becomes(b, "settled")
    /\ account'[b].owed = 0

\* A round, or a payment given back, on an account still in use.
Charge(b) ==
    /\ Active(b)
    /\ Becomes(b, account[b].status)
    /\ account'[b].owed > account[b].owed

\* An item taken off, a payment, or debt forgiven.  The last kobo owed on a
\* closed account settles it; an open one stays open.
Credit(b) ==
    /\ Active(b)
    /\ account'[b].owed < account[b].owed
    /\ IF account[b].status = "closed_unpaid" /\ account'[b].owed = 0
       THEN Becomes(b, "settled")
       ELSE Becomes(b, account[b].status)

\* A payment given back on a settled account.
Reopen(b) ==
    /\ account[b].status = "settled"
    /\ Becomes(b, "closed_unpaid")
    /\ account'[b].owed > 0

Close(b) ==
    /\ account[b].status = "open"
    /\ Becomes(b, IF account[b].owed = 0 THEN "settled" ELSE "closed_unpaid")
    /\ account'[b].owed = account[b].owed

Void(b) ==
    /\ account[b].status = "open"
    /\ account[b].owed = 0
    /\ Becomes(b, "void")
    /\ account'[b].owed = 0

Next == \E b \in Bills :
    Open(b) \/ Charge(b) \/ Credit(b) \/ Reopen(b) \/ Close(b) \/ Void(b)

Spec == Init /\ [][Next]_account

-----------------------------------------------------------------------------
\* The promise in one predicate: an amount owed is never negative, and the
\* status of an account that is no longer open says whether it owes anything.
Sound ==
    /\ account \in [Bills -> [status: Statuses, owed: Nat]]
    /\ \A b \in Bills :
         account[b].status # "open"
         => (account[b].owed > 0 <=> account[b].status = "closed_unpaid")
=============================================================================

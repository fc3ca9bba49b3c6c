------------------------------ MODULE MCFloor ------------------------------
(* Floor on small instances for TLC. A run takes up one part at a time:      *)
(* `scene`, chosen at the start, says which; the others stand still.         *)
EXTENDS Floor, TLC

CONSTANTS q1, q2, q3,   \* transactions
          b1, beer, stout, staffPhone, ownerPhone, barPhone,
          pint1, pint2, pint3, undo1, undo3, cash1, cash3   \* intents

VARIABLE scene

(* SharedBill: a page read while rounds of two variants are posted; and      *)
(* links made and revoked by two requests at once.                           *)
UnderWay == {q \in Requests : ~At(q, "free")}
Stands == ~link.revoked /\ link.expires = Null /\ \A q \in UnderWay : At(q, "create") => Open(q).expires = Null

(* LockOrder: three transactions of every kind, over two variants in both    *)
(* orders.                                                                   *)
BothOrders == {<<beer, stout>>, <<stout, beer>>}

(* TabScreen: two rounds on the staff's phone, a removal and a payment on    *)
(* the owner's, each tapped up to twice; and one phone with one of each that *)
(* turns away from the bill and back.                                        *)
OnPhone == pint1 :> staffPhone @@ pint2 :> staffPhone @@ undo1 :> ownerPhone @@ cash1 :> ownerPhone
           @@ pint3 :> barPhone @@ undo3 :> barPhone @@ cash3 :> barPhone

Looked(phones) == {d \in Devices : looks[d] > 0} \subseteq phones

Bounded(name) ==
    \/ name = "reading" /\ Cardinality(UnderWay) <= 1 /\ tokens <= 1 /\ clock <= 2 /\ Stands
    \/ name = "linking" /\ rounds = <<>>
    \/ name = "tapping" /\ Looked({staffPhone, ownerPhone}) /\ \A d \in Devices : looks[d] <= 1
    \/ name = "turning" /\ Looked({barPhone})

Is(name) == scene = name
OnlySharedBill == UNCHANGED <<scene, lockVars, screenVars>>
OnlyLockOrder == UNCHANGED <<scene, vars, screenVars>>
OnlyTabScreen == UNCHANGED <<scene, vars, lockVars>>
floorVars == <<scene, vars, lockVars, screenVars>>

FloorInit ==
        /\ scene \in {"reading", "linking", "locking", "tapping", "turning"}
        /\ Init
        /\ Locks!Init
        /\ Screen!Init

FloorNext ==
        \/ (Is("reading") \/ Is("linking")) /\ OnlySharedBill /\ Next /\ Bounded(scene)'
        \/ Is("locking") /\ Locks!Next /\ OnlyLockOrder
        \/ (Is("tapping") \/ Is("turning")) /\ OnlyTabScreen /\ Screen!Next /\ Bounded(scene)'

FloorSpec == FloorInit /\ [][FloorNext]_floorVars
Symmetry == Permutations(Requests) \union Permutations(Transactions) \union Permutations({pint1, pint2})

(* The properties checked are those of SharedBill and of Floor.              *)

(* Claims of comments and documents that the code does not keep. No run of the*)
(* project checks them; with its name added to Floor.cfg, TLC refutes each.  *)

(* LockOrder: transactions do not wait for each other in a circle. *)
NoCircle == Locks!NoCircle

(* TabScreen: an idle page shows what was done there, whatever it did before.*)
AlwaysShowsWhatItDid == Is("turning") => Screen!AlwaysShowsWhatItDid

(* TabScreen: what is tapped again after an error is recorded once. *)
RecordedOnce == Is("tapping") => Screen!RecordedOnce
=============================================================================

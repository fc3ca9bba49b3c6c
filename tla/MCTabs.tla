------------------------------ MODULE MCTabs ------------------------------
(***************************************************************************)
(* Small instances of Tabs for TLC.                                        *)
(***************************************************************************)
EXTENDS TabsRefinement, TLC

\* One bottle at the old or at the new price.
MCCarts == {[qty |-> [v \in Variants |-> 1], total |-> t] : t \in 1..2}

\* One bottle, at one price.
MCOneCart == {[qty |-> [v \in Variants |-> 1], total |-> 1]}

\* Row identifiers are interchangeable: no handler orders or compares them.
Symmetry == Permutations(Bills) \cup Permutations(Rounds)
            \cup Permutations(Payments) \cup Permutations(Requests)
=============================================================================

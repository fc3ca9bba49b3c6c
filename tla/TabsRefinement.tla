--------------------------- MODULE TabsRefinement ---------------------------
(***************************************************************************)
(* Tabs implements BillAccount: the row of the table bills, with its       *)
(* stored status and balance, is the account.                              *)
(***************************************************************************)
EXTENDS Tabs

accountOf ==
    [b \in Bills |-> IF bill[b] = None
                     THEN [status |-> "none", owed |-> 0]
                     ELSE [status |-> bill[b].status, owed |-> bill[b].balance]]

Account == INSTANCE BillAccount WITH account <- accountOf

\* Every call of the bill handlers is one step of an account, or none: in
\* particular no call changes two bills' standing at once, and no sequence of
\* calls takes an account anywhere BillAccount does not.
ImplementsAccount == Account!Spec
=============================================================================

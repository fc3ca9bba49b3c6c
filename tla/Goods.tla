------------------------------- MODULE Goods -------------------------------
(* What a bar buys, sells and spends: the stock ledger (Stock), what is sold  *)
(* at which price (Catalogue), and the expenses (Expenses). They share no     *)
(* table; this module names the parts and what is promised of each.           *)
EXTENDS Stock

CONSTANTS Requests,                                               \* of both parts below
          Names, Amounts, Releases, LastMoment, Skew, MaxRows,    \* Catalogue's
          Purposes, Queued, LastDay, MaxExpenses                  \* Expenses'

VARIABLES categories, products, variants, prices, templates, release, clock, call,
          purposes, expenses, day, request

Shop == INSTANCE Catalogue WITH request <- call
Spending == INSTANCE Expenses WITH Names <- Purposes, categories <- purposes

ASSUME ShopAssumption ==
    /\ Shop!NamesAssumption /\ Shop!AmountsAssumption
    /\ Shop!ReleasesAssumption /\ Shop!MomentsAssumption
ASSUME SpendingAssumption ==
    /\ Spending!KeysAssumption /\ Spending!QueuedAssumption
    /\ Spending!BoundsAssumption /\ Spending!NoneAssumption

catalogueVars == <<categories, products, variants, prices, templates, release, clock, call>>
expenseVars == <<purposes, expenses, day, request>>

(* Catalogue: a variant has one price at every moment from its first on, the *)
(* newest row is the current price, and a page read in three queries shows   *)
(* no variant without one.                                                   *)
PricesHold == /\ Shop!TypeOK
              /\ Shop!OnePriceAlways /\ Shop!NewestIsCurrent /\ Shop!ShownArePriced

(* Catalogue: templates are copied whole, as they were when chosen.          *)
CopiesAreWhole == [][Shop!CopiesAreWhole]_catalogueVars

(* Expenses: however often a queued expense is posted there is one row,      *)
(* report and summary tell the same of every range of days, and the total is *)
(* that of the expenses that still stand.                                    *)
ExpensesAddUp == /\ Spending!TypeOK
                 /\ Spending!PostedOnce /\ Spending!FiguresAgree /\ Spending!TotalStands
=============================================================================

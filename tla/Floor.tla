------------------------------- MODULE Floor -------------------------------
(* What happens to bills while several devices are at them: the shared page   *)
(* (SharedBill), beside it the row locks of the transactions (LockOrder) and  *)
(* the tabs page of the devices (TabScreen). Each part keeps its own state;   *)
(* this module names the parts and what is promised of each.                  *)
EXTENDS SharedBill

CONSTANTS Transactions, OpenBills, Carts,   \* LockOrder's
          Devices, Rounds, Removals, Payments, Whose, Opening, MaxTaps, MaxLooks,   \* TabScreen's
          None

VARIABLES task, held, queue,
          recorded, posts, reads, looking, shown, busy, taps, looks, done

Locks == INSTANCE LockOrder WITH Requests <- Transactions, Bills <- OpenBills
Screen == INSTANCE TabScreen

ASSUME CartsAssumption == IsFiniteSet(Variants) /\ \A cart \in Carts : cart \in Seq(Variants)
ASSUME IntentsAssumption ==
    /\ IsFiniteSet(Rounds) /\ IsFiniteSet(Removals) /\ IsFiniteSet(Payments)
    /\ Rounds \cap Removals = {} /\ Rounds \cap Payments = {} /\ Removals \cap Payments = {}
    /\ Whose \in [Screen!Intents -> Devices] /\ None \notin Screen!Intents
ASSUME OpeningAssumption == Opening \in Nat
ASSUME UnservedAssumption == None \notin BOOLEAN

lockVars == <<task, held, queue>>
screenVars == <<recorded, posts, reads, looking, shown, busy, taps, looks, done>>

(* However transactions overlap, it takes one that goes against the others'   *)
(* order of variants to make a circle: the bills, balances and lots that      *)
(* AddSaleRound, RemoveBillItem, RecordPayment, ReverseSale, ReceiveStock and *)
(* ReverseStockReceipt lock make none by themselves.                          *)
CirclesAreOutOfOrder == Locks!CirclesAreOutOfOrder

(* What the page took without an error is on the bill, and whatever is tapped *)
(* again or arrives late, the bar owes nobody: AddSaleRound, RemoveBillItem   *)
(* and RecordPayment against the handlers of Tabs.tsx.                        *)
TapsAddUp == Screen!DoneIsRecorded /\ Screen!NothingOwedBack

(* An idle page that stayed with the bill shows what was done there:          *)
(* refreshBillDetail is awaited under `busy`.                                 *)
ShowsWhatItDid == Screen!ShowsWhatItDid
=============================================================================

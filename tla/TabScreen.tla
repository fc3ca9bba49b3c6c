----------------------------- MODULE TabScreen -----------------------------
(* The tabs page of the devices at one open bill (web/src/pages/Tabs.tsx),    *)
(* over a connection that may break at any moment. Every tap posts at once:   *)
(* a round of one drink, its removal, or a payment of what one drink costs.   *)
(* A handler holds `busy` until its post and the reload of the bill behind it *)
(* are over. fetch throws the same error for a request that never left and    *)
(* for one whose answer was lost, and nothing keeps the key of a tap: the     *)
(* next tap draws a new one, and a payment has none. What somebody set out to *)
(* record is an intent; it is tapped again until the page reports no error.   *)
EXTENDS Integers, Sums

CONSTANTS Devices,
          Rounds, Removals, Payments,   \* the intents, by what they record
          Whose,      \* intent -> the device it is tapped on
          Opening,    \* drinks on the bill before, unpaid
          MaxTaps,    \* bound: taps of a device
          MaxLooks,   \* bound: times a device turns to the bill
          None

Intents == Rounds \union Removals \union Payments

VARIABLES recorded,   \* intent -> how many times it is in the bill's rounds or payments
          posts,      \* posts on their way: device, tap, intent, and whether the service kept it
          reads,      \* loads of the bill on their way: the page's effect, or a handler's reload
          looking,    \* device -> activeBillId is this bill
          shown,      \* device -> billDetails: {} or the bill it last loaded
          busy,       \* device -> the intent its handler is at
          taps, looks,
          done        \* intents whose handler ended without an error

server == <<recorded, posts>>
page == <<looking, shown, busy>>
counts == <<taps, looks>>
vars == <<recorded, posts, reads, looking, shown, busy, taps, looks, done>>

(* Of the bill only what the page's guards read: every drink costs one, and   *)
(* rounds, removals and payments are counted. The full bill is in Tabs.       *)
Times(kind, bill) == SumOver(bill, kind)
Quantity(bill) == Opening + Times(Rounds, bill) - Times(Removals, bill)
Balance(bill) == Quantity(bill) - Times(Payments, bill)

Init == /\ recorded = [i \in Intents |-> 0]
        /\ posts = {} /\ reads = {}
        /\ looking = [d \in Devices |-> FALSE]
        /\ shown = [d \in Devices |-> {}]
        /\ busy = [d \in Devices |-> None]
        /\ taps = [d \in Devices |-> 0] /\ looks = [d \in Devices |-> 0]
        /\ done = {}

(* The page turns to the bill, and its effect loads it; turning away cancels  *)
(* that load, never a handler's.                                              *)
Look(d) == /\ ~looking[d] /\ looks[d] < MaxLooks
           /\ looking' = [looking EXCEPT ![d] = TRUE]
           /\ looks' = [looks EXCEPT ![d] = @ + 1]
           /\ reads' = reads \union {[by |-> d, tap |-> 0, saw |-> {}]}
           /\ UNCHANGED <<server, shown, busy, taps, done>>

New(d) == /\ looking[d]
          /\ looking' = [looking EXCEPT ![d] = FALSE]
          /\ reads' = {r \in reads : ~(r.by = d /\ r.tap = 0)}
          /\ UNCHANGED <<server, shown, busy, counts, done>>

Offers(bill, i) == /\ i \in Removals => Quantity(bill) > 0
                   /\ i \in Payments => Balance(bill) > 0

(* handleAdjustQuantity, handleRecordPayment. *)
Tap(d, i) == /\ looking[d] /\ busy[d] = None /\ taps[d] < MaxTaps
             /\ Whose[i] = d /\ i \notin done
             /\ \E bill \in shown[d] : Offers(bill, i)
             /\ busy' = [busy EXCEPT ![d] = i]
             /\ taps' = [taps EXCEPT ![d] = @ + 1]
             /\ posts' = posts \union {[by |-> d, tap |-> taps'[d], intent |-> i, kept |-> None]}
             /\ UNCHANGED <<recorded, reads, looking, shown, looks, done>>

(* AddSaleRound, RemoveBillItem, RecordPayment on an open bill. *)
Accepts(i) == /\ i \in Removals => Quantity(recorded) > 0
              /\ i \notin Rounds => Balance(recorded) > 0

Serve(p) == /\ p.kept = None
            /\ posts' = (posts \ {p}) \union {[p EXCEPT !.kept = Accepts(p.intent)]}
            /\ recorded' = IF Accepts(p.intent) THEN [recorded EXCEPT ![p.intent] = @ + 1]
                           ELSE recorded
            /\ UNCHANGED <<reads, page, counts, done>>

Awaits(d, p) == p.by = d /\ p.tap = taps[d] /\ busy[d] = p.intent
Reload(d) == [by |-> d, tap |-> taps[d], saw |-> {}]
Ended(d) == busy' = [busy EXCEPT ![d] = None]

(* A slip: the reload is not awaited. *)
AnsweredAtOnce(p) == /\ p.kept = TRUE /\ Awaits(p.by, p)
                     /\ posts' = posts \ {p}
                     /\ reads' = reads \union {Reload(p.by)}
                     /\ Ended(p.by) /\ done' = done \union {p.intent}
                     /\ UNCHANGED <<recorded, looking, shown, counts>>

Answered(p) == /\ p.kept = TRUE /\ Awaits(p.by, p)
               /\ posts' = posts \ {p}
               /\ reads' = reads \union {Reload(p.by)}
               /\ UNCHANGED <<recorded, page, counts, done>>

Refused(p) == /\ p.kept = FALSE /\ Awaits(p.by, p)
              /\ posts' = posts \ {p}
              /\ Ended(p.by)
              /\ UNCHANGED <<recorded, reads, looking, shown, counts, done>>

(* A slip: an error of the connection is not one of the post. *)
BreaksUnnoticed(p) == /\ Awaits(p.by, p)
                      /\ posts' = posts \ (IF p.kept = None THEN {} ELSE {p})
                      /\ Ended(p.by) /\ done' = done \union {p.intent}
                      /\ UNCHANGED <<recorded, reads, looking, shown, counts>>

(* OfflineError: the post may still be on its way to the service. *)
Breaks(p) == /\ Awaits(p.by, p)
             /\ posts' = posts \ (IF p.kept = None THEN {} ELSE {p})
             /\ Ended(p.by)
             /\ UNCHANGED <<recorded, reads, looking, shown, counts, done>>

(* The service is never heard of again, or answers nobody. *)
Forgotten(p) == /\ ~Awaits(p.by, p)
                /\ posts' = posts \ {p}
                /\ UNCHANGED <<recorded, reads, page, counts, done>>

(* getBillDetail *)
ServeRead(r) == /\ r.saw = {}
                /\ reads' = (reads \ {r}) \union {[r EXCEPT !.saw = {recorded}]}
                /\ UNCHANGED <<server, page, counts, done>>

Loaded(r) == /\ r.saw # {}
             /\ reads' = reads \ {r}
             /\ shown' = [shown EXCEPT ![r.by] = r.saw]
             /\ IF r.tap = 0 THEN UNCHANGED <<busy, done>>
                ELSE Ended(r.by) /\ done' = done \union ({busy[r.by]} \ {None})
             /\ UNCHANGED <<server, looking, counts>>

(* The round or the payment is in, and the page says that it is not. *)
ReadBreaks(r) == /\ reads' = reads \ {r}
                 /\ IF r.tap = 0 THEN UNCHANGED busy ELSE Ended(r.by)
                 /\ UNCHANGED <<server, looking, shown, counts, done>>

Next == \/ \E d \in Devices : Look(d) \/ New(d) \/ \E i \in Intents : Tap(d, i)
        \/ \E p \in posts : Serve(p) \/ Answered(p) \/ Refused(p) \/ Breaks(p) \/ Forgotten(p)
        \/ \E r \in reads : ServeRead(r) \/ Loaded(r) \/ ReadBreaks(r)

Spec == Init /\ [][Next]_vars

(* Properties *)

(* What the page took without an error is on the bill: the handlers await the *)
(* post, and every failure of it reaches their catch.                         *)
DoneIsRecorded == \A i \in done : recorded[i] > 0

(* However often taps are repeated, and however late a post arrives, no       *)
(* drink is taken off that is not there, and no more is paid or taken off     *)
(* than is owed: AddSaleRound, RemoveBillItem and RecordPayment look at the   *)
(* bill they have locked, not at what the page showed.                        *)
NothingOwedBack == Quantity(recorded) >= 0 /\ Balance(recorded) >= 0

(* The current order of an idle page that has stayed with the bill has in it  *)
(* what was done there: refreshBillDetail is awaited under `busy`.            *)
ShowsWhatItDid == \A i \in done : LET d == Whose[i] IN
                    looks[d] = 1 /\ busy[d] = None => \A bill \in shown[d] : bill[i] > 0

(* "always 'what's actually on the tab right now'": whether or not the page   *)
(* turned away and back, the load of an effect does not undo a later one.     *)
AlwaysShowsWhatItDid == \A i \in done : LET d == Whose[i] IN
                    busy[d] = None => \A bill \in shown[d] : bill[i] > 0

(* What somebody sets out to record once, and taps again after an error, is   *)
(* recorded once: AddSaleRound's key, and the first invariant of the          *)
(* architecture.                                                              *)
RecordedOnce == \A i \in Intents : recorded[i] <= 1
=============================================================================

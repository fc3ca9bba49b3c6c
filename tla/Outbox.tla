------------------------------- MODULE Outbox -------------------------------
(* The sales a device has recorded and not yet posted (web/src/lib/           *)
(* salesSync.ts over IndexedDB), the flushes that post them, and the service  *)
(* that looks a sale's idempotency key up before it inserts the sale. Nothing *)
(* keeps two flushes apart: the page's effect starts one whenever it mounts,  *)
(* goes online or gets another CSRF token, and every completed sale starts    *)
(* one. An answer may be lost, the tab may close, and a request nobody waits  *)
(* for any more may still be carried out. Sales are numbered in the order in  *)
(* which they were recorded; flushes go by createdAt, so this takes for       *)
(* granted that nobody sets the device's clock back between two of them. The  *)
(* queues of expenses, counts and adjustment requests are copies of this one. *)
EXTENDS Naturals, Sequences, FiniteSets

CONSTANTS MaxSales,   \* bound: sales the device records
          Flushes,    \* bound: flushes at a time
          Requests,   \* bound: requests on their way at a time
          Refused,    \* sales the server will not take (a variant that is gone)
          None

ASSUME MaxSalesAssumption == MaxSales \in Nat
ASSUME NoneAssumption == None \notin Flushes

VARIABLES recorded,   \* sales completed on the device
          pending,    \* db.pendingSales: the sales still queued
          flush,      \* flush -> the part of its snapshot that is not posted yet
          request,    \* request -> the sale it posts, who waits for it and where it is
          sales       \* the sales rows of the business, in the order they were committed

device == <<recorded, pending, flush>>
vars == <<recorded, pending, flush, request, sales>>

Sales == 1..MaxSales
Free == [at |-> "free"]

Waits(f, q) == request[q].at # "free" /\ request[q].by = f
Busy(f) == \E q \in Requests : Waits(f, q)
Answered(q, at) == request' = [request EXCEPT ![q].at = at]
Posted(k) == \E i \in DOMAIN sales : sales[i] = k

Init == /\ recorded = 0
        /\ pending = {}
        /\ flush = [f \in Flushes |-> {}]
        /\ request = [q \in Requests |-> Free]
        /\ sales = <<>>

(* The device *)

(* The sale is in IndexedDB before anything is sent. *)
completeSale == /\ recorded < MaxSales
                /\ recorded' = recorded + 1
                /\ pending' = pending \union {recorded + 1}
                /\ UNCHANGED <<flush, request, sales>>

StartFlush(f) == /\ flush[f] = {} /\ ~Busy(f)
                 /\ pending # {}
                 /\ flush' = [flush EXCEPT ![f] = pending]
                 /\ UNCHANGED <<recorded, pending, request, sales>>

IsOldest(k, S) == k \in S /\ \A j \in S : k <= j

(* The loop of flushPendingSales awaits one post at a time. *)
Post(f, q) == /\ ~Busy(f) /\ request[q] = Free
              /\ \E k \in flush[f] :
                    /\ IsOldest(k, flush[f])
                    /\ request' = [request EXCEPT ![q] = [at |-> "sent", sale |-> k, by |-> f]]
                    /\ flush' = [flush EXCEPT ![f] = @ \ {k}]
              /\ UNCHANGED <<recorded, pending, sales>>

(* Any answer of 2xx takes the sale off the queue. *)
Synced(f, q) == /\ Waits(f, q) /\ request[q].at = "created"
                /\ pending' = pending \ {request[q].sale}
                /\ request' = [request EXCEPT ![q] = Free]
                /\ UNCHANGED <<recorded, flush, sales>>

(* A slip: the flush goes on with the next sale. *)
GoOn(f) == UNCHANGED flush

(* catch { return }: the rest of the snapshot waits for another flush. *)
GiveUp(f) == flush' = [flush EXCEPT ![f] = {}]

(* A slip: a refused sale is taken off the queue. *)
FailedAndDropped(f, q) == /\ Waits(f, q) /\ request[q].at = "failed"
                          /\ pending' = pending \ {request[q].sale}
                          /\ request' = [request EXCEPT ![q] = Free]
                          /\ UNCHANGED <<recorded, flush, sales>>

Failed(f, q) == /\ Waits(f, q) /\ request[q].at = "failed"
                /\ GiveUp(f)
                /\ request' = [request EXCEPT ![q] = Free]
                /\ UNCHANGED <<recorded, pending, sales>>

(* The connection breaks: fetch fails, whatever becomes of the request. *)
Lose(f, q) == /\ Waits(f, q)
              /\ GiveUp(f)
              /\ request' = [request EXCEPT ![q].by = None]
              /\ UNCHANGED <<recorded, pending, sales>>

(* The tab closes with all its flushes; IndexedDB stays. *)
Close == /\ flush' = [f \in Flushes |-> {}]
         /\ request' = [q \in Requests |->
                           IF request[q].at = "free" THEN Free ELSE [request[q] EXCEPT !.by = None]]
         /\ UNCHANGED <<recorded, pending, sales>>

(* Nobody waits for this request: it never arrived, or its answer went nowhere. *)
Vanish(q) == /\ request[q].at \in {"sent", "created", "failed"} /\ request[q].by = None
             /\ request' = [request EXCEPT ![q] = Free]
             /\ UNCHANGED <<device, sales>>

(* The server *)

(* 401, 403 or 5xx, now and then; 400 for a sale it will never take. *)
salesErrorResponse(q) == /\ request[q].at = "sent"
                         /\ Answered(q, "failed")
                         /\ UNCHANGED <<device, sales>>

(* A slip: the key is not looked up, and only the unique index stops a replay. *)
NoLookup(k) == FALSE

GetSaleByIdempotencyKey(k) == Posted(k)

(* CreateSale looks the key up: a sale already posted is answered as it is. *)
createSale(q) == /\ request[q].at = "sent"
                 /\ request[q].sale \notin Refused
                 /\ Answered(q, IF GetSaleByIdempotencyKey(request[q].sale) THEN "created" ELSE "absent")
                 /\ UNCHANGED <<device, sales>>

(* UNIQUE (business_id, idempotency_key): the later of two equal inserts fails. *)
CreateSaleRow(k) == IF Posted(k) THEN UNCHANGED sales ELSE sales' = Append(sales, k)

CreateSale(q) == /\ request[q].at = "absent"
                 /\ CreateSaleRow(request[q].sale)
                 /\ Answered(q, IF Posted(request[q].sale) THEN "failed" ELSE "created")
                 /\ UNCHANGED device

FlushStep(f, q) == Post(f, q) \/ Synced(f, q) \/ Failed(f, q) \/ Lose(f, q)
Serve(q) == createSale(q) \/ CreateSale(q)
Answer(q) == Serve(q) \/ salesErrorResponse(q) \/ Vanish(q)
ServeAwaited(q) == request[q].at = "sent" /\ request[q].by # None /\ createSale(q)

Next == \/ completeSale
        \/ \E f \in Flushes : StartFlush(f)
        \/ \E f \in Flushes, q \in Requests : FlushStep(f, q)
        \/ Close
        \/ \E q \in Requests : Answer(q)

(* The app is opened and online again and again, and a request that is made  *)
(* again and again gets through some time, and some time its answer does.    *)
Fairness == /\ \A f \in Flushes : WF_vars(StartFlush(f))
            /\ \A f \in Flushes : SF_vars(\E q \in Requests : Post(f, q))
            /\ \A f \in Flushes : SF_vars(\E q \in Requests : Synced(f, q))
            /\ \A f \in Flushes : WF_vars(\E q \in Requests : Failed(f, q))
            /\ \A q \in Requests : WF_vars(Answer(q))
            /\ SF_vars(\E q \in Requests : ServeAwaited(q))

Spec == Init /\ [][Next]_vars
FairSpec == Spec /\ Fairness

(* Properties *)

(* Every variable keeps its type: queues, snapshots and requests hold        *)
(* recorded sales.                                                           *)
TypeOK == /\ recorded \in 0..MaxSales
          /\ pending \subseteq 1..recorded
          /\ flush \in [Flushes -> SUBSET (1..recorded)]
          /\ request \in [Requests -> {Free} \union
                 [at : {"sent", "absent", "created", "failed"}, sale : 1..recorded, by : Flushes \union {None}]]
          /\ sales \in Seq(1..recorded)

(* However flushes overlap, answers are lost and tabs close, the server has  *)
(* the first so many of the recorded sales, each once and in their order:    *)
(* no sale twice, none skipped, none before an older one.                    *)
InOrder == \A i \in DOMAIN sales : sales[i] = i

(* A sale leaves the queue only once the server has it.                      *)
NothingLost == \A k \in 1..recorded : k \in pending \/ Posted(k)

(* A sale that has left the queue is not sent again ("removed from the       *)
(* queue, never re-sent").                                                   *)
NeverResent == [][\A q \in Requests : request[q] = Free /\ request'[q] # Free => request'[q].sale \in pending]_vars

(* The queue and the service keep the promise of Delivery.                   *)
delivery == INSTANCE Delivery WITH delivered <- sales
Delivers == delivery!Spec

(* The queue empties: what was recorded is on the server and off the device. *)
Drains == \A k \in Sales : (k \in pending) ~> (k \notin pending /\ Posted(k))

(* "The next flush picks up where this one left off": a sale that the server *)
(* would take gets there.                                                    *)
PickedUp == \A k \in Sales \ Refused : (k \in pending) ~> Posted(k)
=============================================================================

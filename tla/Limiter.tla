------------------------------ MODULE Limiter ------------------------------
(***************************************************************************)
(* The rate limiter in front of the public endpoints                       *)
(* (internal/auth/ratelimit.go): a count per key and fixed window, and a   *)
(* sweep of old windows when there are many keys.  It lives in memory, so  *)
(* a restart forgets it.  Definitions marked as slips are mistakes that a  *)
(* property must catch; the specification uses none.                       *)
(***************************************************************************)
EXTENDS Integers, FiniteSets, Sums

CONSTANTS
    Callers,         \* the keys: an address, an e-mail, a business
    limit, window,
    evictThreshold,  \* 10,000 in the code
    MaxTime,         \* bound: how long the clock runs
    MaxCount,        \* bound: how often a caller is counted in one window
    None

LimitsAssumption ==
    /\ limit \in Nat \ {0} /\ window \in Nat \ {0} /\ evictThreshold \in Nat
    /\ MaxTime \in Nat /\ MaxCount \in Nat

VARIABLES
    now,
    visitors,  \* the limiter's map
    allowed    \* history: how many calls were allowed, per caller and time

vars == <<now, visitors, allowed>>

visitor == [count: 0..MaxCount, windowEnd: 0..MaxTime + window]

TypeOK ==
    /\ now \in 0..MaxTime
    /\ visitors \in [Callers -> visitor \cup {None}]
    /\ allowed \in [Callers -> [0..MaxTime -> Nat]]

NewLimiter == visitors = [c \in Callers |-> None]

Init ==
    /\ now = 0
    /\ NewLimiter
    /\ allowed = [c \in Callers |-> [t \in 0..MaxTime |-> 0]]

-----------------------------------------------------------------------------

Expired(v) == v # None /\ now > v.windowEnd

\* A slip: the sweep makes room whether a window is over or not.
evictAll(vs) == [c \in Callers |-> None]

evictExpiredLocked(vs) == [c \in Callers |-> IF Expired(vs[c]) THEN None ELSE vs[c]]

Size(vs) == Cardinality({c \in Callers : vs[c] # None})

Count(c) ==
    IF visitors[c] = None \/ Expired(visitors[c]) THEN [count |-> 1, windowEnd |-> now + window]
    ELSE [visitors[c] EXCEPT !.count = @ + 1]

\* A call is counted whether it is allowed or not.
Allow(c) ==
    LET v == Count(c)
        vs == [visitors EXCEPT ![c] = v]
    IN /\ v.count <= MaxCount
       /\ visitors' = IF Size(vs) > evictThreshold THEN evictExpiredLocked(vs) ELSE vs
       /\ allowed' = IF v.count <= limit THEN [allowed EXCEPT ![c][now] = @ + 1] ELSE allowed
       /\ UNCHANGED now

Tick == now < MaxTime /\ now' = now + 1 /\ UNCHANGED <<visitors, allowed>>

Next == Tick \/ \E c \in Callers : Allow(c)

\* Time goes by.
Fairness == WF_vars(Tick)

Spec == Init /\ [][Next]_vars /\ Fairness

-----------------------------------------------------------------------------

\* However calls and windows fall, and whichever keys are swept, no stretch of
\* time as long as a window lets more than twice the limit through.
TwiceTheLimitAtMost ==
    \A c \in Callers, t \in 0..MaxTime :
        SumOver(allowed[c], {u \in t..(t + window) : u <= MaxTime}) <= 2 * limit

\* A caller who is refused is let in again: no call prolongs the window.
RefusedIsLetInAgain ==
    \A c \in Callers, t \in 0..(MaxTime - window - 1) :
        now = t ~> visitors[c] = None \/ visitors[c].count < limit \/ now > visitors[c].windowEnd
=============================================================================

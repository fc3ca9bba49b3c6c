------------------------------ MODULE Progress ------------------------------
(* What a phone waits for: its queued sales to be posted (Outbox), and, beside*)
(* it, the rate limiter of the service to let its calls through (Limiter).    *)
(* Each part keeps its own state; this module names the parts and what is     *)
(* promised of each.                                                          *)
EXTENDS Outbox

CONSTANTS Callers, limit, window, evictThreshold, MaxTime, MaxCount   \* Limiter's

VARIABLES now, visitors, allowed

Rate == INSTANCE Limiter

ASSUME LimitsAssumption == Rate!LimitsAssumption
ASSUME UnseenAssumption == None \notin [count: Nat, windowEnd: Nat]

limiterVars == <<now, visitors, allowed>>

(* However calls and windows fall, and whichever keys are swept, no stretch of*)
(* time as long as a window lets more than twice the limit through (Allow).   *)
TwiceTheLimitAtMost == Rate!TypeOK /\ Rate!TwiceTheLimitAtMost
=============================================================================

----------------------------- MODULE MCProgress -----------------------------
(* What must happen in the end, on small instances for TLC: Outbox and what   *)
(* it implements, Limiter, LockOrder and GoogleKeys, each under its fairness. *)
(* Like MCGoods, a run takes up one instance at a time: `scene`, chosen at    *)
(* the start, says which; the others stand still.                             *)
EXTENDS Progress, TLC

CONSTANTS f1, f2, q1, q2,   \* flushes and requests
          b1, beer, stout, old, new, caller, other

VARIABLES scene,
          task, held, queue,
          published, rotations, keys, fresh, signIn

TwoFlushes == {f1, f2}
TwoRequests == {q1, q2}
NoneRefused == {}

(* Carts of two variants in both orders, so that circles do form.             *)
selling == INSTANCE LockOrder WITH Requests <- {q1, q2}, Bills <- {b1}, Variants <- {beer, stout},
    Carts <- {<<beer, stout>>, <<stout, beer>>}
(* Two people sign in while Google changes its keys.                          *)
rotating == INSTANCE GoogleKeys WITH request <- signIn, Keys <- {old, new}, Requests <- {q1, q2}, MaxRotations <- 1

ASSUME InstanceAssumptions == rotating!RotationsAssumption

lockVars == <<task, held, queue>>
keyVars == <<published, rotations, keys, fresh, signIn>>
allVars == <<scene, vars, lockVars, keyVars, limiterVars>>

Is(name) == scene = name

AnyInit == /\ scene \in {"posting", "selling", "rotating", "calling"}
           /\ Init
           /\ selling!Init
           /\ rotating!Init /\ (Is("rotating") \/ published = {})
           /\ Rate!Init

AnyNext == \/ Is("posting") /\ Next /\ UNCHANGED <<scene, lockVars, keyVars, limiterVars>>
           \/ Is("selling") /\ selling!Next /\ UNCHANGED <<scene, vars, keyVars, limiterVars>>
           \/ Is("rotating") /\ rotating!Next /\ UNCHANGED <<scene, vars, lockVars, limiterVars>>
           \/ Is("calling") /\ Rate!Next /\ UNCHANGED <<scene, vars, lockVars, keyVars>>

AnyFairness == \/ [](Is("posting")) /\ Fairness
               \/ [](Is("selling")) /\ selling!Fairness
               \/ [](Is("rotating")) /\ rotating!Fairness
               \/ [](Is("calling")) /\ Rate!Fairness

AnySpec == AnyInit /\ [][AnyNext]_allVars /\ AnyFairness

(* Properties: InOrder, NothingLost, Delivers and Drains are those of Outbox, *)
(* TwiceTheLimitAtMost is that of Progress.                                   *)

(* LockOrder and Limiter: a sale is posted in the end so long as all go in    *)
(* one order of variants, and a caller who is refused is let in again.        *)
NobodyStarves == /\ Is("selling") => selling!SalesInOrderArePosted
                 /\ Is("calling") => Rate!RefusedIsLetInAgain

(* GoogleKeys: a key published for good is accepted again and again, and one  *)
(* withdrawn for good is one day no longer accepted.                          *)
KeysFollowed == Is("rotating") => rotating!NewKeyAccepted /\ rotating!WithdrawnKeyRefused

(* A claim of the design that the code does not keep. No run of the project   *)
(* checks it; with its name added to Progress.cfg, TLC refutes it: with carts *)
(* in both orders a sale may lose against other transactions for ever.        *)
SalesArePosted == Is("selling") => selling!SalesArePosted
=============================================================================

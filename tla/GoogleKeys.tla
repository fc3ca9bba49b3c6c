----------------------------- MODULE GoogleKeys -----------------------------
(***************************************************************************)
(* The signing keys a Google sign-in is verified with                      *)
(* (internal/oauth/google_verifier.go): a cache that sign-ins share, and   *)
(* refill from Google's key set when the key they need is missing or the   *)
(* cache is old.  The lock is held for each read and each write of the     *)
(* cache and not while the keys are fetched, so an older answer may be     *)
(* stored after a newer one.                                               *)
(*                                                                         *)
(* A token is the key that signed it; its signature, issuer, audience and  *)
(* expiry are taken to be in order.                                        *)
(***************************************************************************)
EXTENDS Naturals

CONSTANTS
    Keys,
    Requests,      \* sign-ins being verified
    MaxRotations,  \* bound: how often Google changes its key set
    None

RotationsAssumption == MaxRotations \in Nat

VARIABLES
    published,  \* Google's key set
    rotations,
    keys,       \* the cache
    fresh,      \* whether it is younger than jwksCacheTTL
    request     \* what each sign-in has come to

vars == <<published, rotations, keys, fresh, request>>

Progress == [at: {"fetching", "accepted", "refused"}, key: Keys]
            \cup [at: {"storing"}, key: Keys, got: SUBSET Keys]
            \cup [at: {"looking"}, key: Keys]

TypeOK ==
    /\ published \subseteq Keys
    /\ rotations \in 0..MaxRotations
    /\ keys \subseteq Keys
    /\ fresh \in BOOLEAN
    /\ request \in [Requests -> Progress \cup {None}]

NewGoogleVerifier == keys = {} /\ fresh = FALSE

Init ==
    /\ published \in SUBSET Keys
    /\ rotations = 0
    /\ NewGoogleVerifier
    /\ request = [q \in Requests |-> None]

At(q, step) == request[q] # None /\ request[q].at = step
Proceed(q, progress) == request' = [request EXCEPT ![q] = progress]

-----------------------------------------------------------------------------

\* A slip: a fresh cache is believed whatever it holds.
MustRefreshOnlyStale(k) == ~fresh

MustRefresh(k) == k \notin keys \/ ~fresh

Answered(k) == [at |-> IF k \in keys THEN "accepted" ELSE "refused", key |-> k]

\* A key that a fresh cache holds is returned at once.
publicKey(q, k) ==
    /\ request[q] = None
    /\ Proceed(q, IF MustRefresh(k) THEN [at |-> "fetching", key |-> k] ELSE Answered(k))
    /\ UNCHANGED <<published, rotations, keys, fresh>>

\* Google's answer is on its way; the cache still holds what it held.
refreshKeys(q) ==
    /\ At(q, "fetching")
    /\ Proceed(q, [at |-> "storing", key |-> request[q].key, got |-> published])
    /\ UNCHANGED <<published, rotations, keys, fresh>>

FetchFails(q) ==
    /\ At(q, "fetching")
    /\ Proceed(q, [at |-> "refused", key |-> request[q].key])
    /\ UNCHANGED <<published, rotations, keys, fresh>>

Store(got) == keys' = got

StoreKeys(q) ==
    /\ At(q, "storing")
    /\ Store(request[q].got) /\ fresh' = TRUE
    /\ Proceed(q, [at |-> "looking", key |-> request[q].key])
    /\ UNCHANGED <<published, rotations>>

\* The cache is read again, with whatever was stored last.
Verify(q) ==
    /\ At(q, "looking")
    /\ Proceed(q, Answered(request[q].key))
    /\ UNCHANGED <<published, rotations, keys, fresh>>

\* Answered; the person may sign in again.
Answer(q) ==
    /\ At(q, "accepted") \/ At(q, "refused")
    /\ Proceed(q, None)
    /\ UNCHANGED <<published, rotations, keys, fresh>>

\* jwksCacheTTL goes by.
GoStale ==
    /\ fresh /\ fresh' = FALSE
    /\ UNCHANGED <<published, rotations, keys, request>>

Rotate ==
    /\ rotations < MaxRotations /\ rotations' = rotations + 1
    /\ published' \in SUBSET Keys
    /\ UNCHANGED <<keys, fresh, request>>

Next ==
    \/ \E q \in Requests, k \in Keys : publicKey(q, k)
    \/ \E q \in Requests : refreshKeys(q) \/ FetchFails(q) \/ StoreKeys(q) \/ Verify(q) \/ Answer(q)
    \/ GoStale \/ Rotate

\* The server goes on with every request; people sign in with every key again
\* and again, and Google's key set can be fetched again and again.
Fairness ==
    /\ \A q \in Requests : WF_vars(StoreKeys(q)) /\ WF_vars(Verify(q)) /\ WF_vars(Answer(q))
    /\ \A q \in Requests : WF_vars(refreshKeys(q) \/ FetchFails(q))
    /\ \A k \in Keys : SF_vars(\E q \in Requests : publicKey(q, k))
    /\ \A k \in Keys : SF_vars(\E q \in Requests : refreshKeys(q) /\ request[q].key = k)

Spec == Init /\ [][Next]_vars /\ Fairness

-----------------------------------------------------------------------------

\* A key that Google has published for good is accepted again and again,
\* although the cache is fresh when the key is new, fetches fail, and an older
\* key set may be stored after a newer one.
NewKeyAccepted ==
    \A k \in Keys :
        <>[](k \in published) => []<>(\E q \in Requests : At(q, "accepted") /\ request[q].key = k)

\* A key that Google has withdrawn for good is one day no longer accepted, once
\* the cache has gone stale for the last time it held it.
WithdrawnKeyRefused ==
    \A k \in Keys :
        <>[](k \notin published) /\ []<>~fresh
            => <>[](\A q \in Requests : At(q, "accepted") => request[q].key # k)
=============================================================================

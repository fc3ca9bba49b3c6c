------------------------------- MODULE SignUp -------------------------------
(***************************************************************************)
(* How an account comes to exist: signing up with a one-time code          *)
(* (internal/signup) and signing in with Google (internal/oauth), with     *)
(* their handlers.  Module Accounts takes over from there.                 *)
(*                                                                         *)
(* Each account made here has one identifier, so an account is named by    *)
(* it.  Every statement is a transaction of its own; a request is a chain  *)
(* of them and may be cut off after any.  Definitions marked as slips are  *)
(* mistakes that a property must catch; the specification uses none.       *)
(***************************************************************************)
EXTENDS Integers, Sequences, FiniteSets

CONSTANTS
    Emails, Phones, Passwords,
    Google,      \* Google accounts; the address of each is GoogleEmail
    GoogleEmail,
    Requests,    \* HTTP requests being served
    MaxCodes,    \* bound: how many codes are generated
    MaxStops,    \* bound: how many requests are cut off
    None

Identifiers == Emails \cup Phones

GoogleAssumption == GoogleEmail \in [Google -> Emails]
BoundsAssumption == MaxCodes \in Nat /\ MaxStops \in Nat

VARIABLES
    account,  \* users: by identifier, what the password was given with
    pending,  \* signup_verifications, by identifier
    codes,    \* history: the codes generated, and whether each one arrived
    link,     \* user_identities: the account of each Google account
    session,  \* the accounts a session was created for
    request,  \* what each request has established so far
    stops

vars == <<account, pending, codes, link, session, request, stops>>

maxOTPAttempts == 5

\* Code 0 and no password for an account made by a Google sign-in.
UserRow == [password: Passwords \cup {None}, code: 0..MaxCodes]

\* "wrong" is history: the wrong codes compared with the current one.
PendingRow == [id: 1..MaxCodes, code: 1..MaxCodes, password: Passwords,
               attempts: Nat, wrong: Nat, expired: BOOLEAN]

Context ==
    [at: {"storing", "counting", "creating", "signing", "cleaning",
          "resolving", "making", "linking"},
     identifier: Identifiers, password: Passwords \cup {None},
     id: 0..MaxCodes, code: 0..MaxCodes, google: Google \cup {None}]

\* NULL is no row, and no request.
NoneAssumption == None \notin UserRow /\ None \notin PendingRow /\ None \notin Context

TypeOK ==
    /\ account \in [Identifiers -> UserRow \cup {None}]
    /\ pending \in [Identifiers -> PendingRow \cup {None}]
    /\ codes \in Seq([identifier: Identifiers, password: Passwords, arrived: BOOLEAN])
    /\ Len(codes) <= MaxCodes
    /\ link \in [Google -> Emails \cup {None}]
    /\ session \subseteq Identifiers
    /\ request \in [Requests -> Context \cup {None}]
    /\ stops \in 0..MaxStops

Init ==
    /\ account = [x \in Identifiers |-> None]
    /\ pending = [x \in Identifiers |-> None]
    /\ codes = <<>>
    /\ link = [g \in Google |-> None]
    /\ session = {}
    /\ request = [q \in Requests |-> None]
    /\ stops = 0

-----------------------------------------------------------------------------
(* A request's progress.                                                   *)

rows == <<account, pending, codes, link, session>>

For(x) == [at |-> "storing", identifier |-> x, password |-> None,
           id |-> 0, code |-> 0, google |-> None]

Begin(q, context) == request[q] = None /\ request' = [request EXCEPT ![q] = context]
At(q, step) == request[q] # None /\ request[q].at = step
Proceed(q, step) == request' = [request EXCEPT ![q].at = step]
Answer(q) == request' = [request EXCEPT ![q] = None]

-----------------------------------------------------------------------------
(* The statements.                                                         *)

IsRegistered(x) == account[x] # None

CreateUser(x, password, code) ==
    /\ ~IsRegistered(x)
    /\ account' = [account EXCEPT ![x] = [password |-> password, code |-> code]]

\* A second start replaces code and password, keeps the id and clears the attempts.
Upsert(x, password, code) ==
    pending' = [pending EXCEPT ![x] =
        [id |-> IF pending[x] = None THEN code ELSE pending[x].id,
         code |-> code, password |-> password, attempts |-> 0, wrong |-> 0,
         expired |-> FALSE]]

UpsertSignupVerificationByEmail(x, password, code) == x \in Emails /\ Upsert(x, password, code)
UpsertSignupVerificationByPhone(x, password, code) == x \in Phones /\ Upsert(x, password, code)

GetSignupVerificationByEmail(x) == x \in Emails /\ pending[x] # None
GetSignupVerificationByPhone(x) == x \in Phones /\ pending[x] # None

\* The row may be a later sign-up's by then.
WithID(id) == {x \in Identifiers : pending[x] # None /\ pending[x].id = id}

IncrementSignupVerificationAttempts(id) ==
    pending' = [x \in Identifiers |->
        IF x \in WithID(id) THEN [pending[x] EXCEPT !.attempts = @ + 1] ELSE pending[x]]

DeleteSignupVerification(id) ==
    pending' = [x \in Identifiers |-> IF x \in WithID(id) THEN None ELSE pending[x]]

CreateUserIdentity(g, x) ==
    /\ link[g] = None
    /\ link' = [link EXCEPT ![g] = x]

-----------------------------------------------------------------------------
(* Signing up.                                                             *)

\* Nothing is stored for an identifier that has an account.
signupStart(q, x, password) ==
    /\ ~IsRegistered(x)
    /\ Begin(q, [For(x) EXCEPT !.password = password])
    /\ UNCHANGED <<rows, stops>>

\* The message with the code leaves after the row is stored, if it does.
Start(q) ==
    /\ At(q, "storing") /\ Len(codes) < MaxCodes
    /\ LET c == request[q]  n == Len(codes) + 1 IN
       /\ \/ UpsertSignupVerificationByEmail(c.identifier, c.password, n)
          \/ UpsertSignupVerificationByPhone(c.identifier, c.password, n)
       /\ \E arrived \in BOOLEAN :
             codes' = Append(codes, [identifier |-> c.identifier, password |-> c.password,
                                     arrived |-> arrived])
    /\ Answer(q)
    /\ UNCHANGED <<account, link, session, stops>>

CodeUsable(x) ==
    /\ GetSignupVerificationByEmail(x) \/ GetSignupVerificationByPhone(x)
    /\ pending[x].attempts < maxOTPAttempts /\ ~pending[x].expired

\* Another code than the current one, an earlier one of the same sign-up included.
VerifyWrong(q, x) ==
    /\ CodeUsable(x)
    /\ Begin(q, [For(x) EXCEPT !.at = "counting", !.id = pending[x].id])
    /\ pending' = [pending EXCEPT ![x].wrong = @ + 1]
    /\ UNCHANGED <<account, codes, link, session, stops>>

CountWrongCode(q) ==
    /\ At(q, "counting")
    /\ IncrementSignupVerificationAttempts(request[q].id)
    /\ Answer(q)
    /\ UNCHANGED <<account, codes, link, session, stops>>

signupVerify(q, x) ==
    /\ CodeUsable(x) /\ codes[pending[x].code].arrived
    /\ Begin(q, [For(x) EXCEPT !.at = "creating", !.id = pending[x].id,
                    !.code = pending[x].code, !.password = pending[x].password])
    /\ UNCHANGED <<rows, stops>>

\* A slip: the row is read again when the account is made.
PasswordNow(q) ==
    LET x == request[q].identifier IN
    IF pending[x] = None THEN request[q].password ELSE pending[x].password

\* The password stored with the code that was compared.
PasswordConfirmed(q) == request[q].password

Verify(q) ==
    /\ At(q, "creating")
    /\ LET c == request[q] IN
       \/ CreateUser(c.identifier, PasswordConfirmed(q), c.code) /\ Proceed(q, "signing")
       \/ IsRegistered(c.identifier) /\ Answer(q) /\ UNCHANGED account
    /\ UNCHANGED <<pending, codes, link, session, stops>>

CreateSession(q) ==
    /\ At(q, "signing")
    /\ session' = session \cup {request[q].identifier}
    /\ IF request[q].google = None THEN Proceed(q, "cleaning") ELSE Answer(q)
    /\ UNCHANGED <<account, pending, codes, link, stops>>

\* Best effort.
DeleteVerified(q) ==
    /\ At(q, "cleaning")
    /\ DeleteSignupVerification(request[q].id) \/ UNCHANGED pending
    /\ Answer(q)
    /\ UNCHANGED <<account, codes, link, session, stops>>

Expire(x) ==
    /\ pending[x] # None /\ ~pending[x].expired
    /\ pending' = [pending EXCEPT ![x].expired = TRUE]
    /\ UNCHANGED <<account, codes, link, session, request, stops>>

-----------------------------------------------------------------------------
(* Signing in with Google: the token has been verified (module GoogleKeys). *)

lookupLinkedUserID(g) == link[g]

googleSignIn(q, g) ==
    /\ LET linked == lookupLinkedUserID(g) IN
       Begin(q, IF linked # None
                THEN [For(linked) EXCEPT !.at = "signing", !.google = g]
                ELSE [For(GoogleEmail[g]) EXCEPT !.at = "resolving", !.google = g])
    /\ UNCHANGED <<rows, stops>>

\* An account with this e-mail is taken over as it is.
resolveUser(q) ==
    /\ At(q, "resolving")
    /\ Proceed(q, IF IsRegistered(request[q].identifier) THEN "linking" ELSE "making")
    /\ UNCHANGED <<rows, stops>>

CreateUserWithoutPassword(q) ==
    /\ At(q, "making")
    /\ LET x == request[q].identifier IN
       \/ CreateUser(x, None, 0) /\ Proceed(q, "linking")
       \/ IsRegistered(x) /\ Answer(q) /\ UNCHANGED account
    /\ UNCHANGED <<pending, codes, link, session, stops>>

\* Best effort: another sign-in of the same Google account may have linked it.
linkIdentity(q) ==
    /\ At(q, "linking")
    /\ CreateUserIdentity(request[q].google, request[q].identifier) \/ UNCHANGED link
    /\ Proceed(q, "signing")
    /\ UNCHANGED <<account, pending, codes, session, stops>>

\* The server stops, or a statement fails.
Stop(q) ==
    /\ request[q] # None /\ stops < MaxStops
    /\ Answer(q) /\ stops' = stops + 1
    /\ UNCHANGED rows

Next ==
    \/ \E x \in Identifiers : Expire(x)
    \/ \E q \in Requests, x \in Identifiers, p \in Passwords : signupStart(q, x, p)
    \/ \E q \in Requests, x \in Identifiers : VerifyWrong(q, x) \/ signupVerify(q, x)
    \/ \E q \in Requests, g \in Google : googleSignIn(q, g)
    \/ \E q \in Requests :
          \/ Start(q) \/ CountWrongCode(q) \/ Verify(q) \/ CreateSession(q)
          \/ DeleteVerified(q) \/ resolveUser(q) \/ CreateUserWithoutPassword(q)
          \/ linkIdentity(q) \/ Stop(q)

Spec == Init /\ [][Next]_vars

-----------------------------------------------------------------------------
(* What signing up promises.                                               *)

\* An account's password is the one that was given when its code was asked
\* for, and that code arrived: a second start while a verification is under way
\* puts no other password on the account.
PasswordOfTheCode ==
    \A x \in Identifiers : account[x] # None /\ account[x].code # 0 =>
        LET c == codes[account[x].code] IN
        c.identifier = x /\ c.password = account[x].password /\ c.arrived

\* A sign-up that is left behind never changes the account: nothing is verified
\* into a second one, by code or by Google.
VerifiedOnce ==
    \A x \in Identifiers : account[x] # None => account'[x] = account[x]

\* Every wrong code since the last start is counted, by the row or by the
\* request that compared it, except those whose request was cut off.
WrongCodesCounted ==
    \A x \in Identifiers : pending[x] # None =>
        pending[x].wrong <= pending[x].attempts + stops
            + Cardinality({q \in Requests : At(q, "counting") /\ request[q].id = pending[x].id})

-----------------------------------------------------------------------------
(* What a comment says of it and the code does not keep.                   *)

\* At most five wrong codes are compared with a pending sign-up.
LockedOutAfterFive ==
    \A x \in Identifiers : pending[x] # None => pending[x].wrong <= maxOTPAttempts
=============================================================================

------------------------------ MODULE Accounts ------------------------------
(***************************************************************************)
(* Accounts, memberships, invitations and the verification of a further    *)
(* phone or e-mail (internal/identity, internal/invitations,               *)
(* internal/verification and their handlers in internal/httpapi).          *)
(*                                                                         *)
(* Every statement is a transaction of its own, so a handler is a chain of *)
(* steps and anything may happen between two of them; a request may also   *)
(* be cut off after any step.  A message leaves, or fails to, together     *)
(* with the row it carries the token or code of: before it arrives nobody  *)
(* can use the row.  Definitions marked as slips are mistakes that a       *)
(* property must catch; the specification uses none.                       *)
(***************************************************************************)
EXTENDS Integers, FiniteSets

CONSTANTS
    Users, Businesses, Phones, Emails, Invitations, Verifications,
    Requests,    \* HTTP requests being served
    Roles,       \* the roles people are invited to, of "owner" and "staff"
    Registered,  \* the accounts that signed up before, a row or None per user
    MaxStops,    \* bound: how many requests are cut off
    None

Identifiers == Phones \cup Emails

UserRow == [phone: Phones \cup {None}, email: Emails \cup {None}]

\* UNIQUE (phone) and UNIQUE (email) hold of the accounts there are.
RegisteredAssumption ==
    /\ Registered \in [Users -> UserRow \cup {None}]
    /\ \A u, w \in Users : u # w /\ Registered[u] # None /\ Registered[w] # None =>
          {Registered[u].phone, Registered[u].email} \cap {Registered[w].phone, Registered[w].email}
              \subseteq {None}
IdentifiersAssumption == Phones \cap Emails = {} /\ None \notin Identifiers
RolesAssumption == Roles \subseteq {"owner", "staff"}
StopsAssumption == MaxStops \in Nat

VARIABLES
    user,          \* users: phone and e-mail, None before the account exists
    membership,    \* business_memberships: role per business and user
    invitation,    \* invitations
    verification,  \* identity_verifications
    request,       \* what each request has established so far
    stops,         \* how many requests have been cut off
    proven         \* history: the identifiers each account's holder has received at

vars == <<user, membership, invitation, verification, request, stops, proven>>

maxOTPAttempts == 3

InvitationRow ==
    [business: Businesses, phone: Phones \cup {None}, email: Emails \cup {None},
     role: {"owner", "staff"}, status: {"pending", "accepted", "revoked", "expired"},
     acceptedBy: Users \cup {None}, expired: BOOLEAN, delivered: BOOLEAN]

\* "live" until the row is deleted; "wrong" is history: the wrong codes compared.
VerificationRow ==
    [user: Users, identifier: Identifiers, attempts: Nat, wrong: Nat,
     expired: BOOLEAN, delivered: BOOLEAN, live: BOOLEAN]

Context ==
    [at: {"linking", "starting", "storing", "counting", "attaching", "cleaning",
          "reading", "creating", "admitting", "joining", "accepting", "expired"},
     user: Users \cup {None}, invitation: Invitations \cup {None},
     verification: Verifications \cup {None}, identifier: Identifiers \cup {None}]

\* NULL is no identifier and no row.
NoneAssumption ==
    /\ None \notin Users /\ None \notin Invitations /\ None \notin Verifications
    /\ None \notin {"owner", "staff"} /\ None \notin UserRow /\ None \notin InvitationRow
    /\ None \notin VerificationRow /\ None \notin Context

TypeOK ==
    /\ user \in [Users -> UserRow \cup {None}]
    /\ membership \in [Businesses -> [Users -> {None, "owner", "staff"}]]
    /\ invitation \in [Invitations -> InvitationRow \cup {None}]
    /\ verification \in [Verifications -> VerificationRow \cup {None}]
    /\ request \in [Requests -> Context \cup {None}]
    /\ stops \in 0..MaxStops
    /\ proven \in [Users -> SUBSET Identifiers]

IdentifiersOf(u) == IF user[u] = None THEN {} ELSE {user[u].phone, user[u].email} \ {None}

Init ==
    /\ user = Registered
    /\ membership = [b \in Businesses |-> [u \in Users |-> None]]
    /\ invitation = [i \in Invitations |-> None]
    /\ verification = [v \in Verifications |-> None]
    /\ request = [q \in Requests |-> None]
    /\ stops = 0
    /\ proven = [u \in Users |-> IdentifiersOf(u)]

-----------------------------------------------------------------------------
(* A request's progress.                                                   *)

rows == <<user, membership, invitation, verification, proven>>

NewRequest == [at |-> "reading", user |-> None, invitation |-> None,
               verification |-> None, identifier |-> None]

Begin(q, context) == request[q] = None /\ request' = [request EXCEPT ![q] = context]
At(q, step) == request[q] # None /\ request[q].at = step
Proceed(q, step) == request' = [request EXCEPT ![q].at = step]
Answer(q) == request' = [request EXCEPT ![q] = None]

-----------------------------------------------------------------------------
(* users and business_memberships.                                         *)

GetUserByPhone(x) == {u \in Users : user[u] # None /\ x # None /\ user[u].phone = x}
GetUserByEmail(x) == {u \in Users : user[u] # None /\ x # None /\ user[u].email = x}
Taken(x) == GetUserByPhone(x) \cup GetUserByEmail(x) # {}

CreateUser(u, phone, email) ==
    /\ user[u] = None
    /\ GetUserByPhone(phone) = {} /\ GetUserByEmail(email) = {}
    /\ user' = [user EXCEPT ![u] = [phone |-> phone, email |-> email]]

PhoneIsRegistered(x) == x \in Phones /\ GetUserByPhone(x) # {}
EmailIsRegistered(x) == x \in Emails /\ GetUserByEmail(x) # {}

SetUserPhone(u, x) ==
    /\ GetUserByPhone(x) \subseteq {u}
    /\ user' = [user EXCEPT ![u].phone = x]

SetUserEmail(u, x) ==
    /\ GetUserByEmail(x) \subseteq {u}
    /\ user' = [user EXCEPT ![u].email = x]

AddPhoneToUser(u, x) == x \in Phones /\ SetUserPhone(u, x)
AddEmailToUser(u, x) == x \in Emails /\ SetUserEmail(u, x)

CreateMembership(b, u, role) ==
    /\ membership[b][u] = None
    /\ membership' = [membership EXCEPT ![b][u] = role]

\* A slip: any failure to add the member is tolerated, not only ErrAlreadyMember.
AlreadyMemberOrFailed(b, u) == TRUE

AlreadyMember(b, u) == membership[b][u] # None

-----------------------------------------------------------------------------
(* invitations.                                                            *)

Pending(i) == invitation[i] # None /\ invitation[i].status = "pending"

\* One pending invitation per identifier and business.
CreateInvitation(i, row) ==
    /\ invitation[i] = None
    /\ ~\E j \in Invitations :
          /\ Pending(j) /\ invitation[j].business = row.business
          /\ \/ row.phone # None /\ invitation[j].phone = row.phone
             \/ row.email # None /\ invitation[j].email = row.email
    /\ invitation' = [invitation EXCEPT ![i] = row]

RevokeInvitation(b, i) ==
    /\ Pending(i) /\ invitation[i].business = b
    /\ invitation' = [invitation EXCEPT ![i].status = "revoked"]

AcceptInvitation(i, u) ==
    /\ Pending(i)
    /\ invitation' = [invitation EXCEPT ![i].status = "accepted", ![i].acceptedBy = u]

\* Only the person it was delivered to has the token.
GetInvitationByTokenHash(i) == invitation[i] # None /\ invitation[i].delivered

PastExpiry(i) == Pending(i) /\ invitation[i].expired

Channel(i) == IF invitation[i].phone # None THEN invitation[i].phone ELSE invitation[i].email

-----------------------------------------------------------------------------
(* identity_verifications.                                                 *)

CreateIdentityVerification(v, u, x, sent) ==
    /\ verification[v] = None
    /\ verification' = [verification EXCEPT ![v] =
          [user |-> u, identifier |-> x, attempts |-> 0, wrong |-> 0,
           expired |-> FALSE, delivered |-> sent, live |-> TRUE]]

Exists(v) == verification[v] # None /\ verification[v].live

IncrementIdentityVerificationAttempts(v) ==
    verification' = IF Exists(v) THEN [verification EXCEPT ![v].attempts = @ + 1]
                    ELSE verification

DeleteIdentityVerification(v) ==
    verification' = [verification EXCEPT ![v].live = FALSE]

-----------------------------------------------------------------------------
(* Businesses and invitations, as an owner sees them.                      *)

CreateBusinessWithOwner(u, b) ==
    /\ user[u] # None
    /\ \A w \in Users : membership[b][w] = None
    /\ CreateMembership(b, u, "owner")
    /\ UNCHANGED <<user, invitation, verification, request, stops, proven>>

InvitationRequestValid(phone, email) == phone # None \/ email # None

\* The row stays when the message cannot be sent.
Create(b, by, i) ==
    /\ membership[b][by] = "owner"
    /\ \E phone \in Phones \cup {None}, email \in Emails \cup {None},
          role \in Roles, sent \in BOOLEAN :
          /\ InvitationRequestValid(phone, email)
          /\ CreateInvitation(i, [business |-> b, phone |-> phone, email |-> email,
                role |-> role, status |-> "pending", acceptedBy |-> None,
                expired |-> FALSE, delivered |-> sent])
    /\ UNCHANGED <<user, membership, verification, request, stops, proven>>

Revoke(b, by, i) ==
    /\ membership[b][by] = "owner"
    /\ RevokeInvitation(b, i)
    /\ UNCHANGED <<user, membership, verification, request, stops, proven>>

\* Seven days, or ten minutes, go by.
ExpireInvitation(i) ==
    /\ Pending(i) /\ ~invitation[i].expired
    /\ invitation' = [invitation EXCEPT ![i].expired = TRUE]
    /\ UNCHANGED <<user, membership, verification, request, stops, proven>>

ExpireVerification(v) ==
    /\ Exists(v) /\ ~verification[v].expired
    /\ verification' = [verification EXCEPT ![v].expired = TRUE]
    /\ UNCHANGED <<user, membership, invitation, request, stops, proven>>

\* The landing page; the answer to an expired one is ErrInvitationExpired.
GetByToken(q, i) ==
    /\ GetInvitationByTokenHash(i) /\ PastExpiry(i)
    /\ Begin(q, [NewRequest EXCEPT !.at = "expired", !.invitation = i])
    /\ UNCHANGED <<rows, stops>>

AnswerExpired(q) == At(q, "expired") /\ Answer(q) /\ UNCHANGED <<rows, stops>>

Open(i) == GetInvitationByTokenHash(i) /\ Pending(i) /\ ~invitation[i].expired

-----------------------------------------------------------------------------
(* Accepting as a new user.                                                *)

AcceptAsNewUser(q, i) ==
    /\ Open(i)
    /\ Begin(q, [NewRequest EXCEPT !.at = "creating", !.invitation = i])
    /\ UNCHANGED <<rows, stops>>

\* The message came to one of the invitation's identifiers; the account gets both.
CreateInvitedUser(q) ==
    /\ At(q, "creating")
    /\ LET i == request[q].invitation IN
       \/ \E u \in Users :
            /\ CreateUser(u, invitation[i].phone, invitation[i].email)
            /\ proven' = [proven EXCEPT ![u] = {Channel(i)}]
            /\ request' = [request EXCEPT ![q].at = "admitting", ![q].user = u]
       \/ /\ Taken(invitation[i].phone) \/ Taken(invitation[i].email)
          /\ Answer(q) /\ UNCHANGED <<user, proven>>
    /\ UNCHANGED <<membership, invitation, verification, stops>>

\* ErrAlreadyMember ends this path, and not the other one.
AdmitNewUser(q) ==
    /\ At(q, "admitting")
    /\ LET i == request[q].invitation  b == invitation[i].business IN
       \/ CreateMembership(b, request[q].user, invitation[i].role) /\ Proceed(q, "accepting")
       \/ AlreadyMember(b, request[q].user) /\ Answer(q) /\ UNCHANGED membership
    /\ UNCHANGED <<user, invitation, verification, proven, stops>>

-----------------------------------------------------------------------------
(* Accepting with an account.                                              *)

AcceptAsExistingUser(q) ==
    /\ At(q, "reading")
    /\ IF Open(request[q].invitation) THEN Proceed(q, "joining") ELSE Answer(q)
    /\ UNCHANGED <<rows, stops>>

AddMembership(q) ==
    /\ At(q, "joining")
    /\ LET i == request[q].invitation  b == invitation[i].business IN
       \/ CreateMembership(b, request[q].user, invitation[i].role)
       \/ AlreadyMember(b, request[q].user) /\ UNCHANGED membership
    /\ Proceed(q, "accepting")
    /\ UNCHANGED <<user, invitation, verification, proven, stops>>

\* The last statement of both; a session follows for a new user (module Access).
markAccepted(q) ==
    /\ At(q, "accepting")
    /\ \/ AcceptInvitation(request[q].invitation, request[q].user)
       \/ ~Pending(request[q].invitation) /\ UNCHANGED invitation
    /\ Answer(q)
    /\ UNCHANGED <<user, membership, verification, proven, stops>>

linkInvitationToExistingUser(q, u, i) ==
    /\ user[u] # None /\ Open(i)
    /\ Begin(q, [NewRequest EXCEPT !.at = "linking", !.user = u, !.invitation = i])
    /\ UNCHANGED <<rows, stops>>

\* The invitation's own identifier is on the account, or has to be verified.
MatchIdentifier(q) ==
    /\ At(q, "linking")
    /\ LET x == Channel(request[q].invitation) IN
       IF x \in IdentifiersOf(request[q].user) THEN Proceed(q, "reading")
       ELSE request' = [request EXCEPT ![q].at = "starting", ![q].identifier = x]
    /\ UNCHANGED <<rows, stops>>

-----------------------------------------------------------------------------
(* Verifying an identifier.                                                *)

startAddIdentifier(q, u, x) ==
    /\ user[u] # None
    /\ Begin(q, [NewRequest EXCEPT !.at = "starting", !.user = u, !.identifier = x])
    /\ UNCHANGED <<rows, stops>>

Start(q) ==
    /\ At(q, "starting")
    /\ IF EmailIsRegistered(request[q].identifier) \/ PhoneIsRegistered(request[q].identifier)
       THEN Answer(q) ELSE Proceed(q, "storing")
    /\ UNCHANGED <<rows, stops>>

StoreVerification(q, v) ==
    /\ At(q, "storing")
    /\ \E sent \in BOOLEAN :
          CreateIdentityVerification(v, request[q].user, request[q].identifier, sent)
    /\ Answer(q)
    /\ UNCHANGED <<user, membership, invitation, proven, stops>>

\* A slip: anybody may confirm it.
MayConfirmAnybody(u, v) ==
    Exists(v) /\ verification[v].attempts < maxOTPAttempts /\ ~verification[v].expired

MayConfirm(u, v) ==
    /\ Exists(v) /\ verification[v].user = u
    /\ verification[v].attempts < maxOTPAttempts /\ ~verification[v].expired

\* i is the invitation token sent along, or None.
confirmIdentityVerification(q, u, v, i) ==
    /\ user[u] # None /\ MayConfirm(u, v)
    /\ i # None => GetInvitationByTokenHash(i)
    /\ \/ /\ Begin(q, [NewRequest EXCEPT !.at = "counting", !.user = u, !.verification = v])
          /\ verification' = [verification EXCEPT ![v].wrong = @ + 1]
          /\ UNCHANGED proven
       \/ /\ verification[v].delivered
          /\ Begin(q, [NewRequest EXCEPT !.at = "attaching", !.user = u,
                                         !.verification = v, !.invitation = i])
          /\ proven' = [proven EXCEPT ![u] = @ \cup {verification[v].identifier}]
          /\ UNCHANGED verification
    /\ UNCHANGED <<user, membership, invitation, stops>>

CountWrongCode(q) ==
    /\ At(q, "counting")
    /\ IncrementIdentityVerificationAttempts(request[q].verification)
    /\ Answer(q)
    /\ UNCHANGED <<user, membership, invitation, proven, stops>>

Confirm(q) ==
    /\ At(q, "attaching")
    /\ LET row == verification[request[q].verification] IN
       \/ /\ \/ AddPhoneToUser(row.user, row.identifier)
             \/ AddEmailToUser(row.user, row.identifier)
          /\ Proceed(q, "cleaning")
       \/ /\ \E w \in Users \ {row.user} : row.identifier \in IdentifiersOf(w)
          /\ Answer(q) /\ UNCHANGED user
    /\ UNCHANGED <<membership, invitation, verification, proven, stops>>

\* Best effort; then the invitation, if there is one.
DeleteConfirmed(q) ==
    /\ At(q, "cleaning")
    /\ DeleteIdentityVerification(request[q].verification) \/ UNCHANGED verification
    /\ IF request[q].invitation = None THEN Answer(q) ELSE Proceed(q, "reading")
    /\ UNCHANGED <<user, membership, invitation, proven, stops>>

\* The server stops, or a statement fails.
Stop(q) ==
    /\ request[q] # None /\ stops < MaxStops
    /\ Answer(q) /\ stops' = stops + 1
    /\ UNCHANGED rows

Next ==
    \/ \E b \in Businesses, u \in Users : CreateBusinessWithOwner(u, b)
    \/ \E b \in Businesses, u \in Users, i \in Invitations : Create(b, u, i) \/ Revoke(b, u, i)
    \/ \E i \in Invitations : ExpireInvitation(i)
    \/ \E v \in Verifications : ExpireVerification(v)
    \/ \E q \in Requests, i \in Invitations : GetByToken(q, i) \/ AcceptAsNewUser(q, i)
    \/ \E q \in Requests, u \in Users, i \in Invitations : linkInvitationToExistingUser(q, u, i)
    \/ \E q \in Requests, u \in Users, x \in Identifiers : startAddIdentifier(q, u, x)
    \/ \E q \in Requests, v \in Verifications : StoreVerification(q, v)
    \/ \E q \in Requests, u \in Users, v \in Verifications, i \in Invitations \cup {None} :
          confirmIdentityVerification(q, u, v, i)
    \/ \E q \in Requests :
          \/ AnswerExpired(q) \/ CreateInvitedUser(q) \/ AdmitNewUser(q)
          \/ AcceptAsExistingUser(q) \/ AddMembership(q) \/ markAccepted(q)
          \/ MatchIdentifier(q) \/ Start(q) \/ CountWrongCode(q) \/ Confirm(q)
          \/ DeleteConfirmed(q) \/ Stop(q)

Spec == Init /\ [][Next]_vars

-----------------------------------------------------------------------------
(* What accounts and memberships promise.                                  *)

\* No phone or e-mail is on two accounts, although the check that it is free
\* and the statement that attaches it are minutes apart.
IdentifiersUnique ==
    \A u, w \in Users : u # w => IdentifiersOf(u) \cap IdentifiersOf(w) = {}

\* A phone on an account has received a message that the account's holder used:
\* the invitation it was created from, or a code (WhatsApp is preferred
\* whenever an invitation carries a phone).
PhonesProven == \A u \in Users : IdentifiersOf(u) \cap Phones \subseteq proven[u]

\* The account an invitation was accepted by is a member of its business,
\* wherever the two transactions of accepting were cut off.
AcceptedIsMember ==
    \A i \in Invitations : invitation[i] # None /\ invitation[i].status = "accepted"
        => membership[invitation[i].business][invitation[i].acceptedBy] # None

\* An invitation that is accepted or revoked stays so, and stays with whom it
\* was accepted by, whatever requests were under way.
ClosedIsFinal ==
    \A i \in Invitations : invitation[i] # None /\ ~Pending(i)
           => invitation'[i] = invitation[i]

\* Every wrong code is counted once, by the row or by the request that compared
\* it, except those whose request was cut off.
WrongCodesCounted ==
    \A v \in Verifications : Exists(v) =>
        verification[v].wrong <= verification[v].attempts + stops
            + Cardinality({q \in Requests : At(q, "counting") /\ request[q].verification = v})

-----------------------------------------------------------------------------
(* What the documents say of it and the code does not keep.                *)

\* An e-mail on an account has received a message too.
EmailsProven == \A u \in Users : IdentifiersOf(u) \cap Emails \subseteq proven[u]

\* The account that accepts an invitation has its phone or e-mail.
AcceptedByItsHolder ==
    \A i \in Invitations : Pending(i) /\ invitation'[i].status = "accepted"
         => Channel(i) \in IdentifiersOf(invitation'[i].acceptedBy)

\* At most three wrong codes are compared with a pending verification.
LockedOutAfterThree ==
    \A v \in Verifications : verification[v] # None => verification[v].wrong <= maxOTPAttempts

\* An open invitation has been delivered.
OpenIsDelivered == \A i \in Invitations : Pending(i) => invitation[i].delivered

\* An invitation whose expiry a read has found is in the status "expired".
ExpiredOnRead ==
    \A q \in Requests : At(q, "expired") => invitation[request[q].invitation].status = "expired"
=============================================================================

--------------------------- MODULE AccountsProofs ---------------------------
(***************************************************************************)
(* For any users, businesses, invitations, verifications and requests: who *)
(* accepted an invitation is a member, no identifier is on two accounts,   *)
(* and a phone on an account has been proven.                              *)
(***************************************************************************)
EXTENDS Accounts, FiniteSetTheorems, TLAPS

Assumptions == RegisteredAssumption /\ IdentifiersAssumption /\ RolesAssumption
               /\ StopsAssumption /\ NoneAssumption

Invited(c) == c.invitation # None /\ invitation[c.invitation] # None
Known(c) == c.user # None /\ user[c.user] # None

\* What a request has established by the step it is at, and what no other
\* request can have undone since.
ContextOK(c) ==
    /\ c.at \in {"linking", "reading", "creating", "admitting", "joining", "accepting", "expired"}
          => Invited(c)
    /\ c.at \in {"linking", "starting", "storing", "reading", "admitting", "joining", "accepting",
                 "attaching", "cleaning"} => Known(c)
    /\ c.at \in {"starting", "storing"} => c.identifier # None
    /\ c.at \in {"counting", "attaching", "cleaning"}
          => c.verification # None /\ verification[c.verification] # None
    /\ c.at \in {"attaching", "cleaning"} /\ c.invitation # None => Invited(c)
    /\ c.at = "attaching"
          => verification[c.verification].identifier \in proven[verification[c.verification].user]
    /\ c.at = "accepting" => membership[invitation[c.invitation].business][c.user] # None

RequestInv == \A q \in Requests : request[q] # None => ContextOK(request[q])

\* Whoever has a code to confirm has an account.
VerificationInv == \A v \in Verifications : verification[v] # None => user[verification[v].user] # None

\* Every invitation is for somebody, and was accepted by somebody if at all.
InvitationInv == \A i \in Invitations : invitation[i] # None =>
    /\ Channel(i) # None
    /\ invitation[i].status = "accepted" => invitation[i].acceptedBy # None

IInv == TypeOK /\ RequestInv /\ VerificationInv /\ InvitationInv
        /\ AcceptedIsMember /\ IdentifiersUnique /\ PhonesProven

LEMMA InitInv == ASSUME Assumptions, Init PROVE IInv
<1>1. TypeOK
  BY DEF Assumptions, RegisteredAssumption, StopsAssumption, IdentifiersAssumption, NoneAssumption, Init, TypeOK,
         IdentifiersOf, UserRow, Identifiers
<1>2. RequestInv /\ VerificationInv /\ InvitationInv /\ AcceptedIsMember /\ PhonesProven
  BY DEF Init, RequestInv, VerificationInv, InvitationInv, AcceptedIsMember, PhonesProven
<1>3. IdentifiersUnique
  BY DEF Assumptions, RegisteredAssumption, Init, IdentifiersUnique, IdentifiersOf
<1> QED BY <1>1, <1>2, <1>3 DEF IInv

(***************************************************************************)
(* What every step leaves.                                                 *)
(***************************************************************************)

\* Rows stay, and what requests rely on of them stays with them.
Grows ==
    /\ \A u \in Users : user[u] # None => user'[u] # None /\ proven[u] \subseteq proven'[u]
    /\ \A i \in Invitations : invitation[i] # None
          => invitation'[i] # None /\ invitation'[i].business = invitation[i].business
    /\ \A v \in Verifications : verification[v] # None
          => /\ verification'[v] # None
             /\ verification'[v].user = verification[v].user
             /\ verification'[v].identifier = verification[v].identifier
    /\ \A b \in Businesses, u \in Users : membership[b][u] # None => membership'[b][u] # None

LEMMA ContextStays ==
    ASSUME IInv, Grows, NEW c \in Context, ContextOK(c)
    PROVE  ContextOK(c)'
<1>1. c.user \in Users \cup {None} /\ c.invitation \in Invitations \cup {None}
      /\ c.verification \in Verifications \cup {None}
  BY DEF Context
<1>2. Invited(c) => Invited(c)' /\ invitation'[c.invitation].business = invitation[c.invitation].business
                    /\ invitation[c.invitation].business \in Businesses
  BY <1>1 DEF Invited, Grows, IInv, TypeOK, InvitationRow
<1>3. Known(c) => Known(c)'
  BY <1>1 DEF Known, Grows
<1>4. c.verification # None /\ verification[c.verification] # None
      => /\ verification'[c.verification] # None
         /\ verification'[c.verification].user = verification[c.verification].user
         /\ verification'[c.verification].identifier = verification[c.verification].identifier
         /\ proven[verification[c.verification].user] \subseteq proven'[verification[c.verification].user]
  BY <1>1 DEF Grows, IInv, TypeOK, VerificationInv, VerificationRow
<1>5. c.at = "accepting" => membership'[invitation[c.invitation].business][c.user] # None
  BY <1>1, <1>2 DEF ContextOK, Grows, Known
<1> QED BY <1>2, <1>3, <1>4, <1>5 DEF ContextOK

LEMMA RequestsStay ==
    ASSUME IInv, Grows, NEW q \in Requests,
           \A r \in Requests \ {q} : request'[r] = request[r],
           request'[q] = None \/ \E c \in Context : request'[q] = c /\ ContextOK(c)'
    PROVE  RequestInv'
<1> SUFFICES ASSUME NEW r \in Requests, request'[r] # None
             PROVE  ContextOK(request[r])'
  BY DEF RequestInv
<1>1. PICK c \in Context : request'[r] = c /\ ContextOK(c)'
  <2>1. CASE r = q
    BY <2>1
  <2>2. CASE r # q
    <3>1. PICK c \in Context : request[r] = c
      BY <2>2 DEF IInv, TypeOK
    <3>2. ContextOK(c)
      BY <2>2, <3>1 DEF IInv, RequestInv, NoneAssumption
    <3>3. ContextOK(c)'
      BY <3>1, <3>2, ContextStays
    <3> QED BY <2>2, <3>1, <3>3
  <2> QED BY <2>1, <2>2
<1> QED BY <1>1 DEF ContextOK, Invited, Known

\* A step that only makes a request go on or end.
LEMMA QuietStep ==
    ASSUME IInv, NEW q \in Requests, NEW c \in Context \cup {None},
           c = None \/ ContextOK(c),
           request' = [request EXCEPT ![q] = c], UNCHANGED rows, stops' \in 0..MaxStops
    PROVE  IInv'
<1>1. TypeOK'
  BY DEF IInv, TypeOK, rows
<1>2. Grows
  BY DEF Grows, rows
<1>3. request'[q] = c /\ \A r \in Requests \ {q} : request'[r] = request[r]
  BY DEF IInv, TypeOK
<1>4. c = None \/ \E d \in Context : request'[q] = d /\ ContextOK(d)'
  BY <1>2, <1>3, ContextStays
<1>5. RequestInv'
  BY <1>2, <1>3, <1>4, RequestsStay
<1>6. VerificationInv' /\ InvitationInv' /\ AcceptedIsMember' /\ IdentifiersUnique' /\ PhonesProven'
  BY DEF rows, IInv, VerificationInv, InvitationInv, Channel, AcceptedIsMember, IdentifiersUnique, PhonesProven, IdentifiersOf
<1> QED BY <1>1, <1>5, <1>6 DEF IInv

\* A step that changes no row at all is one of these.
LEMMA RequestSteps ==
    ASSUME IInv, Assumptions, NEW q \in Requests,
           \/ \E i \in Invitations : GetByToken(q, i) \/ AcceptAsNewUser(q, i)
           \/ \E u \in Users, i \in Invitations : linkInvitationToExistingUser(q, u, i)
           \/ \E u \in Users, x \in Identifiers : startAddIdentifier(q, u, x)
           \/ AnswerExpired(q) \/ AcceptAsExistingUser(q) \/ MatchIdentifier(q)
           \/ Start(q) \/ Stop(q)
    PROVE  IInv'
<1> USE DEF Assumptions, NoneAssumption
<1>1. request[q] # None => request[q] \in Context /\ ContextOK(request[q])
  BY DEF IInv, TypeOK, RequestInv
<1>2. stops \in 0..MaxStops /\ MaxStops \in Nat
  BY DEF IInv, TypeOK, StopsAssumption
<1>3. ASSUME Answer(q), UNCHANGED rows, stops' \in 0..MaxStops PROVE IInv'
  BY <1>3, QuietStep DEF Answer
<1>4. CASE AnswerExpired(q)
  BY <1>2, <1>3, <1>4 DEF AnswerExpired
<1>5. CASE Stop(q)
  BY <1>2, <1>3, <1>5 DEF Stop
<1>6. ASSUME NEW i \in Invitations, GetByToken(q, i) \/ AcceptAsNewUser(q, i) PROVE IInv'
  <2> DEFINE c(step) == [NewRequest EXCEPT !.at = step, !.invitation = i]
  <2>1. PICK step \in {"expired", "creating"} :
            request' = [request EXCEPT ![q] = c(step)] /\ UNCHANGED <<rows, stops>>
    BY <1>6 DEF GetByToken, AcceptAsNewUser, Begin
  <2>2. invitation[i] # None
    BY <1>6 DEF GetByToken, AcceptAsNewUser, Open, GetInvitationByTokenHash
  <2>3. c(step) \in Context /\ ContextOK(c(step))
    BY <2>2 DEF Context, ContextOK, NewRequest, Invited
  <2> QED BY <1>2, <2>1, <2>3, QuietStep
<1>7. CASE AcceptAsExistingUser(q)
  <2>1. CASE Answer(q)
    BY <1>2, <1>3, <1>7, <2>1 DEF AcceptAsExistingUser
  <2>2. CASE Proceed(q, "joining")
    <3> DEFINE c == [request[q] EXCEPT !.at = "joining"]
    <3>1. At(q, "reading") /\ request' = [request EXCEPT ![q] = c] /\ UNCHANGED <<rows, stops>>
      BY <1>7, <2>2 DEF AcceptAsExistingUser, Proceed, IInv, TypeOK
    <3>2. c \in Context /\ ContextOK(c)
      BY <1>1, <3>1 DEF At, Context, ContextOK, Invited, Known
    <3> QED BY <1>2, <3>1, <3>2, QuietStep
  <2> QED BY <1>7, <2>1, <2>2 DEF AcceptAsExistingUser
<1>8. ASSUME NEW u \in Users, NEW i \in Invitations, linkInvitationToExistingUser(q, u, i)
      PROVE  IInv'
  <2> DEFINE c == [NewRequest EXCEPT !.at = "linking", !.user = u, !.invitation = i]
  <2>1. request' = [request EXCEPT ![q] = c] /\ UNCHANGED <<rows, stops>>
        /\ user[u] # None /\ invitation[i] # None
    BY <1>8 DEF linkInvitationToExistingUser, Begin, Open, GetInvitationByTokenHash
  <2>2. c \in Context /\ ContextOK(c)
    BY <2>1 DEF Context, ContextOK, NewRequest, Invited, Known
  <2> QED BY <1>2, <2>1, <2>2, QuietStep
<1>9. CASE MatchIdentifier(q)
  <2> DEFINE y == Channel(request[q].invitation)
  <2>1. At(q, "linking") /\ UNCHANGED <<rows, stops>>
    BY <1>9 DEF MatchIdentifier
  <2>2. CASE Proceed(q, "reading")
    <3> DEFINE c == [request[q] EXCEPT !.at = "reading"]
    <3>1. request' = [request EXCEPT ![q] = c]
      BY <2>2 DEF Proceed, IInv, TypeOK
    <3>2. c \in Context /\ ContextOK(c)
      BY <1>1, <2>1 DEF At, Context, ContextOK, Invited, Known
    <3> QED BY <1>2, <2>1, <3>1, <3>2, QuietStep
  <2>3. CASE request' = [request EXCEPT ![q].at = "starting", ![q].identifier = y]
    <3> DEFINE c == [request[q] EXCEPT !.at = "starting", !.identifier = y]
    <3>1. request' = [request EXCEPT ![q] = c]
      BY <1>1, <2>1, <2>3 DEF IInv, TypeOK, At
    <3>2. y \in Identifiers
      <4>1. request[q].invitation \in Invitations /\ invitation[request[q].invitation] \in InvitationRow
        BY <1>1, <2>1 DEF At, ContextOK, Invited, Context, IInv, TypeOK
      <4> QED BY <4>1 DEF IInv, InvitationInv, Channel, InvitationRow, Identifiers
    <3>3. c \in Context /\ ContextOK(c)
      BY <1>1, <2>1, <3>2 DEF At, Context, ContextOK, Invited, Known, IdentifiersAssumption
    <3> QED BY <1>2, <2>1, <3>1, <3>3, QuietStep
  <2> QED BY <1>9, <2>2, <2>3 DEF MatchIdentifier
<1>10. ASSUME NEW u \in Users, NEW x \in Identifiers, startAddIdentifier(q, u, x) PROVE IInv'
  <2> DEFINE c == [NewRequest EXCEPT !.at = "starting", !.user = u, !.identifier = x]
  <2>1. request' = [request EXCEPT ![q] = c] /\ UNCHANGED <<rows, stops>> /\ user[u] # None
    BY <1>10 DEF startAddIdentifier, Begin
  <2>2. c \in Context /\ ContextOK(c)
    BY <2>1 DEF Context, ContextOK, NewRequest, Known, IdentifiersAssumption
  <2> QED BY <1>2, <2>1, <2>2, QuietStep
<1>11. CASE Start(q)
  <2>1. CASE Answer(q)
    BY <1>2, <1>3, <1>11, <2>1 DEF Start
  <2>2. CASE Proceed(q, "storing")
    <3> DEFINE c == [request[q] EXCEPT !.at = "storing"]
    <3>1. At(q, "starting") /\ request' = [request EXCEPT ![q] = c] /\ UNCHANGED <<rows, stops>>
      BY <1>11, <2>2 DEF Start, Proceed, IInv, TypeOK
    <3>2. c \in Context /\ ContextOK(c)
      BY <1>1, <3>1 DEF At, Context, ContextOK, Known
    <3> QED BY <1>2, <3>1, <3>2, QuietStep
  <2> QED BY <1>11, <2>1, <2>2 DEF Start
<1> QED BY <1>4, <1>5, <1>6, <1>7, <1>8, <1>9, <1>10, <1>11

LEMMA UsersStay == ASSUME IInv, UNCHANGED <<user, proven>> PROVE IdentifiersUnique' /\ PhonesProven'
BY DEF IInv, IdentifiersUnique, PhonesProven, IdentifiersOf

LEMMA InvitationsStay ==
    ASSUME IInv, Grows, UNCHANGED invitation
    PROVE  AcceptedIsMember' /\ InvitationInv'
<1>1. InvitationInv'
  BY DEF IInv, InvitationInv, Channel
<1>2. ASSUME NEW i \in Invitations, invitation[i] # None, invitation[i].status = "accepted"
      PROVE  membership'[invitation[i].business][invitation[i].acceptedBy] # None
  <2>1. invitation[i].business \in Businesses /\ invitation[i].acceptedBy \in Users
    BY <1>2 DEF IInv, TypeOK, InvitationInv, InvitationRow
  <2> QED BY <1>2, <2>1 DEF IInv, AcceptedIsMember, Grows
<1> QED BY <1>1, <1>2 DEF AcceptedIsMember

LEMMA VerificationsStay == ASSUME IInv, Grows, UNCHANGED verification PROVE VerificationInv'
BY DEF IInv, TypeOK, VerificationRow, VerificationInv, Grows

(***************************************************************************)
(* Steps that add a membership.                                            *)
(***************************************************************************)
LEMMA MembershipAdded ==
    ASSUME IInv, Assumptions, NEW b \in Businesses, NEW u \in Users, NEW role \in {"owner", "staff"},
           membership' = [membership EXCEPT ![b][u] = role],
           UNCHANGED <<user, invitation, verification, stops, proven>>,
           request' \in [Requests -> Context \cup {None}]
    PROVE  /\ Grows /\ TypeOK' /\ membership'[b][u] # None
           /\ VerificationInv' /\ InvitationInv' /\ AcceptedIsMember' /\ IdentifiersUnique' /\ PhonesProven'
<1>1. /\ membership' \in [Businesses -> [Users -> {None, "owner", "staff"}]]
      /\ membership'[b][u] # None
      /\ \A c \in Businesses, w \in Users : membership[c][w] # None => membership'[c][w] # None
  BY DEF IInv, TypeOK, Assumptions, NoneAssumption
<1>2. TypeOK'
  BY <1>1 DEF IInv, TypeOK
<1>3. Grows
  BY <1>1 DEF Grows
<1> QED BY <1>1, <1>2, <1>3, UsersStay, InvitationsStay, VerificationsStay

LEMMA CreatesBusiness ==
    ASSUME IInv, Assumptions, NEW b \in Businesses, NEW u \in Users, CreateBusinessWithOwner(u, b)
    PROVE  IInv'
<1>1. membership' = [membership EXCEPT ![b][u] = "owner"]
      /\ UNCHANGED <<user, invitation, verification, request, stops, proven>>
  BY DEF CreateBusinessWithOwner, CreateMembership
<1>2. request' \in [Requests -> Context \cup {None}]
  BY <1>1 DEF IInv, TypeOK
<1>3. Grows
  BY <1>1, <1>2, MembershipAdded
<1>4. RequestInv'
  <2> SUFFICES ASSUME NEW q \in Requests, request[q] # None PROVE ContextOK(request[q])'
    BY <1>1 DEF RequestInv
  <2>1. PICK c \in Context : request[q] = c /\ ContextOK(c)
    BY DEF IInv, TypeOK, RequestInv
  <2>2. ContextOK(c)'
    BY <1>3, <2>1, ContextStays
  <2> QED BY <1>1, <2>1, <2>2 DEF ContextOK, Invited, Known
<1> QED BY <1>1, <1>2, <1>4, MembershipAdded DEF IInv

LEMMA Admits ==
    ASSUME IInv, Assumptions, NEW q \in Requests, AdmitNewUser(q) \/ AddMembership(q)
    PROVE  IInv'
<1> DEFINE i == request[q].invitation
           u == request[q].user
           b == invitation[i].business
<1>1. At(q, "admitting") \/ At(q, "joining")
  BY DEF AdmitNewUser, AddMembership
<1>2. /\ request[q] \in Context /\ ContextOK(request[q])
      /\ request[q].at \in {"admitting", "joining"}
  BY <1>1 DEF At, IInv, TypeOK, RequestInv
<1>3. i \in Invitations /\ u \in Users /\ i # None /\ u # None /\ invitation[i] # None /\ user[u] # None
      /\ invitation[i] \in InvitationRow /\ b \in Businesses
  BY <1>2 DEF ContextOK, Invited, Known, Context, IInv, TypeOK, InvitationRow
<1>4. PICK c \in Context : /\ c = [request[q] EXCEPT !.at = "accepting"]
                           /\ c.at = "accepting" /\ c.invitation = i /\ c.user = u
  <2> DEFINE d == [request[q] EXCEPT !.at = "accepting"]
  <2>1. d \in Context
    BY <1>2 DEF Context
  <2>2. d.at = "accepting" /\ d.invitation = i /\ d.user = u
    BY <1>2 DEF Context
  <2> HIDE DEF d
  <2>3. PICK c \in Context : c = d
    BY <2>1
  <2> QED BY <2>2, <2>3 DEF d
<1>5. UNCHANGED <<user, invitation, verification, stops, proven>>
  BY DEF AdmitNewUser, AddMembership
<1>6. CASE membership' = [membership EXCEPT ![b][u] = invitation[i].role] /\ Proceed(q, "accepting")
  <2>1. request' = [request EXCEPT ![q] = c]
    BY <1>2, <1>4, <1>6 DEF Proceed, IInv, TypeOK
  <2>2. request' \in [Requests -> Context \cup {None}]
    BY <2>1 DEF IInv, TypeOK
  <2>3. invitation[i].role \in {"owner", "staff"}
    BY <1>3 DEF InvitationRow
  <2>4. /\ Grows /\ TypeOK' /\ membership'[b][u] # None
        /\ VerificationInv' /\ InvitationInv' /\ AcceptedIsMember' /\ IdentifiersUnique' /\ PhonesProven'
    BY <1>3, <1>5, <1>6, <2>2, <2>3, MembershipAdded
  <2>5. ContextOK(c)'
    BY <1>3, <1>4, <1>5, <2>4 DEF ContextOK, Invited, Known
  <2>6. request'[q] = c /\ \A r \in Requests \ {q} : request'[r] = request[r]
    BY <2>1 DEF IInv, TypeOK
  <2>7. RequestInv'
    BY <2>4, <2>5, <2>6, RequestsStay
  <2> QED BY <2>4, <2>7 DEF IInv
<1>7. CASE AlreadyMember(b, u) /\ UNCHANGED membership /\ Proceed(q, "accepting")
  <2>1. request' = [request EXCEPT ![q] = c]
    BY <1>2, <1>4, <1>7 DEF Proceed, IInv, TypeOK
  <2>2. ContextOK(c)
    BY <1>3, <1>4, <1>7 DEF ContextOK, Invited, Known, AlreadyMember
  <2>3. UNCHANGED rows /\ stops' \in 0..MaxStops
    BY <1>5, <1>7 DEF rows, IInv, TypeOK
  <2> QED BY <2>1, <2>2, <2>3, QuietStep
<1>8. CASE Answer(q) /\ UNCHANGED membership
  BY <1>5, <1>8, QuietStep DEF Answer, rows, IInv, TypeOK
<1> QED BY <1>6, <1>7, <1>8 DEF AdmitNewUser, AddMembership, CreateMembership

(***************************************************************************)
(* Steps on an invitation.                                                 *)
(***************************************************************************)
LEMMA CreatesInvitation ==
    ASSUME IInv, Assumptions, NEW b \in Businesses, NEW u \in Users, NEW i \in Invitations,
           Create(b, u, i)
    PROVE  IInv'
<1>1. PICK row \in InvitationRow :
        /\ invitation[i] = None /\ row.status = "pending" /\ row.business = b
        /\ row.phone # None \/ row.email # None
        /\ invitation' = [invitation EXCEPT ![i] = row]
        /\ UNCHANGED <<user, membership, verification, request, stops, proven>>
  <2>1. PICK phone \in Phones \cup {None}, email \in Emails \cup {None}, role \in Roles, sent \in BOOLEAN :
          /\ InvitationRequestValid(phone, email)
          /\ CreateInvitation(i, [business |-> b, phone |-> phone, email |-> email,
                role |-> role, status |-> "pending", acceptedBy |-> None,
                expired |-> FALSE, delivered |-> sent])
    BY DEF Create
  <2>2. [business |-> b, phone |-> phone, email |-> email, role |-> role, status |-> "pending",
         acceptedBy |-> None, expired |-> FALSE, delivered |-> sent] \in InvitationRow
    <3>1. role \in {"owner", "staff"}
      BY DEF Assumptions, RolesAssumption
    <3> QED BY ONLY <3>1, b \in Businesses, phone \in Phones \cup {None}, email \in Emails \cup {None},
                    sent \in BOOLEAN, SMTT(20) DEF InvitationRow
  <2> QED BY <2>1, <2>2 DEF CreateInvitation, InvitationRequestValid, Create
<1>2. row # None
  BY DEF Assumptions, NoneAssumption
<1>3. /\ invitation'[i] = row /\ \A j \in Invitations \ {i} : invitation'[j] = invitation[j]
      /\ TypeOK'
  BY <1>1 DEF IInv, TypeOK
<1>4. Grows
  BY <1>1, <1>2, <1>3 DEF Grows
<1>5. InvitationInv'
  BY <1>1, <1>3 DEF IInv, InvitationInv, Channel
<1>6. AcceptedIsMember'
  BY <1>1, <1>3 DEF IInv, AcceptedIsMember
<1>7. RequestInv'
  <2> SUFFICES ASSUME NEW q \in Requests, request[q] # None PROVE ContextOK(request[q])'
    BY <1>1 DEF RequestInv
  <2>1. PICK c \in Context : request[q] = c /\ ContextOK(c)
    BY DEF IInv, TypeOK, RequestInv
  <2>2. ContextOK(c)'
    BY <1>4, <2>1, ContextStays
  <2> QED BY <1>1, <2>1, <2>2 DEF ContextOK, Invited, Known
<1> QED BY <1>1, <1>3, <1>4, <1>5, <1>6, <1>7, UsersStay, VerificationsStay DEF IInv

\* The status or expiry of one changes.
LEMMA InvitationChanged ==
    ASSUME IInv, Assumptions, NEW i \in Invitations, NEW row \in InvitationRow,
           invitation[i] # None, row.business = invitation[i].business,
           row.phone = invitation[i].phone, row.email = invitation[i].email,
           row.status = "accepted" => row.acceptedBy # None /\ membership[row.business][row.acceptedBy] # None,
           invitation' = [invitation EXCEPT ![i] = row],
           UNCHANGED <<user, membership, verification, proven, stops>>
    PROVE  /\ Grows /\ VerificationInv' /\ InvitationInv' /\ AcceptedIsMember'
           /\ IdentifiersUnique' /\ PhonesProven'
           /\ request' \in [Requests -> Context \cup {None}] => TypeOK'
<1>1. /\ invitation'[i] = row /\ row # None
      /\ \A j \in Invitations \ {i} : invitation'[j] = invitation[j]
  BY DEF IInv, TypeOK, Assumptions, NoneAssumption
<1>2. Grows
  BY <1>1 DEF Grows
<1>3. InvitationInv'
  BY <1>1 DEF IInv, InvitationInv, Channel
<1>4. AcceptedIsMember'
  BY <1>1 DEF IInv, AcceptedIsMember
<1>5. request' \in [Requests -> Context \cup {None}] => TypeOK'
  BY DEF IInv, TypeOK
<1> QED BY <1>2, <1>3, <1>4, <1>5, UsersStay, VerificationsStay

LEMMA InvitationSteps ==
    ASSUME IInv, Assumptions, NEW i \in Invitations,
           ExpireInvitation(i) \/ \E b \in Businesses, u \in Users : Revoke(b, u, i)
    PROVE  IInv'
<1>1. invitation[i] \in InvitationRow /\ Pending(i) /\ UNCHANGED <<user, membership, verification, request, stops, proven>>
  BY DEF Revoke, RevokeInvitation, ExpireInvitation, Pending, IInv, TypeOK
<1>2. PICK row \in InvitationRow :
        /\ invitation' = [invitation EXCEPT ![i] = row]
        /\ row.business = invitation[i].business /\ row.phone = invitation[i].phone
        /\ row.email = invitation[i].email /\ row.status # "accepted"
  <2>1. CASE \E b \in Businesses, u \in Users : Revoke(b, u, i)
    <3> DEFINE row == [invitation[i] EXCEPT !.status = "revoked"]
    <3>1. row \in InvitationRow /\ invitation' = [invitation EXCEPT ![i] = row]
      BY <1>1, <2>1 DEF Revoke, RevokeInvitation, InvitationRow, IInv, TypeOK
    <3> QED BY <1>1, <3>1 DEF InvitationRow
  <2>2. CASE ExpireInvitation(i)
    <3> DEFINE row == [invitation[i] EXCEPT !.expired = TRUE]
    <3>1. row \in InvitationRow /\ invitation' = [invitation EXCEPT ![i] = row]
      BY <1>1, <2>2 DEF ExpireInvitation, InvitationRow, IInv, TypeOK
    <3> QED BY <1>1, <3>1 DEF InvitationRow, Pending
  <2> QED BY <2>1, <2>2
<1>3. /\ Grows /\ VerificationInv' /\ InvitationInv' /\ AcceptedIsMember'
      /\ IdentifiersUnique' /\ PhonesProven'
      /\ request' \in [Requests -> Context \cup {None}] => TypeOK'
  BY <1>1, <1>2, InvitationChanged DEF Pending
<1>4. TypeOK'
  BY <1>1, <1>3 DEF IInv, TypeOK
<1>5. RequestInv'
  <2> SUFFICES ASSUME NEW q \in Requests, request[q] # None PROVE ContextOK(request[q])'
    BY <1>1 DEF RequestInv
  <2>1. PICK c \in Context : request[q] = c /\ ContextOK(c)
    BY DEF IInv, TypeOK, RequestInv
  <2>2. ContextOK(c)'
    BY <1>3, <2>1, ContextStays
  <2> QED BY <1>1, <2>1, <2>2 DEF ContextOK, Invited, Known
<1> QED BY <1>3, <1>4, <1>5 DEF IInv

LEMMA MarksAccepted ==
    ASSUME IInv, Assumptions, NEW q \in Requests, markAccepted(q)
    PROVE  IInv'
<1> DEFINE i == request[q].invitation
           u == request[q].user
           row == [invitation[i] EXCEPT !.status = "accepted", !.acceptedBy = u]
<1>1. /\ request[q] \in Context /\ ContextOK(request[q]) /\ request[q].at = "accepting"
      /\ request' = [request EXCEPT ![q] = None]
      /\ UNCHANGED <<user, membership, verification, proven, stops>>
  BY DEF markAccepted, Answer, At, IInv, TypeOK, RequestInv
<1>2. i \in Invitations /\ u \in Users /\ u # None /\ invitation[i] \in InvitationRow /\ invitation[i] # None
      /\ membership[invitation[i].business][u] # None
  BY <1>1 DEF ContextOK, Invited, Known, Context, IInv, TypeOK
<1>3. CASE UNCHANGED invitation
  BY <1>1, <1>3, QuietStep DEF rows, IInv, TypeOK
<1>4. CASE AcceptInvitation(i, u)
  <2>1. row \in InvitationRow /\ invitation' = [invitation EXCEPT ![i] = row]
    BY <1>2, <1>4 DEF AcceptInvitation, InvitationRow, IInv, TypeOK
  <2>2. /\ row.business = invitation[i].business /\ row.phone = invitation[i].phone
        /\ row.email = invitation[i].email /\ row.acceptedBy = u
    BY <1>2 DEF InvitationRow
  <2> HIDE DEF row
  <2>3. /\ Grows /\ VerificationInv' /\ InvitationInv' /\ AcceptedIsMember'
        /\ IdentifiersUnique' /\ PhonesProven'
        /\ request' \in [Requests -> Context \cup {None}] => TypeOK'
    BY <1>1, <1>2, <2>1, <2>2, InvitationChanged
  <2>4. TypeOK'
    BY <1>1, <2>3 DEF IInv, TypeOK
  <2>5. request'[q] = None /\ \A r \in Requests \ {q} : request'[r] = request[r]
    BY <1>1 DEF IInv, TypeOK
  <2>6. RequestInv'
    BY <2>3, <2>5, RequestsStay
  <2> QED BY <2>3, <2>4, <2>6 DEF IInv
<1> QED BY <1>3, <1>4 DEF markAccepted

(***************************************************************************)
(* Steps on a verification.                                                *)
(***************************************************************************)

\* One is stored, or the attempts or the flags of one change.
LEMMA VerificationChanged ==
    ASSUME IInv, Assumptions, NEW v \in Verifications, NEW row \in VerificationRow,
           user[row.user] # None,
           verification[v] # None => /\ row.user = verification[v].user
                                     /\ row.identifier = verification[v].identifier,
           verification' = [verification EXCEPT ![v] = row],
           UNCHANGED <<user, membership, invitation, proven, stops>>
    PROVE  /\ Grows /\ VerificationInv' /\ InvitationInv' /\ AcceptedIsMember'
           /\ IdentifiersUnique' /\ PhonesProven'
           /\ request' \in [Requests -> Context \cup {None}] => TypeOK'
<1>1. /\ verification'[v] = row /\ row # None
      /\ \A w \in Verifications \ {v} : verification'[w] = verification[w]
  BY DEF IInv, TypeOK, Assumptions, NoneAssumption
<1>2. Grows
  BY <1>1 DEF Grows
<1>3. VerificationInv'
  BY <1>1 DEF IInv, VerificationInv
<1>4. request' \in [Requests -> Context \cup {None}] => TypeOK'
  BY DEF IInv, TypeOK
<1> QED BY <1>2, <1>3, <1>4, UsersStay, InvitationsStay

LEMMA VerificationExpires ==
    ASSUME IInv, Assumptions, NEW v \in Verifications, ExpireVerification(v)
    PROVE  IInv'
<1> DEFINE row == [verification[v] EXCEPT !.expired = TRUE]
<1>1. verification[v] # None /\ verification[v] \in VerificationRow
      /\ verification' = [verification EXCEPT ![v] = row]
      /\ UNCHANGED <<user, membership, invitation, proven, stops, request>>
  BY DEF ExpireVerification, Exists, IInv, TypeOK
<1>2. row \in VerificationRow /\ row.user = verification[v].user
      /\ row.identifier = verification[v].identifier
  BY <1>1 DEF VerificationRow
<1>3. user[row.user] # None
  BY <1>1, <1>2 DEF IInv, VerificationInv
<1> HIDE DEF row
<1>4. /\ Grows /\ VerificationInv' /\ InvitationInv' /\ AcceptedIsMember'
      /\ IdentifiersUnique' /\ PhonesProven'
      /\ request' \in [Requests -> Context \cup {None}] => TypeOK'
  BY <1>1, <1>2, <1>3, VerificationChanged
<1>5. TypeOK'
  BY <1>1, <1>4 DEF IInv, TypeOK
<1>6. RequestInv'
  <2> SUFFICES ASSUME NEW q \in Requests, request[q] # None PROVE ContextOK(request[q])'
    BY <1>1 DEF RequestInv
  <2>1. PICK c \in Context : request[q] = c /\ ContextOK(c)
    BY DEF IInv, TypeOK, RequestInv
  <2>2. ContextOK(c)'
    BY <1>4, <2>1, ContextStays
  <2> QED BY <1>1, <2>1, <2>2 DEF ContextOK, Invited, Known
<1> QED BY <1>4, <1>5, <1>6 DEF IInv

\* The last statement of a request, on a verification.
LEMMA EndsWithVerification ==
    ASSUME IInv, Assumptions, NEW v \in Verifications, NEW row \in VerificationRow,
           NEW q \in Requests, Answer(q),
           user[row.user] # None,
           verification[v] # None => /\ row.user = verification[v].user
                                     /\ row.identifier = verification[v].identifier,
           verification' = [verification EXCEPT ![v] = row],
           UNCHANGED <<user, membership, invitation, proven, stops>>
    PROVE  IInv'
<1>1. /\ request'[q] = None /\ request' \in [Requests -> Context \cup {None}]
      /\ \A r \in Requests \ {q} : request'[r] = request[r]
  BY DEF IInv, TypeOK, Answer
<1>2. /\ Grows /\ VerificationInv' /\ InvitationInv' /\ AcceptedIsMember'
      /\ IdentifiersUnique' /\ PhonesProven'
      /\ request' \in [Requests -> Context \cup {None}] => TypeOK'
  BY VerificationChanged
<1>3. RequestInv'
  BY <1>1, <1>2, RequestsStay
<1>4. TypeOK'
  BY <1>1, <1>2
<1> QED BY <1>2, <1>3, <1>4 DEF IInv

LEMMA StoresVerification ==
    ASSUME IInv, Assumptions, NEW q \in Requests, NEW v \in Verifications, StoreVerification(q, v)
    PROVE  IInv'
<1>1. request[q] \in Context /\ Known(request[q]) /\ request[q].identifier # None
  BY DEF StoreVerification, At, IInv, TypeOK, RequestInv, ContextOK
<1>2. request[q].user \in Users /\ user[request[q].user] # None /\ request[q].identifier \in Identifiers
  BY <1>1 DEF Known, Context
<1>3. PICK sent \in BOOLEAN :
          CreateIdentityVerification(v, request[q].user, request[q].identifier, sent)
  BY DEF StoreVerification
<1> DEFINE row == [user |-> request[q].user, identifier |-> request[q].identifier, attempts |-> 0,
                   wrong |-> 0, expired |-> FALSE, delivered |-> sent, live |-> TRUE]
<1>4. row \in VerificationRow /\ row.user = request[q].user
  BY <1>2 DEF VerificationRow
<1>5. verification[v] = None /\ verification' = [verification EXCEPT ![v] = row]
  BY <1>3 DEF CreateIdentityVerification
<1>6. Answer(q) /\ UNCHANGED <<user, membership, invitation, proven, stops>>
  BY DEF StoreVerification
<1> HIDE DEF row
<1> QED BY <1>2, <1>4, <1>5, <1>6, EndsWithVerification

LEMMA CountsWrongCode ==
    ASSUME IInv, Assumptions, NEW q \in Requests, CountWrongCode(q)
    PROVE  IInv'
<1> DEFINE v == request[q].verification
           row == [verification[v] EXCEPT !.attempts = @ + 1]
<1>1. Answer(q) /\ UNCHANGED <<user, membership, invitation, proven, stops>>
  BY DEF CountWrongCode
<1>2. v \in Verifications /\ verification[v] \in VerificationRow /\ verification[v] # None
  BY DEF CountWrongCode, At, IInv, TypeOK, RequestInv, ContextOK, Context
<1>3. CASE UNCHANGED verification
  BY <1>1, <1>3, QuietStep DEF rows, Answer, IInv, TypeOK
<1>4. CASE verification' = [verification EXCEPT ![v] = row]
  <2>1. row \in VerificationRow /\ row.user = verification[v].user
        /\ row.identifier = verification[v].identifier
    BY <1>2 DEF VerificationRow
  <2>2. user[row.user] # None
    BY <1>2, <2>1 DEF IInv, VerificationInv
  <2> HIDE DEF row
  <2> QED BY <1>1, <1>2, <1>4, <2>1, <2>2, EndsWithVerification
<1>5. \/ UNCHANGED verification
      \/ verification' = [verification EXCEPT ![v].attempts = @ + 1]
  BY DEF CountWrongCode, IncrementIdentityVerificationAttempts
<1>6. [verification EXCEPT ![v].attempts = @ + 1] = [verification EXCEPT ![v] = row]
  BY <1>2 DEF IInv, TypeOK
<1> QED BY <1>3, <1>4, <1>5, <1>6

LEMMA DeletesConfirmed ==
    ASSUME IInv, Assumptions, NEW q \in Requests, DeleteConfirmed(q)
    PROVE  IInv'
<1> DEFINE v == request[q].verification
           row == [verification[v] EXCEPT !.live = FALSE]
<1>1. /\ request[q] \in Context /\ ContextOK(request[q]) /\ request[q].at = "cleaning"
      /\ UNCHANGED <<user, membership, invitation, proven, stops>>
  BY DEF DeleteConfirmed, At, IInv, TypeOK, RequestInv
<1>2. v \in Verifications /\ verification[v] \in VerificationRow /\ verification[v] # None
  BY <1>1 DEF IInv, TypeOK, ContextOK, Context
<1>3. PICK c \in Context \cup {None} :
          /\ request' = [request EXCEPT ![q] = c]
          /\ c = None \/ ContextOK(c)
  <2>1. CASE Answer(q)
    BY <2>1 DEF Answer
  <2>2. CASE request[q].invitation # None /\ Proceed(q, "reading")
    <3> DEFINE d == [request[q] EXCEPT !.at = "reading"]
    <3>1. d \in Context /\ ContextOK(d)
      BY <1>1, <2>2 DEF Context, ContextOK, Invited, Known
    <3>2. request' = [request EXCEPT ![q] = d]
      BY <2>2 DEF Proceed, IInv, TypeOK
    <3> QED BY <3>1, <3>2
  <2> QED BY <2>1, <2>2 DEF DeleteConfirmed
<1>4. CASE UNCHANGED verification
  BY <1>1, <1>3, <1>4, QuietStep DEF rows, IInv, TypeOK
<1>5. CASE verification' = [verification EXCEPT ![v] = row]
  <2>1. row \in VerificationRow /\ row.user = verification[v].user
        /\ row.identifier = verification[v].identifier
    BY <1>2 DEF VerificationRow
  <2>2. user[row.user] # None
    BY <1>2, <2>1 DEF IInv, VerificationInv
  <2> HIDE DEF row
  <2>3. /\ Grows /\ VerificationInv' /\ InvitationInv' /\ AcceptedIsMember'
        /\ IdentifiersUnique' /\ PhonesProven'
        /\ request' \in [Requests -> Context \cup {None}] => TypeOK'
    BY <1>1, <1>2, <1>5, <2>1, <2>2, VerificationChanged
  <2>4. /\ request'[q] = c /\ request' \in [Requests -> Context \cup {None}]
        /\ \A r \in Requests \ {q} : request'[r] = request[r]
    BY <1>3 DEF IInv, TypeOK
  <2>5. c = None \/ ContextOK(c)'
    BY <1>3, <2>3, ContextStays
  <2>6. RequestInv'
    BY <2>3, <2>4, <2>5, RequestsStay
  <2>7. TypeOK'
    BY <2>3, <2>4
  <2> QED BY <2>3, <2>6, <2>7 DEF IInv
<1>6. \/ UNCHANGED verification
      \/ verification' = [verification EXCEPT ![v].live = FALSE]
  BY DEF DeleteConfirmed, DeleteIdentityVerification
<1>7. [verification EXCEPT ![v].live = FALSE] = [verification EXCEPT ![v] = row]
  BY <1>2 DEF IInv, TypeOK
<1> QED BY <1>4, <1>5, <1>6, <1>7

\* The first: the code is compared, and perhaps wrong.
LEMMA Confirming ==
    ASSUME IInv, Assumptions, NEW q \in Requests, NEW u \in Users, NEW v \in Verifications,
           NEW i \in Invitations \cup {None}, confirmIdentityVerification(q, u, v, i)
    PROVE  IInv'
<1>1. /\ verification[v] # None /\ verification[v] \in VerificationRow /\ verification[v].user = u
      /\ user[u] # None /\ v # None /\ u # None
      /\ i # None => i \in Invitations /\ invitation[i] # None
      /\ UNCHANGED <<user, membership, invitation, stops>>
  BY DEF confirmIdentityVerification, MayConfirm, Exists, IInv, TypeOK, GetInvitationByTokenHash,
         Assumptions, NoneAssumption
<1>2. CASE /\ Begin(q, [NewRequest EXCEPT !.at = "counting", !.user = u, !.verification = v])
           /\ verification' = [verification EXCEPT ![v].wrong = @ + 1]
           /\ UNCHANGED proven
  <2> DEFINE c == [NewRequest EXCEPT !.at = "counting", !.user = u, !.verification = v]
             row == [verification[v] EXCEPT !.wrong = @ + 1]
  <2>1. c \in Context /\ ContextOK(c)
    BY <1>1 DEF Context, ContextOK, NewRequest
  <2>2. row \in VerificationRow /\ row.user = u /\ row.identifier = verification[v].identifier
    BY <1>1 DEF VerificationRow
  <2>3. verification' = [verification EXCEPT ![v] = row]
    BY <1>1, <1>2 DEF IInv, TypeOK
  <2>4. request' = [request EXCEPT ![q] = c]
    BY <1>2 DEF Begin
  <2> HIDE DEF row, c
  <2>5. /\ Grows /\ VerificationInv' /\ InvitationInv' /\ AcceptedIsMember'
        /\ IdentifiersUnique' /\ PhonesProven'
        /\ request' \in [Requests -> Context \cup {None}] => TypeOK'
    <3>1. /\ user[row.user] # None /\ row.user = verification[v].user
          /\ UNCHANGED <<user, membership, invitation, proven, stops>>
      BY <1>1, <1>2, <2>2
    <3> QED BY <2>2, <2>3, <3>1, VerificationChanged
  <2>6. /\ request'[q] = c /\ request' \in [Requests -> Context \cup {None}]
        /\ \A r \in Requests \ {q} : request'[r] = request[r]
    BY <2>1, <2>4 DEF IInv, TypeOK
  <2>7. ContextOK(c)'
    BY <2>1, <2>5, ContextStays
  <2>8. RequestInv'
    BY <2>1, <2>5, <2>6, <2>7, RequestsStay
  <2>9. TypeOK'
    BY <2>5, <2>6
  <2> QED BY <2>5, <2>8, <2>9 DEF IInv
<1>3. CASE /\ Begin(q, [NewRequest EXCEPT !.at = "attaching", !.user = u,
                                          !.verification = v, !.invitation = i])
           /\ proven' = [proven EXCEPT ![u] = @ \cup {verification[v].identifier}]
           /\ UNCHANGED verification
  <2>1. PICK c \in Context :
            /\ request' = [request EXCEPT ![q] = c]
            /\ c.at = "attaching" /\ c.user = u /\ c.verification = v /\ c.invitation = i
    <3> DEFINE d == [NewRequest EXCEPT !.at = "attaching", !.user = u,
                                       !.verification = v, !.invitation = i]
    <3>1. d \in Context /\ d.at = "attaching" /\ d.user = u /\ d.verification = v /\ d.invitation = i
      BY DEF Context, NewRequest
    <3>2. request' = [request EXCEPT ![q] = d]
      BY <1>3 DEF Begin
    <3> HIDE DEF d
    <3> QED BY <3>1, <3>2
  <2>2. /\ proven' \in [Users -> SUBSET Identifiers]
        /\ verification[v].identifier \in proven'[u]
        /\ \A w \in Users : proven[w] \subseteq proven'[w]
    BY <1>1, <1>3 DEF IInv, TypeOK, VerificationRow
  <2>3. /\ request'[q] = c /\ request' \in [Requests -> Context \cup {None}]
        /\ \A r \in Requests \ {q} : request'[r] = request[r]
    BY <2>1 DEF IInv, TypeOK
  <2>4. Grows /\ TypeOK'
    BY <1>1, <1>3, <2>2, <2>3 DEF Grows, IInv, TypeOK
  <2>5. ContextOK(c)'
    BY <1>1, <1>3, <2>1, <2>2 DEF ContextOK, Invited, Known
  <2>6. RequestInv'
    BY <2>3, <2>4, <2>5, RequestsStay
  <2>7. IdentifiersUnique' /\ PhonesProven'
    BY <1>1, <2>2 DEF IInv, IdentifiersUnique, PhonesProven, IdentifiersOf
  <2> QED BY <1>1, <1>3, <2>4, <2>6, <2>7, InvitationsStay, VerificationsStay DEF IInv
<1> QED BY <1>2, <1>3 DEF confirmIdentityVerification

(***************************************************************************)
(* Steps that change an account.                                           *)
(***************************************************************************)
LEMMA CreatesInvitedUser ==
    ASSUME IInv, Assumptions, NEW q \in Requests, CreateInvitedUser(q)
    PROVE  IInv'
<1> DEFINE i == request[q].invitation
<1>1. /\ request[q] \in Context /\ ContextOK(request[q]) /\ request[q].at = "creating"
      /\ UNCHANGED <<membership, invitation, verification, stops>>
  BY DEF CreateInvitedUser, At, IInv, TypeOK, RequestInv
<1>2. i # None /\ i \in Invitations /\ invitation[i] # None /\ invitation[i] \in InvitationRow
  BY <1>1 DEF ContextOK, Invited, Context, IInv, TypeOK
<1> DEFINE sentTo == invitation[i].phone
           email == invitation[i].email
<1>3. sentTo \in Phones \cup {None} /\ email \in Emails \cup {None} /\ Channel(i) # None
      /\ (sentTo # None => Channel(i) = sentTo) /\ Channel(i) \in Identifiers
  BY <1>2 DEF InvitationRow, Channel, IInv, InvitationInv, Identifiers
<1>4. CASE \E u \in Users :
            /\ CreateUser(u, sentTo, email)
            /\ proven' = [proven EXCEPT ![u] = {Channel(i)}]
            /\ request' = [request EXCEPT ![q].at = "admitting", ![q].user = u]
  <2>1. PICK u \in Users :
            /\ CreateUser(u, sentTo, email)
            /\ proven' = [proven EXCEPT ![u] = {Channel(i)}]
            /\ request' = [request EXCEPT ![q].at = "admitting", ![q].user = u]
    BY <1>4
  <2>2. PICK c \in Context : /\ request' = [request EXCEPT ![q] = c]
                             /\ c.at = "admitting" /\ c.user = u /\ c.invitation = i
    <3> DEFINE d == [request[q] EXCEPT !.at = "admitting", !.user = u]
    <3>1. d \in Context /\ d.at = "admitting" /\ d.user = u /\ d.invitation = i
      BY <1>1 DEF Context
    <3>2. request' = [request EXCEPT ![q] = d]
      BY <1>1, <2>1 DEF IInv, TypeOK
    <3> HIDE DEF d
    <3> QED BY <3>1, <3>2
  <2>3. PICK row \in UserRow : /\ row # None /\ row.phone = sentTo /\ row.email = email
                               /\ user' = [user EXCEPT ![u] = row]
    <3> DEFINE d == [phone |-> sentTo, email |-> email]
    <3>1. d \in UserRow /\ d.phone = sentTo /\ d.email = email
      BY <1>3 DEF UserRow
    <3>2. user' = [user EXCEPT ![u] = d]
      BY <2>1 DEF CreateUser
    <3> HIDE DEF d
    <3> QED BY <3>1, <3>2 DEF Assumptions, NoneAssumption
  <2>4. /\ user[u] = None /\ user'[u] = row /\ proven'[u] = {Channel(i)}
        /\ \A w \in Users \ {u} : user'[w] = user[w] /\ proven'[w] = proven[w]
        /\ user' \in [Users -> UserRow \cup {None}] /\ proven' \in [Users -> SUBSET Identifiers]
    BY <1>3, <2>1, <2>3 DEF CreateUser, IInv, TypeOK
  <2>5. /\ request'[q] = c /\ request' \in [Requests -> Context \cup {None}]
        /\ \A r \in Requests \ {q} : request'[r] = request[r]
    BY <2>2 DEF IInv, TypeOK
  <2>6. Grows /\ TypeOK'
    BY <1>1, <2>4, <2>5 DEF Grows, IInv, TypeOK
  <2>7. ContextOK(c)'
    BY <1>1, <1>2, <2>2, <2>3, <2>4 DEF ContextOK, Invited, Known, Assumptions, NoneAssumption
  <2>8. RequestInv'
    BY <2>5, <2>6, <2>7, RequestsStay
  <2>9. PhonesProven'
    <3> SUFFICES ASSUME NEW w \in Users PROVE (IdentifiersOf(w) \cap Phones \subseteq proven[w])'
      BY DEF PhonesProven
    <3>1. CASE w = u
      BY <1>3, <2>3, <2>4, <3>1 DEF IdentifiersOf, Assumptions, IdentifiersAssumption
    <3>2. CASE w # u
      BY <2>4, <3>2 DEF IInv, PhonesProven, IdentifiersOf
    <3> QED BY <3>1, <3>2
  <2>10. \A w \in Users : user[w] # None =>
            /\ sentTo # None => user[w].phone # sentTo
            /\ email # None => user[w].email # email
    BY <2>1 DEF CreateUser, GetUserByPhone, GetUserByEmail
  <2>11. \A w \in Users \ {u} : {sentTo, email} \cap IdentifiersOf(w) \subseteq {None}
    BY <1>3, <2>10 DEF IdentifiersOf, IInv, TypeOK, UserRow, Assumptions, IdentifiersAssumption, Identifiers
  <2>12. IdentifiersUnique'
    BY <2>3, <2>4, <2>11 DEF IInv, IdentifiersUnique, IdentifiersOf
  <2> QED BY <1>1, <2>6, <2>8, <2>9, <2>12, InvitationsStay, VerificationsStay DEF IInv
<1>5. CASE Answer(q) /\ UNCHANGED <<user, proven>>
  BY <1>1, <1>5, QuietStep DEF Answer, rows, IInv, TypeOK
<1> QED BY <1>4, <1>5 DEF CreateInvitedUser

LEMMA Confirms ==
    ASSUME IInv, Assumptions, NEW q \in Requests, Confirm(q)
    PROVE  IInv'
<1> DEFINE v == request[q].verification
<1>1. /\ request[q] \in Context /\ ContextOK(request[q]) /\ request[q].at = "attaching"
      /\ UNCHANGED <<membership, invitation, verification, proven, stops>>
  BY DEF Confirm, At, IInv, TypeOK, RequestInv
<1>2. PICK u \in Users, x \in Identifiers :
          /\ u = verification[v].user /\ x = verification[v].identifier
          /\ user[u] # None /\ user[u] \in UserRow /\ x \in proven[u]
  <2>1. v \in Verifications /\ verification[v] # None /\ verification[v] \in VerificationRow
    BY <1>1 DEF ContextOK, Context, IInv, TypeOK
  <2> QED BY <1>1, <2>1 DEF ContextOK, IInv, TypeOK, VerificationInv, VerificationRow
<1>3. CASE /\ AddPhoneToUser(u, x) \/ AddEmailToUser(u, x)
           /\ Proceed(q, "cleaning")
  <2>1. PICK c \in Context : /\ request' = [request EXCEPT ![q] = c]
                             /\ c.at = "cleaning" /\ ContextOK(c)
    <3> DEFINE d == [request[q] EXCEPT !.at = "cleaning"]
    <3>1. d \in Context /\ d.at = "cleaning" /\ ContextOK(d)
      BY <1>1 DEF Context, ContextOK, Invited, Known
    <3>2. request' = [request EXCEPT ![q] = d]
      BY <1>3 DEF Proceed, IInv, TypeOK
    <3> HIDE DEF d
    <3> QED BY <3>1, <3>2
  <2>2. PICK row \in UserRow :
            /\ user' = [user EXCEPT ![u] = row]
            /\ {row.phone, row.email} \subseteq {user[u].phone, user[u].email, x}
            /\ \A w \in Users \ {u} : user[w] # None => x \notin {user[w].phone, user[w].email}
    <3>1. CASE AddPhoneToUser(u, x)
      <4> DEFINE d == [user[u] EXCEPT !.phone = x]
      <4>1. d \in UserRow /\ {d.phone, d.email} \subseteq {user[u].phone, user[u].email, x}
        BY <1>2, <3>1 DEF UserRow, AddPhoneToUser
      <4>2. user' = [user EXCEPT ![u] = d]
        BY <1>2, <3>1 DEF AddPhoneToUser, SetUserPhone, IInv, TypeOK
      <4>3. \A w \in Users \ {u} : user[w] # None => x # user[w].phone
        BY <1>2, <3>1 DEF AddPhoneToUser, SetUserPhone, GetUserByPhone, Assumptions, IdentifiersAssumption
      <4>4. \A w \in Users \ {u} : user[w] # None => x # user[w].email
        BY <1>2, <3>1 DEF AddPhoneToUser, IInv, TypeOK, UserRow, Assumptions, IdentifiersAssumption, Identifiers
      <4> HIDE DEF d
      <4> QED BY <4>1, <4>2, <4>3, <4>4
    <3>2. CASE AddEmailToUser(u, x)
      <4> DEFINE d == [user[u] EXCEPT !.email = x]
      <4>1. d \in UserRow /\ {d.phone, d.email} \subseteq {user[u].phone, user[u].email, x}
        BY <1>2, <3>2 DEF UserRow, AddEmailToUser
      <4>2. user' = [user EXCEPT ![u] = d]
        BY <1>2, <3>2 DEF AddEmailToUser, SetUserEmail, IInv, TypeOK
      <4>3. \A w \in Users \ {u} : user[w] # None => x # user[w].email
        BY <1>2, <3>2 DEF AddEmailToUser, SetUserEmail, GetUserByEmail, Assumptions, IdentifiersAssumption
      <4>4. \A w \in Users \ {u} : user[w] # None => x # user[w].phone
        BY <1>2, <3>2 DEF AddEmailToUser, IInv, TypeOK, UserRow, Assumptions, IdentifiersAssumption, Identifiers
      <4> HIDE DEF d
      <4> QED BY <4>1, <4>2, <4>3, <4>4
    <3> QED BY <1>3, <3>1, <3>2
  <2>3. /\ row # None /\ user'[u] = row /\ \A w \in Users \ {u} : user'[w] = user[w]
        /\ user' \in [Users -> UserRow \cup {None}]
    BY <1>2, <2>2 DEF IInv, TypeOK, Assumptions, NoneAssumption
  <2>4. /\ request'[q] = c /\ request' \in [Requests -> Context \cup {None}]
        /\ \A r \in Requests \ {q} : request'[r] = request[r]
    BY <2>1 DEF IInv, TypeOK
  <2>5. Grows /\ TypeOK'
    BY <1>1, <2>3, <2>4 DEF Grows, IInv, TypeOK
  <2>6. ContextOK(c)'
    BY <2>1, <2>5, ContextStays
  <2>7. RequestInv'
    BY <2>4, <2>5, <2>6, RequestsStay
  <2>8. IdentifiersOf(u)' \subseteq IdentifiersOf(u) \cup {x}
    BY <1>2, <2>2, <2>3 DEF IdentifiersOf
  <2>9. \A w \in Users \ {u} : IdentifiersOf(w)' = IdentifiersOf(w) /\ x \notin IdentifiersOf(w)
    BY <2>2, <2>3 DEF IdentifiersOf
  <2>10. PhonesProven'
    <3> SUFFICES ASSUME NEW w \in Users PROVE (IdentifiersOf(w))' \cap Phones \subseteq proven'[w]
      BY DEF PhonesProven
    <3> QED BY <1>1, <1>2, <2>8, <2>9 DEF IInv, PhonesProven
  <2>11. IdentifiersUnique'
    <3> SUFFICES ASSUME NEW w \in Users, NEW y \in Users, w # y
                 PROVE  IdentifiersOf(w)' \cap IdentifiersOf(y)' = {}
      BY DEF IdentifiersUnique
    <3> QED BY <2>8, <2>9 DEF IInv, IdentifiersUnique
  <2> QED BY <1>1, <2>5, <2>7, <2>10, <2>11, InvitationsStay, VerificationsStay DEF IInv
<1>4. CASE Answer(q) /\ UNCHANGED user
  BY <1>1, <1>4, QuietStep DEF Answer, rows, IInv, TypeOK
<1> QED BY <1>2, <1>3, <1>4 DEF Confirm

(***************************************************************************)
(* Wrong codes.                                                            *)
(***************************************************************************)
Counting(v) == {q \in Requests : At(q, "counting") /\ request[q].verification = v}

\* No request counts for another verification, and few count at a time: what
\* has been compared is in the row, or in one of them, or was cut off.
CountedFor(v) == verification[v].wrong <= verification[v].attempts + stops + Cardinality(Counting(v))
CountingInv == \A v \in Verifications : IsFiniteSet(Counting(v)) /\ (Exists(v) => CountedFor(v))

LEMMA CountingStays ==
    ASSUME TypeOK, NEW q \in Requests, NEW c \in Context \cup {None}, ~At(q, "counting"),
           request' = [request EXCEPT ![q] = c], c = None \/ c.at # "counting"
    PROVE  \A v \in Verifications : Counting(v)' = Counting(v)
<1>1. request'[q] = c /\ \A r \in Requests \ {q} : request'[r] = request[r]
  BY DEF TypeOK
<1> QED BY <1>1 DEF Counting, At

LEMMA CountingEnds ==
    ASSUME TypeOK, NEW q \in Requests, Answer(q)
    PROVE  \A v \in Verifications : Counting(v)' = Counting(v) \ {q}
<1>1. request'[q] = None /\ \A r \in Requests \ {q} : request'[r] = request[r]
  BY DEF TypeOK, Answer
<1> QED BY <1>1 DEF Counting, At

LEMMA CountingBegins ==
    ASSUME TypeOK, Assumptions, NEW q \in Requests, NEW c \in Context, c.at = "counting", Begin(q, c)
    PROVE  /\ q \notin Counting(c.verification)
           /\ \A v \in Verifications :
                 Counting(v)' = Counting(v) \cup (IF v = c.verification THEN {q} ELSE {})
<1>1. request'[q] = c /\ c # None /\ request[q] = None /\ \A r \in Requests \ {q} : request'[r] = request[r]
  BY DEF TypeOK, Begin, Assumptions, NoneAssumption
<1> QED BY <1>1 DEF Counting, At

\* The requests that count are finitely many and no row asks for more.
LEMMA CountersStay ==
    ASSUME CountingInv, \A v \in Verifications : Counting(v)' = Counting(v), stops' = stops,
           \A v \in Verifications : Exists(v)' =>
              Exists(v) /\ verification'[v].wrong = verification[v].wrong
                        /\ verification'[v].attempts = verification[v].attempts
    PROVE  CountingInv'
BY DEF CountingInv, CountedFor

LEMMA RowsLeftAlone ==
    ASSUME CountingInv, \A v \in Verifications : Counting(v)' = Counting(v), stops' = stops,
           verification' = verification
    PROVE  CountingInv'
BY CountersStay DEF Exists

\* Steps of a request that does not count, and of none.
LEMMA Uncounted ==
    ASSUME IInv, Assumptions, CountingInv, NEW q \in Requests,
           \/ \E i \in Invitations : GetByToken(q, i) \/ AcceptAsNewUser(q, i)
           \/ \E u \in Users, i \in Invitations : linkInvitationToExistingUser(q, u, i)
           \/ \E u \in Users, x \in Identifiers : startAddIdentifier(q, u, x)
           \/ AnswerExpired(q) \/ AcceptAsExistingUser(q) \/ MatchIdentifier(q)
           \/ Start(q) \/ CreateInvitedUser(q) \/ Confirm(q)
           \/ AdmitNewUser(q) \/ AddMembership(q) \/ markAccepted(q)
    PROVE  CountingInv'
<1> USE DEF NewRequest, Assumptions, NoneAssumption
<1>1. TypeOK /\ (request[q] # None => request[q] \in Context)
  BY DEF IInv, TypeOK
<1>2. ~At(q, "counting") /\ stops' = stops /\ verification' = verification
  <2>1. CASE \/ \E i \in Invitations : GetByToken(q, i) \/ AcceptAsNewUser(q, i)
             \/ \E u \in Users, i \in Invitations : linkInvitationToExistingUser(q, u, i)
             \/ \E u \in Users, x \in Identifiers : startAddIdentifier(q, u, x)
    BY <2>1 DEF GetByToken, AcceptAsNewUser, linkInvitationToExistingUser, startAddIdentifier, Begin, At, rows
  <2>2. CASE AnswerExpired(q) \/ AcceptAsExistingUser(q) \/ MatchIdentifier(q) \/ Start(q)
    BY <2>2 DEF AnswerExpired, AcceptAsExistingUser, MatchIdentifier, Start, At, rows
  <2>3. CASE CreateInvitedUser(q) \/ Confirm(q) \/ AdmitNewUser(q) \/ AddMembership(q) \/ markAccepted(q)
    BY <2>3 DEF CreateInvitedUser, Confirm, AdmitNewUser, AddMembership, markAccepted, At
  <2> QED BY <2>1, <2>2, <2>3
<1>3. \E c \in Context \cup {None} : (c = None \/ c.at # "counting") /\ request' = [request EXCEPT ![q] = c]
  <2> DEFINE To(c) == (c = None \/ c.at # "counting") /\ request' = [request EXCEPT ![q] = c]
  <2>1. ASSUME Answer(q) PROVE \E c \in Context \cup {None} : To(c)
    BY <2>1 DEF Answer
  <2>2. ASSUME NEW step \in {"reading", "storing", "joining", "accepting", "cleaning"}, Proceed(q, step),
               request[q] # None
        PROVE  \E c \in Context \cup {None} : To(c)
    <3>1. [request[q] EXCEPT !.at = step] \in Context
      BY <1>1, <2>2 DEF Context
    <3>2. To([request[q] EXCEPT !.at = step])
      BY <1>1, <2>2 DEF Proceed, Context
    <3> QED BY <3>1, <3>2
  <2>3. CASE \E i \in Invitations : GetByToken(q, i) \/ AcceptAsNewUser(q, i)
    <3>1. PICK i \in Invitations : GetByToken(q, i) \/ AcceptAsNewUser(q, i)
      BY <2>3
    <3>2. To([NewRequest EXCEPT !.at = "expired", !.invitation = i])
          \/ To([NewRequest EXCEPT !.at = "creating", !.invitation = i])
      BY <3>1 DEF GetByToken, AcceptAsNewUser, Begin
    <3> QED BY <3>2 DEF Context
  <2>4. CASE \E u \in Users, i \in Invitations : linkInvitationToExistingUser(q, u, i)
    <3>1. PICK u \in Users, i \in Invitations : linkInvitationToExistingUser(q, u, i)
      BY <2>4
    <3>2. To([NewRequest EXCEPT !.at = "linking", !.user = u, !.invitation = i])
      BY <3>1 DEF linkInvitationToExistingUser, Begin
    <3> QED BY <3>2 DEF Context
  <2>5. CASE \E u \in Users, x \in Identifiers : startAddIdentifier(q, u, x)
    <3>1. PICK u \in Users, x \in Identifiers : startAddIdentifier(q, u, x)
      BY <2>5
    <3>2. To([NewRequest EXCEPT !.at = "starting", !.user = u, !.identifier = x])
      BY <3>1 DEF startAddIdentifier, Begin
    <3> QED BY <3>2 DEF Context
  <2>6. CASE AnswerExpired(q) \/ AcceptAsExistingUser(q) \/ Start(q) \/ Confirm(q)
             \/ AdmitNewUser(q) \/ AddMembership(q) \/ markAccepted(q)
    BY <2>1, <2>2, <2>6 DEF AnswerExpired, AcceptAsExistingUser, Start, Confirm, AdmitNewUser, AddMembership,
       markAccepted, At
  <2>7. CASE MatchIdentifier(q)
    <3> DEFINE x == Channel(request[q].invitation)
    <3>1. CASE Proceed(q, "reading")
      BY <2>2, <2>7, <3>1 DEF MatchIdentifier, At
    <3>2. CASE request' = [request EXCEPT ![q].at = "starting", ![q].identifier = x]
      <4>1. request[q].invitation \in Invitations /\ invitation[request[q].invitation] \in InvitationRow
        BY <1>1, <2>7 DEF MatchIdentifier, At, IInv, RequestInv, ContextOK, Invited, TypeOK, Context
      <4>2. x \in Identifiers \cup {None}
        BY <4>1 DEF Channel, InvitationRow, Identifiers
      <4> HIDE DEF x
      <4>3. [request[q] EXCEPT !.at = "starting", !.identifier = x] \in Context
        BY <1>1, <2>7, <4>2 DEF MatchIdentifier, At, Context
      <4>4. To([request[q] EXCEPT !.at = "starting", !.identifier = x])
        BY <1>1, <2>7, <3>2 DEF MatchIdentifier, At, Context
      <4> QED BY <4>3, <4>4
    <3>3. \/ Proceed(q, "reading")
          \/ request' = [request EXCEPT ![q].at = "starting", ![q].identifier = Channel(request[q].invitation)]
      BY <2>7 DEF MatchIdentifier
    <3> QED BY <3>1, <3>2, <3>3
  <2>8. CASE CreateInvitedUser(q)
    <3>1. CASE Answer(q)
      BY <2>1, <3>1
    <3>2. ASSUME NEW u \in Users, request' = [request EXCEPT ![q].at = "admitting", ![q].user = u]
          PROVE  \E c \in Context \cup {None} : To(c)
      <4>1. [request[q] EXCEPT !.at = "admitting", !.user = u] \in Context
        BY <1>1, <2>8 DEF CreateInvitedUser, At, Context
      <4>2. To([request[q] EXCEPT !.at = "admitting", !.user = u])
        BY <1>1, <2>8, <3>2 DEF CreateInvitedUser, At, Context
      <4> QED BY <4>1, <4>2
    <3> QED BY <2>8, <3>1, <3>2 DEF CreateInvitedUser
  <2> QED BY <2>3, <2>4, <2>5, <2>6, <2>7, <2>8
<1> QED BY <1>1, <1>2, <1>3, CountingStays, RowsLeftAlone

LEMMA StoredUncounted ==
    ASSUME IInv, Assumptions, CountingInv, NEW q \in Requests, NEW v \in Verifications, StoreVerification(q, v)
    PROVE  CountingInv'
<1> USE DEF StoreVerification
<1>1. TypeOK /\ ~At(q, "counting")
  BY DEF IInv, At
<1>2. \A w \in Verifications : Counting(w)' = Counting(w)
  BY <1>1, CountingStays DEF Answer
<1>3. \A w \in Verifications \ {v} : Exists(w)' => Exists(w) /\ verification'[w] = verification[w]
  BY <1>1 DEF CreateIdentityVerification, TypeOK, Exists
<1>4. verification'[v].wrong = 0 /\ verification'[v].attempts = 0
  BY <1>1 DEF CreateIdentityVerification, TypeOK
<1>5. Cardinality(Counting(v)) \in Nat /\ stops' = stops /\ stops \in Nat
  BY <1>1, FS_CardinalityType DEF CountingInv, TypeOK, Assumptions, StopsAssumption
<1>6. \A w \in Verifications \ {v} : IsFiniteSet(Counting(w)) /\ (Exists(w)' => CountedFor(w)')
  BY <1>2, <1>3, <1>5 DEF CountingInv, CountedFor
<1>7. IsFiniteSet(Counting(v)) /\ CountedFor(v)'
  BY <1>2, <1>4, <1>5 DEF CountingInv, CountedFor
<1> QED BY <1>2, <1>6, <1>7 DEF CountingInv

LEMMA ConfirmingCounts ==
    ASSUME IInv, Assumptions, CountingInv, NEW q \in Requests, NEW u \in Users, NEW v \in Verifications,
           NEW i \in Invitations \cup {None}, confirmIdentityVerification(q, u, v, i)
    PROVE  CountingInv'
<1> USE DEF confirmIdentityVerification
<1>1. TypeOK /\ stops' = stops /\ stops \in Nat
  BY DEF IInv, TypeOK, Assumptions, StopsAssumption
<1>2. CASE verification' = verification
  <2> DEFINE c == [NewRequest EXCEPT !.at = "attaching", !.user = u, !.verification = v, !.invitation = i]
  <2>1. c \in Context /\ c.at # "counting" /\ request' = [request EXCEPT ![q] = c] /\ ~At(q, "counting")
    <3>1. [verification EXCEPT ![v].wrong = @ + 1] # verification
      <4>1. verification[v] \in VerificationRow
        BY <1>1 DEF TypeOK, MayConfirm, Exists
      <4>2. verification[v].wrong + 1 # verification[v].wrong
        BY <4>1 DEF VerificationRow
      <4>3. [verification EXCEPT ![v].wrong = @ + 1][v].wrong = verification[v].wrong + 1
        BY <1>1, <4>1 DEF TypeOK, VerificationRow
      <4> QED BY <4>2, <4>3
    <3>2. Begin(q, c)
      BY <1>2, <3>1
    <3>3. c \in Context /\ c.at = "attaching"
      BY DEF Context, NewRequest
    <3> HIDE DEF c
    <3> QED BY <3>2, <3>3 DEF Begin, At
  <2> HIDE DEF c
  <2>2. \A w \in Verifications : Counting(w)' = Counting(w)
    BY <1>1, <2>1, CountingStays
  <2> QED BY <1>1, <1>2, <2>2, RowsLeftAlone
<1>3. CASE verification' # verification
  <2> DEFINE c == [NewRequest EXCEPT !.at = "counting", !.user = u, !.verification = v]
  <2>1. Begin(q, c) /\ verification' = [verification EXCEPT ![v].wrong = @ + 1] /\ verification[v] \in VerificationRow
    BY <1>1, <1>3 DEF TypeOK, MayConfirm, Exists
  <2>2. c \in Context /\ c.at = "counting" /\ c.verification = v
    BY DEF Context, NewRequest
  <2> HIDE DEF c
  <2>3. q \notin Counting(v) /\ Counting(v)' = Counting(v) \cup {q}
        /\ \A w \in Verifications \ {v} : Counting(w)' = Counting(w)
    <3>1. \A w \in Verifications : Counting(w)' = Counting(w) \cup (IF w = v THEN {q} ELSE {})
      BY <1>1, <2>1, <2>2, CountingBegins
    <3>2. q \notin Counting(v)
      BY <1>1, <2>1, <2>2, CountingBegins
    <3> QED BY <3>1, <3>2
  <2>4. \A w \in Verifications \ {v} : verification'[w] = verification[w]
    BY <1>1, <2>1 DEF TypeOK
  <2>5. verification'[v].wrong = verification[v].wrong + 1 /\ verification'[v].attempts = verification[v].attempts
    BY <1>1, <2>1 DEF TypeOK, VerificationRow
  <2>6. IsFiniteSet(Counting(v)') /\ Cardinality(Counting(v)') = Cardinality(Counting(v)) + 1
        /\ Cardinality(Counting(v)) \in Nat
    BY <2>3, FS_AddElement, FS_CardinalityType DEF CountingInv
  <2>7. CountedFor(v)'
    <3>1. CountedFor(v) /\ verification[v].wrong \in Nat /\ verification[v].attempts \in Nat
      BY <2>1 DEF CountingInv, MayConfirm, VerificationRow
    <3> QED BY <1>1, <2>5, <2>6, <3>1 DEF CountedFor
  <2>8. \A w \in Verifications \ {v} : IsFiniteSet(Counting(w)') /\ (Exists(w)' => CountedFor(w)')
    BY <1>1, <2>3, <2>4 DEF CountingInv, Exists, CountedFor
  <2> QED BY <2>6, <2>7, <2>8 DEF CountingInv
<1> QED BY <1>2, <1>3

\* The row counts what the request no longer does, or the row is gone.
LEMMA WrongCodeCounted ==
    ASSUME IInv, Assumptions, CountingInv, NEW q \in Requests, CountWrongCode(q)
    PROVE  CountingInv'
<1> USE DEF CountWrongCode
<1>1. TypeOK /\ stops' = stops /\ stops \in Nat
  BY DEF IInv, TypeOK, Assumptions, StopsAssumption
<1>2. PICK v \in Verifications :
         v = request[q].verification /\ verification[v] \in VerificationRow /\ q \in Counting(v)
  BY <1>1 DEF IInv, RequestInv, ContextOK, At, TypeOK, Context, Counting
<1>3. \A w \in Verifications : Counting(w)' = Counting(w) \ {q} /\ (w # v => q \notin Counting(w))
  BY <1>1, <1>2, CountingEnds DEF Counting
<1>4. \A w \in Verifications : IsFiniteSet(Counting(w)')
  BY <1>3, FS_RemoveElement DEF CountingInv
<1>5. \A w \in Verifications \ {v} : verification'[w] = verification[w] /\ Counting(w)' = Counting(w)
  <2>1. \A w \in Verifications \ {v} : Counting(w)' = Counting(w)
    BY <1>3
  <2>2. \A w \in Verifications \ {v} : verification'[w] = verification[w]
    BY <1>1, <1>2 DEF IncrementIdentityVerificationAttempts, TypeOK
  <2> QED BY <2>1, <2>2
<1>6. \A w \in Verifications \ {v} : Exists(w)' => CountedFor(w)'
  BY <1>1, <1>5 DEF CountingInv, Exists, CountedFor
<1>7. ASSUME Exists(v)' PROVE CountedFor(v)'
  <2>1. Exists(v)
    BY <1>1, <1>2, <1>7 DEF IncrementIdentityVerificationAttempts, TypeOK, Exists
  <2>2. verification'[v].wrong = verification[v].wrong /\ verification'[v].attempts = verification[v].attempts + 1
    BY <1>1, <1>2, <2>1 DEF IncrementIdentityVerificationAttempts, TypeOK, VerificationRow
  <2>3. Cardinality(Counting(v)') = Cardinality(Counting(v)) - 1 /\ Cardinality(Counting(v)) \in Nat
    <3>1. IsFiniteSet(Counting(v)) /\ Counting(v)' = Counting(v) \ {q}
      BY <1>3 DEF CountingInv
    <3> QED BY <1>2, <3>1, FS_RemoveElement, FS_CardinalityType
  <2>4. CountedFor(v) /\ verification[v].wrong \in Nat /\ verification[v].attempts \in Nat
    BY <1>2, <2>1 DEF CountingInv, VerificationRow
  <2> QED BY <1>1, <2>2, <2>3, <2>4 DEF CountedFor
<1> QED BY <1>2, <1>4, <1>6, <1>7 DEF CountingInv

\* A request that is cut off may have been about to count.
LEMMA StoppedCounted ==
    ASSUME IInv, Assumptions, CountingInv, NEW q \in Requests, Stop(q)
    PROVE  CountingInv'
<1> USE DEF Stop, rows
<1>1. TypeOK /\ stops' = stops + 1 /\ stops \in Nat
  BY DEF IInv, TypeOK, Assumptions, StopsAssumption
<1> SUFFICES ASSUME NEW v \in Verifications
             PROVE  IsFiniteSet(Counting(v)') /\ (Exists(v)' => CountedFor(v)')
  BY DEF CountingInv
<1>2. Counting(v)' = Counting(v) \ {q} /\ verification' = verification
  BY <1>1, CountingEnds
<1>3. IsFiniteSet(Counting(v)') /\ Cardinality(Counting(v)') >= Cardinality(Counting(v)) - 1
      /\ Cardinality(Counting(v)) \in Nat /\ Cardinality(Counting(v)') \in Nat
  <2>1. IsFiniteSet(Counting(v))
    BY DEF CountingInv
  <2>2. IsFiniteSet(Counting(v) \ {q})
        /\ Cardinality(Counting(v) \ {q}) = IF q \in Counting(v) THEN Cardinality(Counting(v)) - 1
                                             ELSE Cardinality(Counting(v))
    BY <2>1, FS_RemoveElement
  <2>3. Cardinality(Counting(v)) \in Nat /\ Cardinality(Counting(v) \ {q}) \in Nat
    BY <2>1, <2>2, FS_CardinalityType
  <2> QED BY <1>2, <2>2, <2>3
<1>4. ASSUME Exists(v) PROVE CountedFor(v)'
  <2>1. CountedFor(v) /\ verification[v].wrong \in Nat /\ verification[v].attempts \in Nat
    BY <1>1, <1>4 DEF CountingInv, Exists, TypeOK, VerificationRow
  <2> QED BY <1>1, <1>2, <1>3, <2>1 DEF CountedFor
<1> QED BY <1>2, <1>3, <1>4 DEF Exists

LEMMA DeletedUncounted ==
    ASSUME IInv, Assumptions, CountingInv, NEW q \in Requests, DeleteConfirmed(q)
    PROVE  CountingInv'
<1> USE DEF DeleteConfirmed
<1>1. TypeOK /\ ~At(q, "counting") /\ stops' = stops /\ request[q] \in Context
  BY DEF IInv, At, TypeOK
<1>2. \A v \in Verifications : Counting(v)' = Counting(v)
  <2>1. CASE Answer(q)
    BY <1>1, <2>1, CountingStays DEF Answer
  <2>2. CASE Proceed(q, "reading")
    <3>1. [request[q] EXCEPT !.at = "reading"] \in Context
      BY <1>1 DEF Context
    <3>2. [request[q] EXCEPT !.at = "reading"].at # "counting"
          /\ request' = [request EXCEPT ![q] = [request[q] EXCEPT !.at = "reading"]]
      BY <1>1, <2>2 DEF Proceed, Context
    <3> QED BY <1>1, <3>1, <3>2, CountingStays
  <2> QED BY <2>1, <2>2
<1>3. \A v \in Verifications : Exists(v)' =>
         Exists(v) /\ verification'[v].wrong = verification[v].wrong
                   /\ verification'[v].attempts = verification[v].attempts
  BY <1>1 DEF DeleteIdentityVerification, Exists, TypeOK, VerificationRow, IInv, RequestInv, ContextOK, At
<1> QED BY <1>1, <1>2, <1>3, CountersStay

LEMMA RestUncounted ==
    ASSUME IInv, CountingInv,
           \/ UNCHANGED vars
           \/ \E b \in Businesses, u \in Users : CreateBusinessWithOwner(u, b)
           \/ \E b \in Businesses, u \in Users, i \in Invitations : Create(b, u, i) \/ Revoke(b, u, i)
           \/ \E i \in Invitations : ExpireInvitation(i)
           \/ \E v \in Verifications : ExpireVerification(v)
    PROVE  CountingInv'
<1>1. request' = request /\ stops' = stops
  BY DEF vars, CreateBusinessWithOwner, Create, Revoke, ExpireInvitation, ExpireVerification
<1>2. \A v \in Verifications : Counting(v)' = Counting(v)
  BY <1>1 DEF Counting, At
<1>3. CASE verification' = verification
  BY <1>1, <1>2, <1>3, RowsLeftAlone
<1>4. CASE \E v \in Verifications : ExpireVerification(v)
  <2>1. \A v \in Verifications : Exists(v)' =>
           Exists(v) /\ verification'[v].wrong = verification[v].wrong
                     /\ verification'[v].attempts = verification[v].attempts
    BY <1>4 DEF ExpireVerification, Exists, IInv, TypeOK, VerificationRow
  <2> QED BY <1>1, <1>2, <2>1, CountersStay
<1> QED BY <1>3, <1>4 DEF vars, CreateBusinessWithOwner, Create, Revoke, ExpireInvitation

LEMMA StepCounts == ASSUME IInv, Assumptions, CountingInv, [Next]_vars PROVE CountingInv'
BY RestUncounted, Uncounted, StoredUncounted, ConfirmingCounts, WrongCodeCounted, StoppedCounted, DeletedUncounted
   DEF Next

(***************************************************************************)
(* The specification.                                                      *)
(***************************************************************************)
LEMMA Stutters == ASSUME IInv, UNCHANGED vars PROVE IInv'
<1> USE DEF vars
<1>1. TypeOK' /\ VerificationInv' /\ InvitationInv' /\ AcceptedIsMember' /\ IdentifiersUnique' /\ PhonesProven'
  BY DEF IInv, TypeOK, VerificationInv, InvitationInv, Channel, AcceptedIsMember, IdentifiersUnique,
         PhonesProven, IdentifiersOf
<1>2. RequestInv'
  BY DEF IInv, RequestInv, ContextOK, Invited, Known
<1> QED BY <1>1, <1>2 DEF IInv

LEMMA StepInv == ASSUME IInv, Assumptions, [Next]_vars PROVE IInv'
<1>1. ASSUME NEW b \in Businesses, NEW u \in Users, CreateBusinessWithOwner(u, b) PROVE IInv'
  BY <1>1, CreatesBusiness
<1>2. ASSUME NEW b \in Businesses, NEW u \in Users, NEW i \in Invitations,
             Create(b, u, i) \/ Revoke(b, u, i)
      PROVE  IInv'
  BY <1>2, CreatesInvitation, InvitationSteps
<1>3. ASSUME NEW i \in Invitations, ExpireInvitation(i) PROVE IInv'
  BY <1>3, InvitationSteps
<1>4. ASSUME NEW v \in Verifications, ExpireVerification(v) PROVE IInv'
  BY <1>4, VerificationExpires
<1>5. ASSUME NEW q \in Requests,
             \/ \E i \in Invitations : GetByToken(q, i) \/ AcceptAsNewUser(q, i)
             \/ \E u \in Users, i \in Invitations : linkInvitationToExistingUser(q, u, i)
             \/ \E u \in Users, x \in Identifiers : startAddIdentifier(q, u, x)
             \/ AnswerExpired(q) \/ AcceptAsExistingUser(q) \/ MatchIdentifier(q)
             \/ Start(q) \/ Stop(q)
      PROVE  IInv'
  BY <1>5, RequestSteps
<1>6. ASSUME NEW q \in Requests, NEW v \in Verifications, StoreVerification(q, v) PROVE IInv'
  BY <1>6, StoresVerification
<1>7. ASSUME NEW q \in Requests, NEW u \in Users, NEW v \in Verifications,
             NEW i \in Invitations \cup {None}, confirmIdentityVerification(q, u, v, i)
      PROVE  IInv'
  BY <1>7, Confirming
<1>8. ASSUME NEW q \in Requests, CreateInvitedUser(q) \/ Confirm(q) PROVE IInv'
  BY <1>8, CreatesInvitedUser, Confirms
<1>9. ASSUME NEW q \in Requests, AdmitNewUser(q) \/ AddMembership(q) \/ markAccepted(q) PROVE IInv'
  BY <1>9, Admits, MarksAccepted
<1>10. ASSUME NEW q \in Requests, CountWrongCode(q) \/ DeleteConfirmed(q) PROVE IInv'
  BY <1>10, CountsWrongCode, DeletesConfirmed
<1> QED BY <1>1, <1>2, <1>3, <1>4, <1>5, <1>6, <1>7, <1>8, <1>9, <1>10, Stutters DEF Next

\* Whatever the interleaving and wherever requests are cut off, the rows keep
\* what the requests under way rely on (Init, StepInv).
THEOREM AccountsInvariant == ASSUME Assumptions PROVE Spec => []IInv
<1>1. Init => IInv
  BY InitInv
<1>2. IInv /\ [Next]_vars => IInv'
  BY StepInv
<1> QED BY <1>1, <1>2, PTL DEF Spec

\* The account an invitation was accepted by is a member of its business,
\* although markAccepted is a transaction after AddMembership.
THEOREM AcceptedAreMembers == ASSUME Assumptions PROVE Spec => []AcceptedIsMember
<1>1. IInv => AcceptedIsMember
  BY DEF IInv
<1> QED BY <1>1, AccountsInvariant, PTL

\* No phone or e-mail is on two accounts and every phone has been proven,
\* although Confirm attaches an identifier long after Start found it free.
THEOREM IdentifiersUniqueAndProven ==
    ASSUME Assumptions PROVE Spec => [](IdentifiersUnique /\ PhonesProven)
<1>1. IInv => IdentifiersUnique /\ PhonesProven
  BY DEF IInv
<1> QED BY <1>1, AccountsInvariant, PTL

\* IncrementIdentityVerificationAttempts: every wrong code is counted once, by
\* the row or by the request that compared it, except those that were cut off,
\* although counting is a transaction after the comparison.
THEOREM WrongCodesAreCounted == ASSUME Assumptions PROVE Spec => []WrongCodesCounted
<1>1. Init => CountingInv
  <2> SUFFICES ASSUME Init PROVE CountingInv
    OBVIOUS
  <2>1. \A v \in Verifications : Counting(v) = {} /\ ~Exists(v)
    BY DEF Init, Counting, At, Exists
  <2> QED BY <2>1, FS_EmptySet DEF CountingInv
<1>2. IInv /\ CountingInv /\ [Next]_vars => CountingInv'
  BY StepCounts
<1>3. CountingInv => WrongCodesCounted
  BY DEF CountingInv, CountedFor, WrongCodesCounted, Counting
<1> QED BY <1>1, <1>2, <1>3, AccountsInvariant, PTL DEF Spec

\* No step under way changes an invitation that is accepted or revoked.
THEOREM ClosedStays == ASSUME Assumptions PROVE Spec => [][ClosedIsFinal]_vars
<1>1. ASSUME IInv, [Next]_vars PROVE [ClosedIsFinal]_vars
  <2>1. ASSUME NEW i \in Invitations, invitation[i] # None, ~Pending(i), Next
        PROVE  invitation'[i] = invitation[i]
    <3> USE DEF Pending, IInv, TypeOK
    <3>1. ASSUME NEW q \in Requests, markAccepted(q) PROVE invitation'[i] = invitation[i]
      BY <1>1, <2>1, <3>1 DEF markAccepted, AcceptInvitation
    <3>2. ASSUME NEW b \in Businesses, NEW u \in Users, NEW j \in Invitations,
                 Create(b, u, j) \/ Revoke(b, u, j)
          PROVE  invitation'[i] = invitation[i]
      BY <1>1, <2>1, <3>2 DEF Create, CreateInvitation, Revoke, RevokeInvitation
    <3>3. ASSUME NEW j \in Invitations, ExpireInvitation(j) PROVE invitation'[i] = invitation[i]
      BY <1>1, <2>1, <3>3 DEF ExpireInvitation
    <3>4. \/ \E q \in Requests : markAccepted(q)
          \/ \E b \in Businesses, u \in Users, j \in Invitations : Create(b, u, j) \/ Revoke(b, u, j)
          \/ \E j \in Invitations : ExpireInvitation(j)
          \/ UNCHANGED invitation
      BY <2>1 DEF Next, CreateBusinessWithOwner, ExpireVerification, GetByToken, AcceptAsNewUser,
         linkInvitationToExistingUser, startAddIdentifier, StoreVerification,
         confirmIdentityVerification, AnswerExpired, CreateInvitedUser, AdmitNewUser,
         AcceptAsExistingUser, AddMembership, MatchIdentifier, Start, CountWrongCode, Confirm,
         DeleteConfirmed, Stop, rows
    <3> QED BY <3>1, <3>2, <3>3, <3>4
  <2> QED BY <1>1, <2>1 DEF ClosedIsFinal
<1> QED BY <1>1, AccountsInvariant, PTL DEF Spec
=============================================================================

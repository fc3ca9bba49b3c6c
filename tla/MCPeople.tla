------------------------------ MODULE MCPeople ------------------------------
(* People on small instances for TLC. A run takes up one part at a time, with *)
(* some of what the constants hold: `scene`, chosen at the start, says which; *)
(* the other parts stand still.                                               *)
EXTENDS People, Capabilities, Integers, TLC

CONSTANTS q1, q2,   \* requests
          s1, s2,   \* sessions, verifications, passwords or connections
          p1, p2,   \* pages
          owner, staff, new, bar, pub, browser, phone, ownerEmail, staffEmail, invited, google

VARIABLE scene

Nobody(table) == \A x \in DOMAIN table : table[x] = None
UnderWay(requests) == {q \in Requests : requests[q] # None}
OneAtATime(requests) == Cardinality(UnderWay(requests)) <= 1

(* Accounts: two people confirm the same phone; one accepts or revokes an     *)
(* invitation while another does; and one links an invitation by a code.      *)
Accounted == [u \in {owner, staff, new} |->
    CASE u = owner -> [phone |-> None, email |-> ownerEmail]
      [] u = staff -> [phone |-> None, email |-> staffEmail]
      [] OTHER -> None]
NoBusiness == \A b \in Bars : Nobody(membership[b])
Verified == {v \in Verifications : verification[v] # None}
NoneWrong == \A v \in Verified : verification[v].wrong = 0

(* SignUp: by a phone and its codes, or with Google against an e-mail.        *)
Addressed == google :> ownerEmail
SignUpsOf(identifiers) == \A q \in UnderWay(signUpRequest) : signUpRequest[q].identifier \in identifiers

(* Access: two tabs of one browser, without and with a business; and one tab  *)
(* that tries every capability in its own business and in another.            *)
InRole == [u \in Users |-> [b \in Businesses |->
    CASE u = owner -> RoleOwner
      [] u = staff /\ b = bar -> RoleStaff
      [] OTHER -> None]]
OneBrowser == p1 :> browser @@ p2 :> browser
Asking == {q \in UnderWay(accessRequest) : accessRequest[q].kind \in {"login", "me"} /\ accessRequest[q].at # "answering"}
Revoking == {q \in UnderWay(accessRequest) : accessRequest[q].kind = "revokeDevice"}
OneTab == Cardinality({accessRequest[q].page : q \in UnderWay(accessRequest)}
                      \union {p \in Pages : page[p] # [user |-> None, csrf |-> 0, left |-> None]}) <= 1

(* Tenancy: two connections used over and over by people of two businesses.   *)
BelongTo == {<<bar, owner>>, <<pub, owner>>, <<pub, staff>>}
OneStatement == \A q \in Requests : At(q, "scoped") => request[q].wrote = {} \/ request[q].answer = NoAnswer
Written == {x \in DOMAIN rows : rows[x] > 0}

Idle == UnderWay(accessRequest) = {}

NoneExpired == \A s \in Sessions : session[s] # None => ~session[s].expired

Bounded(name) ==
    CASE name = "verifying" -> NoBusiness /\ accountsStops = 0 /\ (Cardinality(Verified) <= 1 \/ NoneWrong)
      [] name = "inviting" -> Verified = {}
      [] name = "linking" -> Cardinality(Verified) <= 1 /\ OneAtATime(accountsRequest) /\ accountsStops = 0
      [] name = "byCode" -> SignUpsOf(Phones)
      [] name = "byGoogle" -> SignUpsOf({ownerEmail})
      [] name = "sessions" -> tokens + Cardinality(Asking) <= 2 /\ lost = 0
      [] name = "tabs" -> OneAtATime(accessRequest) /\ tokens + lost <= 3 /\ Revoking = {} /\ NoneExpired
      [] name = "routes" -> OneAtATime(accessRequest) /\ OneTab /\ tokens + Cardinality(Asking) <= 2 /\ lost = 0 /\ NoneExpired
      [] name = "tenants" -> OneStatement /\ Cardinality(Written) <= 1

Is(name) == scene = name
OnlyAccounts == UNCHANGED <<scene, signUpVars, accessVars, platformVars, vars>>
OnlySignUp == UNCHANGED <<scene, accountsVars, accessVars, platformVars, vars>>
OnlyAccess == UNCHANGED <<scene, accountsVars, signUpVars, platformVars, vars>>
OnlyPlatform == UNCHANGED <<scene, accountsVars, signUpVars, accessVars, vars>>
OnlyTenancy == UNCHANGED <<scene, accountsVars, signUpVars, accessVars, platformVars>>
peopleVars == <<scene, accountsVars, signUpVars, accessVars, platformVars, vars>>

PeopleInit ==
        /\ scene \in {"verifying", "inviting", "linking", "byCode", "byGoogle", "sessions", "tabs", "routes", "platform", "tenants"}
        /\ Members!Init /\ Joining!Init /\ Doors!Init /\ Office!Init /\ Init

PeopleNext ==
        \/ (Is("verifying") \/ Is("inviting") \/ Is("linking")) /\ Members!Next /\ OnlyAccounts /\ Bounded(scene)'
        \/ (Is("byCode") \/ Is("byGoogle")) /\ Joining!Next /\ OnlySignUp /\ Bounded(scene)'
        \/ /\ \/ Is("sessions") /\ Doors!OfASession
              \/ Is("tabs") /\ (Doors!OfASession \/ (Idle /\ Doors!InABusiness({bar}, {"sales:record"})))
              \/ Is("routes") /\ (Doors!OfASession \/ (Idle /\ Doors!InABusiness(Businesses, Tried)))
           /\ OnlyAccess /\ Bounded(scene)'
        \/ Is("platform") /\ Office!Next /\ OnlyPlatform
        \/ Is("tenants") /\ Next /\ OnlyTenancy /\ Bounded(scene)'

PeopleSpec == PeopleInit /\ [][PeopleNext]_peopleVars
Symmetry == Permutations(Requests) \union Permutations(Sessions) \union Permutations(Pages)

(* The properties checked are those of Tenancy and of People.                *)

(* Claims of comments and documents that the code does not keep. No run of the*)
(* project checks them; with its name added to People.cfg, TLC refutes each. *)

(* Platform: revoked staff have no session. *)
RevokedHasNoSession == Office!RevokedHasNoSession

(* Platform: a replaced token stops working at once. *)
OldTokenHasNoEffect == [][Office!OldTokenHasNoEffect]_platformVars

(* Platform: the newest entry about a business tells its status. *)
NewestTellsStatus == Office!NewestTellsStatus

(* Tenancy: a membership is written in its business only. *)
MembershipsInTheirBusiness == WritesInItsBusiness

(* Accounts: an invitation is accepted by who has its identifier. *)
AcceptedByItsHolder == [][Members!AcceptedByItsHolder]_accountsVars

(* Accounts: three wrong codes are compared at most. *)
LockedOutAfterThree == Members!LockedOutAfterThree

(* Accounts: an open invitation has been delivered. *)
OpenIsDelivered == Members!OpenIsDelivered

(* Accounts: reading an invitation past its expiry expires it. *)
ExpiredOnRead == Members!ExpiredOnRead

(* SignUp: five wrong codes are compared at most. *)
LockedOutAfterFive == Joining!LockedOutAfterFive

(* Access: logging out ends the session. *)
LogoutRevokes == Doors!LogoutRevokes

(* Access: nothing is taken from a revoked device. *)
RevokedDeviceCannotSync == Doors!RevokedDeviceCannotSync
=============================================================================

------------------------------- MODULE People -------------------------------
(* Everybody who has to do with a bar: how an account comes to exist (SignUp),*)
(* what it is a member of (Accounts), what its sessions and devices may do    *)
(* (Access), who looks after the service (Platform), and whose rows a         *)
(* transaction sees (Tenancy). Each part keeps its own state; this module     *)
(* names the parts and what is promised of each.                              *)
EXTENDS Tenancy

CONSTANTS None, MaxStops, Phones, Emails,
          Persons, Bars, Invitations, Verifications, Roles, Registered,            \* Accounts'
          Passwords, Google, GoogleEmail, MaxCodes,                                \* SignUp's
          Role, Browsers, Pages, BrowserOf, Sessions, Tried, MaxTokens, MaxLost,   \* Access's
          Staff, Superadmins, MaxAudit, MaxRotations                               \* Platform's

VARIABLES user, membership, invitation, verification, accountsRequest, accountsStops, proven,
          account, pending, codes, link, signedIn, signUpRequest, signUpStops,
          session, device, tokens, cookie, lease, page, cached, accessRequest, lost,
          platformStaff, business, platformSession, audit, clock, shown, platformRequest

Members == INSTANCE AccountsProofs WITH Users <- Persons, Businesses <- Bars,
    request <- accountsRequest, stops <- accountsStops
Joining == INSTANCE SignUp WITH session <- signedIn, request <- signUpRequest, stops <- signUpStops
Doors == INSTANCE AccessProofs WITH request <- accessRequest
Office == INSTANCE Platform WITH Businesses <- Bars, staff <- platformStaff,
    session <- platformSession, request <- platformRequest

ASSUME MembersAssumption ==
    /\ Members!RegisteredAssumption /\ Members!IdentifiersAssumption
    /\ Members!RolesAssumption /\ Members!StopsAssumption /\ Members!NoneAssumption
ASSUME JoiningAssumption == Joining!GoogleAssumption /\ Joining!BoundsAssumption /\ Joining!NoneAssumption
ASSUME DoorsAssumption ==
    /\ Doors!RoleAssumption /\ Doors!BrowserAssumption /\ Doors!TriedAssumption /\ Doors!BoundsAssumption
    /\ Doors!NoneAssumption
ASSUME OfficeAssumption ==
    /\ Office!SuperadminsAssumption /\ Office!BoundsAssumption
    /\ Office!NoneAssumption /\ Office!NamesAssumption

accountsVars == <<user, membership, invitation, verification, accountsRequest, accountsStops, proven>>
signUpVars == <<account, pending, codes, link, signedIn, signUpRequest, signUpStops>>
accessVars == <<session, device, tokens, cookie, lease, page, cached, accessRequest, lost>>
platformVars == <<platformStaff, business, platformSession, audit, clock, shown, platformRequest>>

(* Accounts: no phone or e-mail is on two accounts, and a phone on an account *)
(* has received a message that its holder used.                               *)
IdentifiersProven == Members!TypeOK /\ Members!IdentifiersUnique /\ Members!PhonesProven

(* Accounts and SignUp: every wrong code is counted once, and an account has  *)
(* the password that was given with the code that arrived.                    *)
CodesHold == /\ Members!WrongCodesCounted
             /\ Joining!TypeOK /\ Joining!WrongCodesCounted /\ Joining!PasswordOfTheCode

(* Accounts: whoever accepted an invitation is a member of its business.      *)
AcceptedIsMember == Members!AcceptedIsMember

(* What is over stays over: an invitation accepted or revoked (Accounts), an  *)
(* account once made (SignUp), a session that has ended (Access) and those of *)
(* a staff account that is revoked (Platform).                                *)
OverStaysOver == [][/\ Members!ClosedIsFinal /\ Joining!VerifiedOnce
                    /\ Doors!EndedForGood /\ Office!RevocationEndsSessions
                   ]_<<accountsVars, signUpVars, accessVars, platformVars>>

(* Access: a change needs a token that was its session's when it was sent,    *)
(* and is recorded for the person the tab shows.                              *)
ActsAsItsUser == Doors!TypeOK /\ Doors!ReplacedTokenRefused /\ Doors!ActsAsItsUser

(* Access and Platform: what is done in a business is done by a member who    *)
(* may do it, offline only within what the browser was enrolled for, and only *)
(* superadmins write from outside.                                            *)
DoneByThoseWhoMay == /\ Doors!DoneByThoseWhoMay /\ Doors!LeaseWithinEnrolment
                     /\ Office!OnlySuperadminsWrite

(* Platform: the audit log tells the status of businesses and staff, and      *)
(* nothing of a business is shown that it does not record.                    *)
AuditTellsAll == Office!TypeOK /\ Office!AuditTellsState /\ Office!NothingShownUnrecorded
=============================================================================

------------------------------ MODULE Platform ------------------------------
(***************************************************************************)
(* Platform administration: staff accounts, their sessions, the audit log  *)
(* and what a staff member may do to a business (internal/platformadmin,   *)
(* its handlers and middleware in internal/httpapi).                       *)
(*                                                                         *)
(* A request is authorised in one transaction and acts in another, and a   *)
(* login checks the account in one, creates the session in the next and is *)
(* recorded in a third; anything may happen in between.  A write and its   *)
(* audit entry are one transaction, which takes two steps: it begins, and  *)
(* now() stands still for it; it commits, and others see what it did.  So  *)
(* the order of the entries is not that of the changes.  Definitions       *)
(* marked as slips are mistakes that a property must catch; the            *)
(* specification uses none.                                                *)
(***************************************************************************)
EXTENDS Naturals

CONSTANTS
    Staff,        \* platform_staff accounts, by e-mail
    Superadmins,  \* those whose role is superadmin; the others are support
    Businesses,
    Sessions,     \* platform_sessions
    Requests,     \* HTTP requests being served
    MaxAudit,     \* bound: how many transactions begin that write an entry
    MaxRotations, \* bound: how often a session's CSRF token is replaced
    None

SuperadminsAssumption == Superadmins \subseteq Staff
BoundsAssumption == MaxAudit \in Nat /\ MaxRotations \in Nat
NoneAssumption == None \notin Staff \cup Businesses \cup Sessions

VARIABLES
    staff,     \* platform_staff.status, "none" before the account exists
    business,  \* businesses.status
    session,   \* platform_sessions
    audit,     \* platform_audit_log, which has no order but that of created_at
    clock,     \* what now() last was: moves on with each transaction that writes an entry
    shown,     \* which business's activity each staff member has been shown
    request    \* what each request has established so far

vars == <<staff, business, session, audit, clock, shown, request>>

SessionRow == [staff: Staff, csrf: 0..MaxRotations, live: BOOLEAN]

BusinessActions == {"business.suspended", "business.reactivated", "business.activity_viewed"}

StaffActions == {"staff.created", "staff.revoked"}

\* An entry: `at` is its created_at, the moment its transaction began; `till`,
\* which no column holds, is when that transaction committed.
AuditRow == [at: 1..MaxAudit, till: 1..MaxAudit, actor: Staff,
             action: {"login"} \cup BusinessActions \cup StaffActions,
             target: {None} \cup Businesses \cup Staff]

\* A transaction that has begun and has not committed; `had` are the sessions
\* that its target had by then.
Begun(actions, targets) == [at: {"begun"}, staff: Staff, action: actions, target: targets,
                            now: 1..MaxAudit, had: SUBSET Sessions]

\* The account a login has verified, and given a session; what
\* requirePlatformAuth has read; a transaction under way; the business whose
\* activity may now be read.
Context ==
    [at: {"login", "signedIn"}, staff: Staff]
    \cup [at: {"authorised"}, staff: Staff, session: Sessions, csrf: 0..MaxRotations]
    \cup Begun({"login"}, {None}) \cup Begun(BusinessActions, Businesses) \cup Begun(StaffActions, Staff)
    \cup [at: {"recorded"}, staff: Staff, business: Businesses]

\* An account is no business (both have UUIDs), and NULL is no row.
NamesAssumption == Staff \cap Businesses = {} /\ None \notin SessionRow \cup Context

TypeOK ==
    /\ staff \in [Staff -> {"none", "active", "revoked"}]
    /\ business \in [Businesses -> {"active", "suspended"}]
    /\ session \in [Sessions -> SessionRow \cup {None}]
    /\ audit \subseteq AuditRow /\ clock \in 0..MaxAudit
    /\ shown \subseteq Staff \X Businesses
    /\ request \in [Requests -> Context \cup {None}]

Init ==
    /\ staff = [s \in Staff |-> "none"]
    /\ business = [b \in Businesses |-> "active"]
    /\ session = [x \in Sessions |-> None]
    /\ audit = {} /\ clock = 0
    /\ shown = {}
    /\ request = [q \in Requests |-> None]

-----------------------------------------------------------------------------
(* Capabilities.                                                           *)

supportCapabilities == {"businesses:read", "audit:read", "businesses:read_activity",
                        "staff:read"}

allCapabilities == supportCapabilities \cup {"businesses:suspend", "staff:manage"}

ForRole(s) == IF s \in Superadmins THEN allCapabilities ELSE supportCapabilities

-----------------------------------------------------------------------------
(* The statements.                                                         *)

CreatePlatformAuditEntry(t) ==
    audit' = audit \cup {[at |-> t.now, till |-> clock, actor |-> t.staff,
                          action |-> t.action, target |-> t.target]}

CreatePlatformStaff(s) ==
    /\ staff[s] = "none"
    /\ staff' = [staff EXCEPT ![s] = "active"]

SetPlatformStaffStatus(s, status) ==
    /\ staff[s] # "none"
    /\ staff' = [staff EXCEPT ![s] = status]

CreatePlatformSession(x, s) ==
    /\ session[x] = None
    /\ session' = [session EXCEPT ![x] = [staff |-> s, csrf |-> 0, live |-> TRUE]]

\* Not revoked and not expired.
GetActivePlatformSession(x) == session[x] # None /\ session[x].live

RevokePlatformSession(x) == session' = [session EXCEPT ![x].live = FALSE]

SessionsOf(s) == {x \in Sessions : session[x] # None /\ session[x].staff = s}

EndSessions(ended) == session' = [x \in Sessions |->
                          IF x \in ended THEN [session[x] EXCEPT !.live = FALSE] ELSE session[x]]

\* A slip: only new logins are refused, and sessions are left to expire.
LeavePlatformSessions(s, had) == UNCHANGED session

\* The sessions there are when the statement runs: those there were when its
\* transaction began, and of those made until it commits, any.
RevokeAllPlatformSessionsForStaff(s, had) ==
    \E made \in SUBSET (SessionsOf(s) \ had) : EndSessions(had \cup made)

UpdatePlatformSessionCSRFTokenHash(x) ==
    /\ session[x].csrf < MaxRotations
    /\ session' = [session EXCEPT ![x].csrf = @ + 1]

SetBusinessStatus(b, status) == business' = [business EXCEPT ![b] = status]

At(q, at) == request[q] # None /\ request[q].at = at

Answer(q) == request' = [request EXCEPT ![q] = None]

Authorised(q) == At(q, "authorised")

\* The client sends the token whose hash requirePlatformAuth has read.
requirePlatformCapability(q, capability) ==
    /\ Authorised(q)
    /\ capability \in ForRole(request[q].staff)

-----------------------------------------------------------------------------
(* Transactions that write an entry.                                       *)

WithApp(q, action, target) ==
    /\ clock < MaxAudit /\ clock' = clock + 1
    /\ request' = [request EXCEPT ![q] =
                     [at |-> "begun", staff |-> request[q].staff, action |-> action, target |-> target,
                      now |-> clock + 1, had |-> SessionsOf(target)]]
    /\ UNCHANGED <<staff, business, session, audit, shown>>

UnderWay(q, actions) == At(q, "begun") /\ request[q].action \in actions

\* The transaction's last statement, and its commit.
Record(q) ==
    /\ CreatePlatformAuditEntry(request[q])
    /\ UNCHANGED clock

-----------------------------------------------------------------------------
(* Signing in and out.                                                     *)

\* cmd/seed-platform-staff; nothing is audited.
CreateStaff(s) ==
    /\ CreatePlatformStaff(s)
    /\ UNCHANGED <<business, session, audit, clock, shown, request>>

Authenticate(q, s) ==
    /\ request[q] = None
    /\ staff[s] = "active"
    /\ request' = [request EXCEPT ![q] = [at |-> "login", staff |-> s]]
    /\ UNCHANGED <<staff, business, session, audit, clock, shown>>

CreateSession(q, x) ==
    /\ At(q, "login")
    /\ CreatePlatformSession(x, request[q].staff)
    /\ request' = [request EXCEPT ![q].at = "signedIn"]
    /\ UNCHANGED <<staff, business, audit, clock, shown>>

\* Best effort: when it fails (Refuse), the login goes on.
RecordLogin(q) ==
    \/ At(q, "signedIn") /\ WithApp(q, "login", None)
    \/ /\ UnderWay(q, {"login"})
       /\ Record(q)
       /\ Answer(q)
       /\ UNCHANGED <<staff, business, session, shown>>

\* sessions.expires_at passes.
Expire(x) ==
    /\ GetActivePlatformSession(x)
    /\ session' = [session EXCEPT ![x].live = FALSE]
    /\ UNCHANGED <<staff, business, audit, clock, shown, request>>

\* Looks up the session and its account; the account's status is not asked.
requirePlatformAuth(q, x) ==
    /\ request[q] = None
    /\ GetActivePlatformSession(x)
    /\ request' = [request EXCEPT ![q] =
                     [at |-> "authorised", staff |-> session[x].staff,
                      session |-> x, csrf |-> session[x].csrf]]
    /\ UNCHANGED <<staff, business, session, audit, clock, shown>>

platformLogout(q) ==
    /\ Authorised(q)
    /\ RevokePlatformSession(request[q].session)
    /\ Answer(q)
    /\ UNCHANGED <<staff, business, audit, clock, shown>>

platformMe(q) ==
    /\ Authorised(q)
    /\ UpdatePlatformSessionCSRFTokenHash(request[q].session)
    /\ Answer(q)
    /\ UNCHANGED <<staff, business, audit, clock, shown>>

\* Refused, failed or lost: whatever it would have done is not done.
Refuse(q) ==
    /\ request[q] # None
    /\ Answer(q)
    /\ UNCHANGED <<staff, business, session, audit, clock, shown>>

-----------------------------------------------------------------------------
(* What staff do.                                                          *)

SuspendBusiness(q, b) == /\ requirePlatformCapability(q, "businesses:suspend")
                         /\ WithApp(q, "business.suspended", b)

ReactivateBusiness(q, b) == /\ requirePlatformCapability(q, "businesses:suspend")
                            /\ WithApp(q, "business.reactivated", b)

StatusAfter(action) == IF action = "business.suspended" THEN "suspended" ELSE "active"

\* Another change of the same business waits for the row until this one ends.
setBusinessStatus(q) ==
    /\ UnderWay(q, {"business.suspended", "business.reactivated"})
    /\ SetBusinessStatus(request[q].target, StatusAfter(request[q].action))
    /\ Record(q)
    /\ Answer(q)
    /\ UNCHANGED <<staff, session, shown>>

CreateStaffAudited(q, s) ==
    \/ /\ requirePlatformCapability(q, "staff:manage")
       /\ WithApp(q, "staff.created", s)
    \/ /\ UnderWay(q, {"staff.created"}) /\ request[q].target = s
       /\ CreatePlatformStaff(s)
       /\ Record(q)
       /\ Answer(q)
       /\ UNCHANGED <<business, session, shown>>

RevokeStaff(q, s) ==
    \/ /\ requirePlatformCapability(q, "staff:manage")
       /\ request[q].staff # s
       /\ WithApp(q, "staff.revoked", s)
    \/ /\ UnderWay(q, {"staff.revoked"}) /\ request[q].target = s
       /\ SetPlatformStaffStatus(s, "revoked")
       /\ RevokeAllPlatformSessionsForStaff(s, request[q].had)
       /\ Record(q)
       /\ Answer(q)
       /\ UNCHANGED <<business, shown>>

MayRead(q, b) == request' = [request EXCEPT ![q] = [at |-> "recorded", staff |-> request[q].staff,
                                                    business |-> b]]

\* A slip: the entry is best effort, like a login's.
RecordBusinessActivityViewedIfPossible(q, b) ==
    \/ /\ requirePlatformCapability(q, "businesses:read_activity")
       /\ WithApp(q, "business.activity_viewed", b)
    \/ /\ UnderWay(q, {"business.activity_viewed"}) /\ request[q].target = b
       /\ Record(q) \/ UNCHANGED <<audit, clock>>
       /\ MayRead(q, b)
       /\ UNCHANGED <<staff, business, session, shown>>

RecordBusinessActivityViewed(q, b) ==
    \/ /\ requirePlatformCapability(q, "businesses:read_activity")
       /\ WithApp(q, "business.activity_viewed", b)
    \/ /\ UnderWay(q, {"business.activity_viewed"}) /\ request[q].target = b
       /\ Record(q)
       /\ MayRead(q, b)
       /\ UNCHANGED <<staff, business, session, shown>>

getPlatformBusinessActivity(q) ==
    /\ At(q, "recorded")
    /\ shown' = shown \cup {<<request[q].staff, request[q].business>>}
    /\ Answer(q)
    /\ UNCHANGED <<staff, business, session, audit, clock>>

Next ==
    \/ \E s \in Staff : CreateStaff(s)
    \/ \E q \in Requests, s \in Staff : Authenticate(q, s)
    \/ \E q \in Requests, x \in Sessions : CreateSession(q, x)
    \/ \E q \in Requests : RecordLogin(q)
    \/ \E x \in Sessions : Expire(x)
    \/ \E q \in Requests, x \in Sessions : requirePlatformAuth(q, x)
    \/ \E q \in Requests : platformLogout(q)
    \/ \E q \in Requests : platformMe(q)
    \/ \E q \in Requests : Refuse(q)
    \/ \E q \in Requests, b \in Businesses : SuspendBusiness(q, b)
    \/ \E q \in Requests, b \in Businesses : ReactivateBusiness(q, b)
    \/ \E q \in Requests : setBusinessStatus(q)
    \/ \E q \in Requests, s \in Staff : CreateStaffAudited(q, s)
    \/ \E q \in Requests, s \in Staff : RevokeStaff(q, s)
    \/ \E q \in Requests, b \in Businesses : RecordBusinessActivityViewed(q, b)
    \/ \E q \in Requests : getPlatformBusinessActivity(q)

Spec == Init /\ [][Next]_vars

-----------------------------------------------------------------------------
(* What the log and the roles are worth.                                   *)

About(x) == {row \in audit : row.target = x /\ row.action # "business.activity_viewed"}

\* Nobody who is in the log for the same target began after this one was done.
Last(row) == \A other \in About(row.target) : other.at <= row.till

\* setBusinessStatus: "the action and its audit trail either both land or
\* neither does".  The status of a business is what an entry about it says, and
\* every newer entry was written by a transaction that was under way together
\* with that entry's; so where changes do not overlap, the newest tells it.  And
\* an account is revoked just when an entry says by whom.
AuditTellsState ==
    /\ \A b \in Businesses :
          \/ About(b) = {} /\ business[b] = "active"
          \/ \E row \in About(b) : Last(row) /\ business[b] = StatusAfter(row.action)
    /\ \A s \in Staff :
          staff[s] = "revoked" <=> \E row \in About(s) : row.action = "staff.revoked"

\* Only a superadmin ever writes: whoever the log names for a write is one.
OnlySuperadminsWrite ==
    \A row \in audit :
        row.action \notin {"login", "business.activity_viewed"} => row.actor \in Superadmins

\* getPlatformBusinessActivity: an unrecordable read is a refused read.
NothingShownUnrecorded ==
    \A view \in shown :
        \E row \in audit : /\ row.actor = view[1] /\ row.target = view[2]
                            /\ row.action = "business.activity_viewed"

\* The sessions an account had when its revocation began.
EndedWithAccount ==
    UNION {request[q].had : q \in {r \in Requests : /\ UnderWay(r, {"staff.revoked"}) /\ request'[r] = None
                                                    /\ staff' # staff}}

\* A session that has ended, and every session an account had when its
\* revocation began, stays ended and authorises no later request (RevokeStaff).
RevocationEndsSessions ==
    \A x \in Sessions :
       session[x] # None /\ (~session[x].live \/ x \in EndedWithAccount)
       => session'[x] # None /\ ~session'[x].live /\ session'[x].staff = session[x].staff

-----------------------------------------------------------------------------
(* What comments say that the code does not keep.                          *)

\* RevokeStaff's comment: "at least one superadmin (the actor) always remains".
SuperadminRemains ==
    (\E s \in Superadmins : staff[s] # "none") => \E s \in Superadmins : staff[s] = "active"

\* RevokeStaff's comment: revocation "takes effect immediately, not merely at
\* the next login".
RevokedHasNoSession ==
    \A x \in Sessions : GetActivePlatformSession(x) => staff[session[x].staff] = "active"

\* RotateCSRFToken's comment: "The previous CSRF token stops working
\* immediately".
OldTokenHasNoEffect ==
    \A q \in Requests :
       Authorised(q) /\ request'[q] # None
       => request[q].csrf = session[request[q].session].csrf

\* ListAuditLog's comment: "the most recent platform audit entries, newest
\* first"; the newest about a business says what its status is.
NewestTellsStatus ==
    \A b \in Businesses : \A row \in About(b) :
        (\A other \in About(b) : other.at <= row.at) => business[b] = StatusAfter(row.action)
=============================================================================

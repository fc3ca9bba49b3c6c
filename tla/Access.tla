------------------------------- MODULE Access -------------------------------
(***************************************************************************)
(* Signing in and what a session may do: sessions, their anti-forgery      *)
(* tokens and the middleware in front of every route (internal/httpapi,    *)
(* internal/identity), device enrolment and offline leases, and the tabs   *)
(* of a browser that hold the tokens (web/src/lib/session.tsx).            *)
(*                                                                         *)
(* The tabs of one browser share its cookie and its device key; each has   *)
(* the token of its own last answer.  A request is read, checked and       *)
(* carried out in separate transactions, and its answer may be lost.       *)
(* Memberships are given: no code changes one, module Accounts adds them.  *)
(* Definitions marked as slips are mistakes that a property must catch.    *)
(***************************************************************************)
EXTENDS Capabilities, Integers

CONSTANTS
    Users, Businesses,
    Role,        \* of each user in each business, or None
    Browsers, Pages,
    BrowserOf,   \* the browser each page is a tab of
    Sessions,    \* the ids sessions are created with
    Requests,    \* HTTP requests under way
    Tried,       \* the capabilities whose routes the pages call
    MaxTokens,   \* bound: how many anti-forgery tokens are generated
    MaxLost,     \* bound: how many answers are lost
    None

RoleAssumption == Role \in [Users -> [Businesses -> {RoleOwner, RoleStaff, None}]]
BrowserAssumption == BrowserOf \in [Pages -> Browsers]
TriedAssumption == Tried \subseteq allCapabilities
BoundsAssumption == MaxTokens \in Nat /\ MaxLost \in Nat

VARIABLES
    session,  \* sessions
    device,   \* devices, by business and public key, which is the browser's
    tokens,   \* how many anti-forgery tokens were generated
    cookie,   \* the session each browser sends
    lease,    \* the offline lease each browser keeps
    page,     \* what each tab shows and the token it holds, 0 for none
    cached,   \* whom each browser remembers, for when it is offline
    request,  \* the requests under way
    lost

vars == <<session, device, tokens, cookie, lease, page, cached, request, lost>>

Token == 0..MaxTokens

SessionRow == [user: Users, csrf: Token, revoked: BOOLEAN, expired: BOOLEAN]
DeviceRow == [user: Users, status: {"active", "revoked"}]
LeasePayload == [business: Businesses, user: Users, role: {RoleOwner, RoleStaff},
                 capabilities: SUBSET allCapabilities, expired: BOOLEAN]

\* "left" is history: the session this tab's user logged out of.
PageState == [user: Users \cup {None}, csrf: Token, left: Sessions \cup {None}]

Kinds == {"login", "me", "logout", "enroll", "revokeDevice", "read", "write"}

\* shown, live and revoked are history, from when it was sent: whom the tab showed,
\* whether its token was the session's, and whether its device had been revoked.
Context ==
    [at: {"arrived", "authenticated", "answering"}, kind: Kinds, page: Pages,
     session: Sessions \cup {None}, token: Token, business: Businesses \cup {None},
     capability: Tried \cup {None}, target: Browsers \cup {None},
     user: Users \cup {None}, hash: Token, ok: BOOLEAN, fresh: Token,
     shown: Users \cup {None}, live: BOOLEAN, revoked: BOOLEAN]

\* NULL is nobody, no row and no role.
NoneAssumption ==
    /\ None \notin Users /\ None \notin Businesses /\ None \notin Sessions /\ None \notin Browsers
    /\ None \notin SessionRow /\ None \notin DeviceRow /\ None \notin LeasePayload
    /\ None \notin Context /\ None \notin {RoleOwner, RoleStaff}

TypeOK ==
    /\ session \in [Sessions -> SessionRow \cup {None}]
    /\ device \in [Businesses -> [Browsers -> DeviceRow \cup {None}]]
    /\ tokens \in Token
    /\ cookie \in [Browsers -> Sessions \cup {None}]
    /\ lease \in [Browsers -> LeasePayload \cup {None}]
    /\ page \in [Pages -> PageState]
    /\ cached \in [Browsers -> Users \cup {None}]
    /\ request \in [Requests -> Context \cup {None}]
    /\ lost \in 0..MaxLost

Init ==
    /\ session = [s \in Sessions |-> None]
    /\ device = [b \in Businesses |-> [w \in Browsers |-> None]]
    /\ tokens = 0
    /\ cookie = [w \in Browsers |-> None]
    /\ lease = [w \in Browsers |-> None]
    /\ page = [p \in Pages |-> [user |-> None, csrf |-> 0, left |-> None]]
    /\ cached = [w \in Browsers |-> None]
    /\ request = [q \in Requests |-> None]
    /\ lost = 0

-----------------------------------------------------------------------------
(* The statements.                                                         *)

CreateSessionRow(s, u, csrf) ==
    /\ session[s] = None
    /\ session' = [session EXCEPT ![s] =
          [user |-> u, csrf |-> csrf, revoked |-> FALSE, expired |-> FALSE]]

\* Every token is new.
CreateSession(s, u) ==
    /\ tokens < MaxTokens
    /\ CreateSessionRow(s, u, tokens + 1)
    /\ tokens' = tokens + 1

GetActiveSessionByTokenHash(s) ==
    session[s] # None /\ ~session[s].revoked /\ ~session[s].expired

GetActiveSessionByToken(s) == IF s = None THEN FALSE ELSE GetActiveSessionByTokenHash(s)

UpdateSessionCSRFTokenHash(s, csrf) == session' = [session EXCEPT ![s].csrf = csrf]

\* Whether the session has ended meanwhile is not asked.
RotateCSRFToken(s) ==
    /\ tokens < MaxTokens
    /\ UpdateSessionCSRFTokenHash(s, tokens + 1)
    /\ tokens' = tokens + 1

\* Only the user's own session, and once.
RevokeSession(u, s) ==
    session' = IF session[s].user = u /\ ~session[s].revoked
               THEN [session EXCEPT ![s].revoked = TRUE] ELSE session

GetMembershipRow(u, b) == Role[u][b]

GetMembership(u, b) == IF b = None THEN FALSE ELSE GetMembershipRow(u, b) # None

\* A public key is enrolled once in a business, for good.
CreateDeviceRow(b, w, u) ==
    /\ device[b][w] = None
    /\ device' = [device EXCEPT ![b][w] = [user |-> u, status |-> "active"]]

IsActive(b, w) == device[b][w] # None => device[b][w].status = "active"

RevokeDeviceRow(b, w) ==
    /\ device[b][w] # None /\ IsActive(b, w)
    /\ device' = [device EXCEPT ![b][w].status = "revoked"]

CreateDevice(b, w, u, enrolled) ==
    \/ enrolled /\ CreateDeviceRow(b, w, u)
    \/ ~enrolled /\ device[b][w] # None /\ UNCHANGED device

RevokeDevice(b, w, found) ==
    \/ found /\ RevokeDeviceRow(b, w)
    \/ ~found /\ (device[b][w] # None => ~IsActive(b, w)) /\ UNCHANGED device

-----------------------------------------------------------------------------
(* A tab.                                                                  *)

tab == <<cookie, lease, page, cached>>
rows == <<session, device, tokens>>

DeviceRevoked(b, w) == b # None /\ ~IsActive(b, w)

Fetch(q, p, kind, b, c) ==
    LET w == BrowserOf[p] IN
    [at |-> "arrived", kind |-> kind, page |-> p, session |-> cookie[w],
     token |-> page[p].csrf, business |-> b, capability |-> c, target |-> None,
     user |-> None, hash |-> 0, ok |-> FALSE, fresh |-> 0, shown |-> page[p].user,
     live |-> GetActiveSessionByToken(cookie[w]) /\ session[cookie[w]].csrf = page[p].csrf,
     revoked |-> DeviceRevoked(b, w)]

Begin(q, context) == request[q] = None /\ request' = [request EXCEPT ![q] = context]
Drop(q) == request' = [request EXCEPT ![q] = None]

SignedIn(p) == page[p].user # None

SendLogin(q, p, u) ==
    /\ tokens < MaxTokens
    /\ Begin(q, [Fetch(q, p, "login", None, None) EXCEPT !.user = u])
    /\ UNCHANGED <<rows, tab, lost>>

\* The tab is loaded, or a page asks for a refresh.
refresh(q, p) ==
    /\ tokens < MaxTokens
    /\ Begin(q, Fetch(q, p, "me", None, None))
    /\ UNCHANGED <<rows, tab, lost>>

\* The tab of session s shows nobody, and its browser remembers nobody.
LeaveSession(p, s) ==
    /\ page' = [page EXCEPT ![p] = [user |-> None, csrf |-> 0, left |-> s]]
    /\ cached' = [cached EXCEPT ![BrowserOf[p]] = None]

\* A tab without a token sends no request and leaves at once.
SendLogout(q, p) ==
    /\ SignedIn(p)
    /\ IF page[p].csrf # 0
       THEN Begin(q, Fetch(q, p, "logout", None, None)) /\ UNCHANGED <<page, cached>>
       ELSE LeaveSession(p, cookie[BrowserOf[p]]) /\ UNCHANGED request
    /\ UNCHANGED <<rows, cookie, lease, lost>>

\* A lease that has not expired is kept.
enroll(q, p, b) ==
    /\ SignedIn(p)
    /\ lease[BrowserOf[p]] # None => lease[BrowserOf[p]].expired
    /\ Begin(q, Fetch(q, p, "enroll", b, None))
    /\ UNCHANGED <<rows, tab, lost>>

SendRevoke(q, p, b, w) ==
    /\ SignedIn(p) /\ "devices:manage" \in Tried
    /\ Begin(q, [Fetch(q, p, "revokeDevice", b, "devices:manage") EXCEPT !.target = w])
    /\ UNCHANGED <<rows, tab, lost>>

SendRead(q, p, b, c) ==
    /\ SignedIn(p) /\ c \in ReadRoutes \cap Tried
    /\ Begin(q, Fetch(q, p, "read", b, c))
    /\ UNCHANGED <<rows, tab, lost>>

SendWrite(q, p, b, c) ==
    /\ SignedIn(p) /\ c \in (WriteRoutes \cap Tried) \ {"devices:manage"}
    /\ Begin(q, Fetch(q, p, "write", b, c))
    /\ UNCHANGED <<rows, tab, lost>>

-----------------------------------------------------------------------------
(* The server.                                                             *)

At(q, step) == request[q] # None /\ request[q].at = step
Is(q, kind) == At(q, "authenticated") /\ request[q].kind = kind

Refuse(q) == request' = [request EXCEPT ![q].at = "answering", ![q].ok = FALSE]
Accept(q, csrf) ==
    request' = [request EXCEPT ![q].at = "answering", ![q].ok = TRUE, ![q].fresh = csrf]

\* The session is read once; the token it has now is what is compared later.
requireAuth(q) ==
    /\ At(q, "arrived") /\ request[q].kind # "login"
    /\ LET s == request[q].session IN
       IF GetActiveSessionByToken(s)
       THEN request' = [request EXCEPT ![q].at = "authenticated",
                            ![q].user = session[s].user, ![q].hash = session[s].csrf]
       ELSE Refuse(q)
    /\ UNCHANGED <<rows, tab, lost>>

Unsafe(kind) == kind \notin {"me", "read"}

\* A slip: any token will do.
requireCSRFAny(q) == Unsafe(request[q].kind) => request[q].token # 0

requireCSRF(q) ==
    Unsafe(request[q].kind) => request[q].token # 0 /\ request[q].token = request[q].hash

\* A slip: being signed in is enough.
NoBusinessContext(q) == TRUE

requireBusinessContext(q) ==
    request[q].kind \notin {"me", "logout"} => GetMembership(request[q].user, request[q].business)

requireCapability(q) ==
    LET c == request[q] IN
    c.capability # None => c.capability \in ForRole(Role[c.user][c.business])

Passes(q) == requireCSRF(q) /\ requireBusinessContext(q) /\ requireCapability(q)

RefuseUnauthorised(q) ==
    /\ At(q, "authenticated") /\ ~Passes(q)
    /\ Refuse(q)
    /\ UNCHANGED <<rows, tab, lost>>

\* The password was checked and the user is active.
login(q) ==
    /\ At(q, "arrived") /\ request[q].kind = "login"
    /\ \E s \in Sessions :
          /\ CreateSession(s, request[q].user)
          /\ request' = [request EXCEPT ![q].at = "answering", ![q].ok = TRUE,
                             ![q].fresh = tokens + 1, ![q].session = s]
    /\ UNCHANGED <<device, tab, lost>>

me(q) ==
    /\ Is(q, "me")
    /\ RotateCSRFToken(request[q].session)
    /\ Accept(q, tokens + 1)
    /\ UNCHANGED <<device, tab, lost>>

logout(q) ==
    /\ Is(q, "logout") /\ Passes(q)
    /\ RevokeSession(request[q].user, request[q].session)
    /\ Accept(q, 0)
    /\ UNCHANGED <<device, tokens, tab, lost>>

\* Every member may; the business has had its default location from the start.
enrollDevice(q) ==
    /\ Is(q, "enroll") /\ Passes(q)
    /\ LET c == request[q] IN
       \E enrolled \in BOOLEAN :
          /\ CreateDevice(c.business, BrowserOf[c.page], c.user, enrolled)
          /\ IF enrolled THEN Accept(q, 0) ELSE Refuse(q)
    /\ UNCHANGED <<session, tokens, tab, lost>>

revokeDevice(q) ==
    /\ Is(q, "revokeDevice") /\ Passes(q)
    /\ \E found \in BOOLEAN :
          /\ RevokeDevice(request[q].business, request[q].target, found)
          /\ IF found THEN Accept(q, 0) ELSE Refuse(q)
    /\ UNCHANGED <<session, tokens, tab, lost>>

\* Every other route; what it does is its own module's matter.
Serve(q) ==
    /\ Is(q, "read") \/ Is(q, "write")
    /\ Passes(q)
    /\ Accept(q, 0)
    /\ UNCHANGED <<rows, tab, lost>>

IssueLease(b, u) ==
    [business |-> b, user |-> u, role |-> Role[u][b],
     capabilities |-> OfflineSafe(Role[u][b]), expired |-> FALSE]

-----------------------------------------------------------------------------
(* Answers.                                                                *)

\* What the tab holds after it, and its browser remembers.
applyMe(p, u, csrf) ==
    /\ page' = [page EXCEPT ![p].user = u, ![p].csrf = csrf, ![p].left = None]
    /\ cached' = [cached EXCEPT ![BrowserOf[p]] = u]

ReceiveSession(q) ==
    /\ At(q, "answering") /\ request[q].ok /\ request[q].kind \in {"login", "me"}
    /\ LET c == request[q]  w == BrowserOf[c.page] IN
       /\ cookie' = IF c.kind = "login" THEN [cookie EXCEPT ![w] = c.session] ELSE cookie
       /\ applyMe(c.page, c.user, c.fresh)
    /\ Drop(q)
    /\ UNCHANGED <<rows, lease, lost>>

ReceiveLogout(q) ==
    /\ At(q, "answering") /\ request[q].ok /\ request[q].kind = "logout"
    /\ cookie' = [cookie EXCEPT ![BrowserOf[request[q].page]] = None]
    /\ LeaveSession(request[q].page, request[q].session)
    /\ Drop(q)
    /\ UNCHANGED <<rows, lease, lost>>

saveEnrollment(q) ==
    /\ At(q, "answering") /\ request[q].ok /\ request[q].kind = "enroll"
    /\ LET c == request[q] IN
       lease' = [lease EXCEPT ![BrowserOf[c.page]] = IssueLease(c.business, c.user)]
    /\ Drop(q)
    /\ UNCHANGED <<rows, cookie, page, cached, lost>>

ReceiveOther(q) ==
    /\ At(q, "answering") /\ request[q].kind \notin {"login", "me", "logout", "enroll"}
    /\ Drop(q)
    /\ UNCHANGED <<rows, tab, lost>>

\* What a tab shows once it could not load: no token, whatever it held.
ShowWithoutToken(p, u) == page' = [page EXCEPT ![p].user = u, ![p].csrf = 0]

\* A tab whose session is gone shows nobody; the session is left even if the
\* logout was refused; any other refusal changes nothing.
ReceiveRefusal(q) ==
    /\ At(q, "answering") /\ ~request[q].ok
    /\ LET c == request[q] IN
       \/ c.kind = "me" /\ ShowWithoutToken(c.page, None)
          /\ cached' = [cached EXCEPT ![BrowserOf[c.page]] = None]
       \/ c.kind = "logout" /\ LeaveSession(c.page, c.session)
       \/ c.kind \notin {"me", "logout"} /\ UNCHANGED <<page, cached>>
    /\ Drop(q)
    /\ UNCHANGED <<rows, cookie, lease, lost>>

\* The request or its answer is lost.  A tab that cannot load shows whom its
\* browser remembers, without a token; a session is left all the same.
Lose(q) ==
    /\ request[q] # None /\ lost < MaxLost
    /\ lost' = lost + 1
    /\ LET c == request[q] IN
       \/ c.kind = "me" /\ ShowWithoutToken(c.page, cached[BrowserOf[c.page]]) /\ UNCHANGED cached
       \/ c.kind = "logout" /\ LeaveSession(c.page, c.session)
       \/ c.kind \notin {"me", "logout"} /\ UNCHANGED <<page, cached>>
    /\ Drop(q)
    /\ UNCHANGED <<rows, cookie, lease>>

Expire(s) ==
    /\ session[s] # None /\ ~session[s].expired
    /\ session' = [session EXCEPT ![s].expired = TRUE]
    /\ UNCHANGED <<device, tokens, tab, request, lost>>

ExpireLease(w) ==
    /\ lease[w] # None /\ ~lease[w].expired
    /\ lease' = [lease EXCEPT ![w].expired = TRUE]
    /\ UNCHANGED <<rows, cookie, page, cached, request, lost>>

Handle(q) ==
    requireAuth(q) \/ RefuseUnauthorised(q) \/ login(q) \/ me(q) \/ logout(q)
    \/ enrollDevice(q) \/ revokeDevice(q) \/ Serve(q)

Receive(q) ==
    ReceiveSession(q) \/ ReceiveLogout(q) \/ saveEnrollment(q) \/ ReceiveOther(q)
    \/ ReceiveRefusal(q)

OfASession ==
    \/ \E s \in Sessions : Expire(s)
    \/ \E w \in Browsers : ExpireLease(w)
    \/ \E q \in Requests : Handle(q) \/ Receive(q) \/ Lose(q)
    \/ \E q \in Requests, p \in Pages : refresh(q, p) \/ SendLogout(q, p)
    \/ \E q \in Requests, p \in Pages, u \in Users : SendLogin(q, p, u)

InABusiness(businesses, tried) ==
    \E q \in Requests, p \in Pages, b \in businesses :
          \/ enroll(q, p, b)
          \/ \E w \in Browsers : SendRevoke(q, p, b, w)
          \/ \E c \in tried : SendRead(q, p, b, c) \/ SendWrite(q, p, b, c)

Next == OfASession \/ InABusiness(Businesses, Tried)

Spec == Init /\ [][Next]_vars

\* Requests that arrive are answered, and a tab without a lease asks again.
Fairness ==
    /\ \A q \in Requests : WF_vars(Handle(q)) /\ WF_vars(Receive(q))
    /\ \A p \in Pages, b \in Businesses : WF_vars(\E q \in Requests : enroll(q, p, b))

FairSpec == Spec /\ Fairness

-----------------------------------------------------------------------------
(* What it promises.                                                       *)

CarriedOut(q) == At(q, "answering") /\ request[q].ok /\ request[q].kind # "login"
Changed(q) == CarriedOut(q) /\ Unsafe(request[q].kind)

\* What a tab changes is recorded for the person it shows, however the cookie
\* that all tabs share has changed since that tab was loaded.
ActsAsItsUser ==
    \A q \in Requests : Changed(q) => request[q].user = request[q].shown

\* "The previous CSRF token stops working immediately": a change is carried out
\* only for a token that was its session's when the request was sent.
ReplacedTokenRefused ==
    \A q \in Requests : Changed(q) => request[q].live

\* What is done in a business is done by a member whose role may do it.
DoneByThoseWhoMay ==
    \A q \in Requests : CarriedOut(q) /\ request[q].business # None =>
        LET role == Role[request[q].user][request[q].business] IN
        /\ role # None
        /\ request[q].capability # None => request[q].capability \in ForRole(role)

\* A browser works offline only as the person its key was enrolled for, and
\* only with what needs no server: nothing that is the owner's alone.
LeaseWithinEnrolment ==
    \A w \in Browsers : lease[w] # None =>
        LET l == lease[w]  row == device[l.business][w] IN
        /\ row # None /\ row.user = l.user /\ l.role = Role[l.user][l.business]
        /\ l.capabilities \subseteq ForRole(l.role) \cap ForRole(RoleStaff)

Ended(s) == session[s] # None /\ (session[s].revoked \/ session[s].expired)

\* A session that has ended, by logout or by time, never serves again: no later
\* token, sign-in or refresh brings it back.
EndedForGood ==
    \A s \in Sessions : Ended(s) =>
           /\ Ended(s)'
           /\ \A q \in Requests :
                 At(q, "arrived") /\ request[q].session = s => ~At(q, "authenticated")'

-----------------------------------------------------------------------------
(* What comments and docs say of it and the code does not keep.            *)

\* Logging out revokes the session the tab was signed in with.
LogoutRevokes ==
    \A p \in Pages : page[p].left # None /\ (\A q \in Requests : request[q] = None) =>
        Ended(page[p].left)

\* Nothing is taken from a device that had been revoked.
RevokedDeviceCannotSync ==
    \A q \in Requests : Changed(q) /\ request[q].kind = "write" => ~request[q].revoked

CanAsk(p) == page[p].csrf # 0 /\ GetActiveSessionByToken(cookie[BrowserOf[p]])
             /\ session[cookie[BrowserOf[p]]].csrf = page[p].csrf

\* A device whose lease has expired is authorised again while its user is
\* signed in.
Reauthorised ==
    \A p \in Pages :
        LET w == BrowserOf[p] IN
        lease[w] # None /\ lease[w].expired /\ CanAsk(p)
            ~> (lease[w] # None /\ ~lease[w].expired) \/ ~CanAsk(p)
=============================================================================

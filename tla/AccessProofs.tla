---------------------------- MODULE AccessProofs ----------------------------
(***************************************************************************)
(* For any users, businesses, roles, browsers, tabs, sessions and requests: *)
(* a change is carried out for the person its tab shows and with a token    *)
(* that was its session's, by a member who may do it; a lease stays within  *)
(* an enrolment; and a session that has ended serves no request.            *)
(***************************************************************************)
EXTENDS Access, TLAPS

Assumptions == RoleAssumption /\ BrowserAssumption /\ TriedAssumption /\ BoundsAssumption
               /\ NoneAssumption

\* If t is the token of a session, it is one of u's.
Mine(t, u) == t # 0 => \A s \in Sessions : session[s] # None /\ session[s].csrf = t => session[s].user = u

Served(c) == c.at = "answering" /\ c.ok /\ c.kind # "login"

\* What is known of a request by the step it is at.
ContextOK(c) ==
    /\ c.token <= tokens /\ c.fresh <= tokens
    /\ Mine(c.token, c.shown)
    /\ c.kind \in {"login", "me", "logout"} => c.business = None
    /\ c.kind = "login" => c.user # None /\ c.at # "authenticated"
    /\ c.kind = "revokeDevice" => c.target # None
    /\ c.at = "arrived" /\ GetActiveSessionByToken(c.session) /\ session[c.session].csrf = c.token => c.live
    /\ c.at = "authenticated" =>
          /\ c.session # None /\ session[c.session] # None
          /\ c.user # None /\ c.user = session[c.session].user
          /\ c.token = c.hash /\ c.token # 0 => c.user = c.shown /\ c.live
    /\ c.at = "answering" /\ c.ok /\ c.kind \in {"login", "me"} => c.user # None /\ Mine(c.fresh, c.user)
    /\ Served(c) => c.user # None
    /\ Served(c) /\ Unsafe(c.kind) => c.user = c.shown /\ c.live
    /\ Served(c) /\ c.business # None =>
          /\ Role[c.user][c.business] # None
          /\ c.capability # None => c.capability \in ForRole(Role[c.user][c.business])
    /\ Served(c) /\ c.kind = "enroll" =>
          /\ c.business # None
          /\ device[c.business][BrowserOf[c.page]] # None
          /\ device[c.business][BrowserOf[c.page]].user = c.user

RequestInv == \A q \in Requests : request[q] # None => ContextOK(request[q])

\* A tab holds no token of another person's session than the one it shows.
PageInv == \A p \in Pages : page[p].csrf <= tokens /\ Mine(page[p].csrf, page[p].user)

SessionInv == \A s \in Sessions : session[s] # None => session[s].csrf <= tokens

IInv == TypeOK /\ RequestInv /\ PageInv /\ SessionInv /\ LeaseWithinEnrolment

\* Sessions and devices stay whose they are, a session that has ended does not
\* come back, and the tokens that are issued are new.
Later ==
    /\ tokens' \in Nat /\ tokens <= tokens'
    /\ \A s \in Sessions : session[s] # None =>
          /\ session'[s] # None /\ session'[s].user = session[s].user
          /\ GetActiveSessionByTokenHash(s)' => GetActiveSessionByTokenHash(s)
          /\ session'[s].csrf = session[s].csrf \/ session'[s].csrf > tokens
    /\ \A s \in Sessions : session[s] = None /\ session'[s] # None => session'[s].csrf > tokens
    /\ \A b \in Businesses, w \in Browsers : device[b][w] # None
          => device'[b][w] # None /\ device'[b][w].user = device[b][w].user

LEMMA MineStays ==
    ASSUME TypeOK, Later, NEW t \in Nat, t <= tokens, NEW u, Mine(t, u)
    PROVE  Mine(t, u)'
<1> USE DEF Mine
<1> SUFFICES ASSUME t # 0, NEW s \in Sessions, session'[s] # None, session'[s].csrf = t
             PROVE  session'[s].user = u
  OBVIOUS
<1>1. tokens \in Int /\ ~(session'[s].csrf > tokens)
  BY DEF TypeOK, Token
<1> QED BY <1>1 DEF Later

LEMMA ContextStays ==
    ASSUME Assumptions, TypeOK, Later, NEW c \in Context, ContextOK(c)
    PROVE  ContextOK(c)'
<1>1. /\ c.token \in Nat /\ c.fresh \in Nat /\ tokens \in Nat /\ tokens' \in Nat
      /\ c.session \in Sessions \cup {None} /\ c.business \in Businesses \cup {None}
      /\ BrowserOf[c.page] \in Browsers
  BY DEF Context, TypeOK, Token, Assumptions, BoundsAssumption, BrowserAssumption, Later
<1>2. c.token <= tokens' /\ c.fresh <= tokens'
  BY <1>1 DEF ContextOK, Later
<1>3. Mine(c.token, c.shown)' /\ (Mine(c.fresh, c.user) => Mine(c.fresh, c.user)')
  BY <1>1, MineStays DEF ContextOK
<1>4. GetActiveSessionByToken(c.session)' /\ session'[c.session].csrf = c.token
      => GetActiveSessionByToken(c.session) /\ session[c.session].csrf = c.token
  <2>1. CASE c.session = None
    BY <2>1 DEF GetActiveSessionByToken
  <2>2. CASE c.session # None
    <3>1. c.session \in Sessions /\ ~(c.token > tokens)
      BY <1>1, <2>2 DEF ContextOK
    <3>2. GetActiveSessionByTokenHash(c.session)' /\ session'[c.session].csrf = c.token
          => session[c.session] # None /\ GetActiveSessionByTokenHash(c.session) /\ session[c.session].csrf = c.token
      BY <1>1, <3>1 DEF Later, GetActiveSessionByTokenHash
    <3> QED BY <2>2, <3>2 DEF GetActiveSessionByToken
  <2> QED BY <2>1, <2>2
<1>5. c.session # None /\ session[c.session] # None
      => session'[c.session] # None /\ session'[c.session].user = session[c.session].user
  BY <1>1 DEF Later
<1>6. c.business # None /\ device[c.business][BrowserOf[c.page]] # None
      => /\ device'[c.business][BrowserOf[c.page]] # None
         /\ device'[c.business][BrowserOf[c.page]].user = device[c.business][BrowserOf[c.page]].user
  BY <1>1 DEF Later
<1>7. Served(c) /\ c.kind = "enroll" => c.business # None /\ device[c.business][BrowserOf[c.page]] # None
                                         /\ device[c.business][BrowserOf[c.page]].user = c.user
  BY DEF ContextOK
<1>8. Served(c)' = Served(c)
  BY DEF Served
<1> QED BY <1>2, <1>3, <1>4, <1>5, <1>6, <1>7, <1>8 DEF ContextOK

LEMMA RequestsStay ==
    ASSUME Assumptions, IInv, Later, NEW q \in Requests, NEW c \in Context \cup {None},
           request' = [request EXCEPT ![q] = c], c = None \/ ContextOK(c)'
    PROVE  RequestInv'
<1> SUFFICES ASSUME NEW r \in Requests, request'[r] # None
             PROVE  ContextOK(request[r])'
  BY DEF RequestInv
<1>0. request'[q] = c /\ \A x \in Requests \ {q} : request'[x] = request[x]
  BY DEF IInv, TypeOK
<1>1. PICK d \in Context : request'[r] = d /\ ContextOK(d)'
  <2>1. CASE r = q
    BY <1>0, <2>1
  <2>2. CASE r # q
    <3>1. PICK d \in Context : request[r] = d
      BY <1>0, <2>2 DEF IInv, TypeOK
    <3>2. ContextOK(d) /\ TypeOK
      BY <1>0, <2>2, <3>1 DEF IInv, RequestInv, Assumptions, NoneAssumption
    <3>3. ContextOK(d)'
      BY <3>2, ContextStays
    <3> QED BY <1>0, <2>2, <3>1, <3>3
  <2> QED BY <2>1, <2>2
<1> QED BY <1>1 DEF ContextOK, Served, GetActiveSessionByToken, GetActiveSessionByTokenHash, Mine

LEMMA RequestsRest ==
    ASSUME Assumptions, IInv, Later, request' = request
    PROVE  RequestInv'
<1> SUFFICES ASSUME NEW r \in Requests, request'[r] # None
             PROVE  ContextOK(request[r])'
  BY DEF RequestInv
<1>1. PICK d \in Context : request[r] = d
  BY DEF IInv, TypeOK
<1>2. ContextOK(d) /\ TypeOK
  BY <1>1 DEF IInv, RequestInv, Assumptions, NoneAssumption
<1>3. ContextOK(d)'
  BY <1>2, ContextStays
<1> QED BY <1>1, <1>3 DEF ContextOK, Served, GetActiveSessionByToken, GetActiveSessionByTokenHash, Mine

LEMMA PagesStay ==
    ASSUME IInv, Later,
           \A p \in Pages : \/ page'[p] = page[p]
                           \/ \E t \in Nat, u \in Users \cup {None} :
                                 page'[p].csrf = t /\ page'[p].user = u /\ t <= tokens' /\ Mine(t, u)'
    PROVE  PageInv'
<1> SUFFICES ASSUME NEW p \in Pages
             PROVE  (page[p].csrf <= tokens /\ Mine(page[p].csrf, page[p].user))'
  BY DEF PageInv
<1>1. PICK t \in Nat, u \in Users \cup {None} :
         page'[p].csrf = t /\ page'[p].user = u /\ t <= tokens' /\ Mine(t, u)'
  <2>1. CASE page'[p] = page[p]
    <3>1. PICK t \in Nat, u \in Users \cup {None} : t = page[p].csrf /\ u = page[p].user
      <4>1. page[p].csrf \in Token /\ page[p].user \in Users \cup {None}
        BY DEF IInv, TypeOK, PageState
      <4> QED BY <4>1 DEF Token
    <3>2. TypeOK /\ t <= tokens /\ Mine(t, u)
      BY <3>1 DEF IInv, PageInv
    <3>3. Mine(t, u)'
      BY <3>2, MineStays
    <3>4. tokens \in Nat /\ tokens' \in Nat
      BY DEF IInv, TypeOK, Token, Later
    <3> QED BY <2>1, <3>1, <3>2, <3>3, <3>4 DEF Later
  <2> QED BY <2>1
<1> QED BY <1>1 DEF Mine

\* A step of a request, or of none, that leaves what the parts rely on.
LEMMA StepOfRequest ==
    ASSUME Assumptions, IInv, Later, TypeOK', PageInv', SessionInv', LeaseWithinEnrolment',
           NEW q \in Requests, NEW c \in Context \cup {None},
           request' = [request EXCEPT ![q] = c], c = None \/ ContextOK(c)'
    PROVE  IInv'
BY RequestsStay DEF IInv

\* A lease stays within an enrolment that stays.
LEMMA LeasesStay ==
    ASSUME IInv, Later, lease' = lease
    PROVE  LeaseWithinEnrolment'
<1> SUFFICES ASSUME NEW w \in Browsers, lease[w] # None
             PROVE  LET l == lease[w]  row == device'[l.business][w] IN
                    /\ row # None /\ row.user = l.user /\ l.role = Role[l.user][l.business]
                    /\ l.capabilities \subseteq ForRole(l.role) \cap ForRole(RoleStaff)
  BY DEF LeaseWithinEnrolment
<1>1. lease[w].business \in Businesses
  BY DEF IInv, TypeOK, LeasePayload
<1> QED BY <1>1 DEF IInv, LeaseWithinEnrolment, Later

-----------------------------------------------------------------------------
LEMMA RowsRest ==
    ASSUME IInv, UNCHANGED rows
    PROVE  Later /\ SessionInv'
BY DEF rows, Later, IInv, TypeOK, Token, GetActiveSessionByTokenHash, SessionInv

LEMMA NewSession ==
    ASSUME Assumptions, IInv, NEW s \in Sessions, NEW u \in Users, CreateSession(s, u), UNCHANGED device
    PROVE  /\ Later /\ SessionInv'
           /\ session' \in [Sessions -> SessionRow \cup {None}] /\ tokens' \in Token /\ tokens + 1 = tokens'
           /\ \A t \in Nat : t = tokens + 1 => Mine(t, u)'
<1> DEFINE row == [user |-> u, csrf |-> tokens + 1, revoked |-> FALSE, expired |-> FALSE]
<1>1. tokens \in Nat /\ tokens' = tokens + 1 /\ tokens' \in Token
  BY DEF IInv, TypeOK, Token, CreateSession, Assumptions, BoundsAssumption
<1>2. row \in SessionRow /\ row # None /\ row.csrf = tokens + 1 /\ row.user = u
  <2>1. tokens + 1 \in Token
    BY <1>1
  <2>2. row \in SessionRow
    BY <2>1 DEF SessionRow
  <2> QED BY <2>2 DEF Assumptions, NoneAssumption
<1>3. session[s] = None /\ session' = [session EXCEPT ![s] = row]
  BY DEF CreateSession, CreateSessionRow
<1> HIDE DEF row
<1>4. session'[s] = row /\ (\A r \in Sessions \ {s} : session'[r] = session[r])
      /\ session' \in [Sessions -> SessionRow \cup {None}]
  BY <1>2, <1>3 DEF IInv, TypeOK
<1>5. \A r \in Sessions : session[r] # None => session[r].csrf \in Nat /\ session[r].csrf <= tokens
  BY DEF IInv, TypeOK, SessionRow, Token, SessionInv
<1>6. Later
  BY <1>1, <1>2, <1>3, <1>4 DEF Later, GetActiveSessionByTokenHash, IInv, TypeOK
<1>7. SessionInv'
  BY <1>1, <1>2, <1>4, <1>5 DEF SessionInv
<1>8. \A t \in Nat : t = tokens + 1 => Mine(t, u)'
  BY <1>1, <1>2, <1>4, <1>5 DEF Mine
<1> QED BY <1>1, <1>4, <1>6, <1>7, <1>8

LEMMA NewToken ==
    ASSUME Assumptions, IInv, NEW s \in Sessions, session[s] # None, RotateCSRFToken(s), UNCHANGED device
    PROVE  /\ Later /\ SessionInv'
           /\ session' \in [Sessions -> SessionRow \cup {None}] /\ tokens' \in Token /\ tokens + 1 = tokens'
           /\ \A t \in Nat, u \in Users : t = tokens + 1 /\ u = session[s].user => Mine(t, u)'
<1> DEFINE row == [session[s] EXCEPT !.csrf = tokens + 1]
<1>1. tokens \in Nat /\ tokens' = tokens + 1 /\ tokens' \in Token
  BY DEF IInv, TypeOK, Token, RotateCSRFToken, Assumptions, BoundsAssumption
<1>2. session[s] \in SessionRow
  BY DEF IInv, TypeOK
<1>3. row \in SessionRow /\ row # None /\ row.csrf = tokens + 1 /\ row.user = session[s].user
      /\ row.revoked = session[s].revoked /\ row.expired = session[s].expired
  BY <1>1, <1>2 DEF SessionRow, Assumptions, NoneAssumption
<1>4. session' = [session EXCEPT ![s] = row]
  BY DEF RotateCSRFToken, UpdateSessionCSRFTokenHash
<1> HIDE DEF row
<1>5. session'[s] = row /\ (\A r \in Sessions \ {s} : session'[r] = session[r])
      /\ session' \in [Sessions -> SessionRow \cup {None}]
  BY <1>3, <1>4 DEF IInv, TypeOK
<1>6. \A r \in Sessions : session[r] # None => session[r].csrf \in Nat /\ session[r].csrf <= tokens
  BY DEF IInv, TypeOK, SessionRow, Token, SessionInv
<1>7. Later
  BY <1>1, <1>3, <1>5 DEF Later, GetActiveSessionByTokenHash, IInv, TypeOK
<1>8. SessionInv'
  BY <1>1, <1>3, <1>5, <1>6 DEF SessionInv
<1>9. \A t \in Nat, u \in Users : t = tokens + 1 /\ u = session[s].user => Mine(t, u)'
  <2> SUFFICES ASSUME NEW r \in Sessions, session'[r] # None, session'[r].csrf = tokens + 1
               PROVE  session'[r].user = session[s].user
    BY DEF Mine
  <2> QED BY <1>1, <1>3, <1>5, <1>6
<1> QED BY <1>1, <1>5, <1>7, <1>8, <1>9

\* A session that ends keeps its person and its token.
LEMMA EndedSession ==
    ASSUME Assumptions, IInv, NEW s \in Sessions, session[s] # None, UNCHANGED <<device, tokens>>,
           \/ session' = [session EXCEPT ![s].expired = TRUE]
           \/ session' = [session EXCEPT ![s].revoked = TRUE]
           \/ session' = session
    PROVE  Later /\ SessionInv' /\ session' \in [Sessions -> SessionRow \cup {None}]
<1>1. PICK row \in SessionRow :
         /\ session' = [session EXCEPT ![s] = row]
         /\ row.user = session[s].user /\ row.csrf = session[s].csrf
         /\ session[s].revoked => row.revoked
         /\ session[s].expired => row.expired
  <2>1. session[s] \in SessionRow
    BY DEF IInv, TypeOK
  <2>2. CASE session' = [session EXCEPT ![s].expired = TRUE]
    <3>1. [session[s] EXCEPT !.expired = TRUE] \in SessionRow
      BY <2>1 DEF SessionRow
    <3> QED BY <2>1, <2>2, <3>1 DEF SessionRow
  <2>3. CASE session' = [session EXCEPT ![s].revoked = TRUE]
    <3>1. [session[s] EXCEPT !.revoked = TRUE] \in SessionRow
      BY <2>1 DEF SessionRow
    <3> QED BY <2>1, <2>3, <3>1 DEF SessionRow
  <2>4. CASE session' = session
    <3>1. session' = [session EXCEPT ![s] = session[s]]
      BY <2>4 DEF IInv, TypeOK
    <3> QED BY <2>1, <3>1
  <2> QED BY <2>2, <2>3, <2>4
<1>2. row # None /\ session'[s] = row /\ (\A r \in Sessions \ {s} : session'[r] = session[r])
      /\ session' \in [Sessions -> SessionRow \cup {None}]
  BY <1>1 DEF IInv, TypeOK, Assumptions, NoneAssumption
<1>3. tokens \in Nat
  BY DEF IInv, TypeOK, Token
<1>4. Later
  BY <1>1, <1>2, <1>3 DEF Later, GetActiveSessionByTokenHash, IInv, TypeOK
<1>5. SessionInv'
  BY <1>1, <1>2 DEF IInv, SessionInv
<1> QED BY <1>2, <1>4, <1>5

-----------------------------------------------------------------------------
\* What a tab sends: the session of its browser's cookie, and the token that it has.
Message(p, kind, b, c, u, w, live, revoked) ==
    [at |-> "arrived", kind |-> kind, page |-> p, session |-> cookie[BrowserOf[p]], token |-> page[p].csrf,
     business |-> b, capability |-> c, target |-> w, user |-> u, hash |-> 0, ok |-> FALSE,
     fresh |-> 0, shown |-> page[p].user, live |-> live, revoked |-> revoked]

SendsLive(p) == GetActiveSessionByToken(cookie[BrowserOf[p]]) /\ session[cookie[BrowserOf[p]]].csrf = page[p].csrf

LEMMA FetchIsMessage ==
    ASSUME NEW q, NEW p, NEW kind, NEW b, NEW c
    PROVE  \E live, revoked \in BOOLEAN :
              live = SendsLive(p) /\ Fetch(q, p, kind, b, c) = Message(p, kind, b, c, None, None, live, revoked)
<1>1. SendsLive(p) \in BOOLEAN /\ DeviceRevoked(b, BrowserOf[p]) \in BOOLEAN
  BY DEF SendsLive, DeviceRevoked
<1>2. Fetch(q, p, kind, b, c) = Message(p, kind, b, c, None, None, SendsLive(p), DeviceRevoked(b, BrowserOf[p]))
  BY Zenon DEF Fetch, Message, SendsLive
<1> QED BY <1>1, <1>2, Zenon

\* x is sent by p with what p has.
SentBy(x, p) ==
    /\ x.at = "arrived" /\ x.fresh = 0
    /\ x.session = cookie[BrowserOf[p]] /\ x.token = page[p].csrf /\ x.shown = page[p].user
    /\ SendsLive(p) => x.live

LEMMA SentOK ==
    ASSUME Assumptions, IInv, NEW p \in Pages, NEW x \in Context, SentBy(x, p),
           x.kind = "login" => x.user # None, x.kind \in {"login", "me", "logout"} => x.business = None,
           x.kind = "revokeDevice" => x.target # None
    PROVE  ContextOK(x)
<1>1. page[p].csrf \in Nat /\ tokens \in Nat /\ page[p].csrf <= tokens /\ Mine(page[p].csrf, page[p].user)
  BY DEF IInv, TypeOK, PageState, Token, PageInv
<1> QED BY <1>1 DEF SentBy, SendsLive, ContextOK, Served

LEMMA Fetched ==
    ASSUME Assumptions, IInv, NEW q \in Requests, NEW p \in Pages, NEW kind \in Kinds,
           NEW b \in Businesses \cup {None}, NEW c \in Tried \cup {None}
    PROVE  LET x == Fetch(q, p, kind, b, c) IN
           x \in Context /\ SentBy(x, p) /\ x.kind = kind /\ x.business = b
<1>1. PICK live, revoked \in BOOLEAN :
         live = SendsLive(p) /\ Fetch(q, p, kind, b, c) = Message(p, kind, b, c, None, None, live, revoked)
  BY FetchIsMessage
<1> DEFINE x == Message(p, kind, b, c, None, None, live, revoked)
<1>2. /\ page[p].csrf \in Token /\ page[p].user \in Users \cup {None}
      /\ cookie[BrowserOf[p]] \in Sessions \cup {None} /\ 0 \in Token
  BY DEF IInv, TypeOK, PageState, Token, Assumptions, BrowserAssumption, BoundsAssumption
<1>3. x \in Context
  BY <1>2 DEF Message, Context
<1>4. x.live = live
  BY DEF Message
<1>5. /\ x.at = "arrived" /\ x.fresh = 0 /\ x.session = cookie[BrowserOf[p]] /\ x.token = page[p].csrf
      /\ x.shown = page[p].user /\ x.kind = kind /\ x.business = b
  BY DEF Message
<1> HIDE DEF x
<1>6. SentBy(x, p)
  BY <1>1, <1>4, <1>5 DEF SentBy
<1> QED BY <1>1, <1>3, <1>5, <1>6 DEF x

LEMMA FetchedWith ==
    ASSUME NEW x \in Context, NEW p, SentBy(x, p), NEW u \in Users, NEW w \in Browsers
    PROVE  /\ [x EXCEPT !.user = u] \in Context /\ SentBy([x EXCEPT !.user = u], p)
           /\ [x EXCEPT !.user = u].kind = x.kind /\ [x EXCEPT !.user = u].business = x.business
           /\ [x EXCEPT !.user = u].user = u
           /\ [x EXCEPT !.target = w] \in Context /\ SentBy([x EXCEPT !.target = w], p)
           /\ [x EXCEPT !.target = w].target = w
           /\ [x EXCEPT !.target = w].kind = x.kind /\ [x EXCEPT !.target = w].business = x.business
<1>1. [x EXCEPT !.user = u] \in Context /\ [x EXCEPT !.target = w] \in Context
  BY DEF Context
<1>2. /\ [x EXCEPT !.user = u].kind = x.kind /\ [x EXCEPT !.user = u].business = x.business
      /\ [x EXCEPT !.user = u].user = u /\ [x EXCEPT !.target = w].target = w
      /\ [x EXCEPT !.target = w].kind = x.kind /\ [x EXCEPT !.target = w].business = x.business
  BY DEF Context
<1>3. SentBy([x EXCEPT !.user = u], p)
  BY DEF Context, SentBy
<1>4. SentBy([x EXCEPT !.target = w], p)
  BY DEF Context, SentBy
<1> QED BY <1>1, <1>2, <1>3, <1>4

LEMMA Sending ==
    ASSUME Assumptions, IInv, NEW q \in Requests, NEW p \in Pages,
           \/ \E u \in Users : SendLogin(q, p, u)
           \/ refresh(q, p)
           \/ SendLogout(q, p)
           \/ \E b \in Businesses :
                 \/ enroll(q, p, b)
                 \/ \E w \in Browsers : SendRevoke(q, p, b, w)
                 \/ \E c \in Tried : SendRead(q, p, b, c) \/ SendWrite(q, p, b, c)
    PROVE  IInv'
<1>1. UNCHANGED <<rows, lease, cookie, lost>>
  BY DEF SendLogin, refresh, SendLogout, enroll, SendRevoke, SendRead, SendWrite, tab
<1>2. \/ UNCHANGED <<page, cached>>
      \/ /\ page' = [page EXCEPT ![p] = [user |-> None, csrf |-> 0, left |-> cookie[BrowserOf[p]]]]
         /\ cached' = [cached EXCEPT ![BrowserOf[p]] = None]
  BY DEF SendLogin, refresh, SendLogout, LeaveSession, enroll, SendRevoke, SendRead, SendWrite, tab
<1>3. request' = request \/ \E x \in Context : request' = [request EXCEPT ![q] = x] /\ ContextOK(x)
  <2> DEFINE Goal == \E x \in Context : request' = [request EXCEPT ![q] = x] /\ ContextOK(x)
  <2>0. ASSUME NEW kind \in Kinds \ {"login", "revokeDevice"}, NEW b \in Businesses \cup {None}, NEW c \in Tried \cup {None},
               kind \in {"me", "logout"} => b = None,
               request' = [request EXCEPT ![q] = Fetch(q, p, kind, b, c)]
        PROVE  Goal
    <3> DEFINE x == Fetch(q, p, kind, b, c)
    <3>1. x \in Context /\ SentBy(x, p) /\ x.kind = kind /\ x.business = b
      BY Fetched
    <3> HIDE DEF x
    <3>2. ContextOK(x)
      BY <2>0, <3>1, SentOK
    <3> QED BY <2>0, <3>1, <3>2 DEF x
  <2> HIDE DEF Goal
  <2>1. ASSUME NEW u \in Users, SendLogin(q, p, u) PROVE Goal
    <3> DEFINE x == Fetch(q, p, "login", None, None)
               y == [x EXCEPT !.user = u]
    <3>1. x \in Context /\ SentBy(x, p) /\ x.kind = "login" /\ x.business = None
      BY Fetched DEF Kinds
    <3>2. request' = [request EXCEPT ![q] = y]
      BY <2>1 DEF SendLogin, Begin
    <3> HIDE DEF x
    <3>3. y \in Context /\ SentBy(y, p) /\ y.kind = "login" /\ y.business = None /\ y.user # None
      <4>1. PICK w : w \in Browsers
        BY DEF Assumptions, BrowserAssumption
      <4> QED BY <3>1, <4>1, FetchedWith DEF Assumptions, NoneAssumption
    <3> HIDE DEF y
    <3>4. ContextOK(y)
      BY <3>3, SentOK
    <3> QED BY <3>2, <3>3, <3>4 DEF Goal
  <2>2. CASE refresh(q, p)
    <3>1. Goal
      BY <2>0, <2>2 DEF refresh, Begin, Kinds
    <3> QED BY <3>1 DEF Goal
  <2>3. CASE SendLogout(q, p)
    <3>1. CASE request' = [request EXCEPT ![q] = Fetch(q, p, "logout", None, None)]
      <4>1. Goal
        BY <2>0, <3>1 DEF Kinds
      <4> QED BY <4>1 DEF Goal
    <3>2. CASE request' = request
      BY <3>2
    <3> QED BY <2>3, <3>1, <3>2 DEF SendLogout, Begin
  <2>4. ASSUME NEW b \in Businesses, enroll(q, p, b) PROVE Goal
    <3>1. request' = [request EXCEPT ![q] = Fetch(q, p, "enroll", b, None)]
      BY <2>4 DEF enroll, Begin
    <3> QED BY <2>0, <3>1 DEF Kinds
  <2>5. ASSUME NEW b \in Businesses, NEW w \in Browsers, SendRevoke(q, p, b, w) PROVE Goal
    <3> DEFINE x == Fetch(q, p, "revokeDevice", b, "devices:manage")
               y == [x EXCEPT !.target = w]
    <3>1. x \in Context /\ SentBy(x, p) /\ x.kind = "revokeDevice"
      BY <2>5, Fetched DEF Kinds, SendRevoke
    <3>2. request' = [request EXCEPT ![q] = y]
      BY <2>5 DEF SendRevoke, Begin
    <3>3. page[p].user \in Users
      BY <2>5 DEF SendRevoke, SignedIn, IInv, TypeOK, PageState
    <3> HIDE DEF x
    <3>4. y \in Context /\ SentBy(y, p) /\ y.kind = "revokeDevice" /\ y.target # None
      BY <3>1, <3>3, FetchedWith DEF Assumptions, NoneAssumption
    <3> HIDE DEF y
    <3>5. ContextOK(y)
      BY <3>4, SentOK
    <3> QED BY <3>2, <3>4, <3>5 DEF Goal
  <2>6. ASSUME NEW b \in Businesses, NEW c \in Tried, SendRead(q, p, b, c) PROVE Goal
    <3>1. request' = [request EXCEPT ![q] = Fetch(q, p, "read", b, c)]
      BY <2>6 DEF SendRead, Begin
    <3> QED BY <2>0, <3>1 DEF Kinds
  <2>7. ASSUME NEW b \in Businesses, NEW c \in Tried, SendWrite(q, p, b, c) PROVE Goal
    <3>1. request' = [request EXCEPT ![q] = Fetch(q, p, "write", b, c)]
      BY <2>7 DEF SendWrite, Begin
    <3> QED BY <2>0, <3>1 DEF Kinds
  <2> QED BY <2>1, <2>2, <2>3, <2>4, <2>5, <2>6, <2>7 DEF Goal
<1>4. Later /\ SessionInv'
  BY <1>1, RowsRest
<1>5. page' \in [Pages -> PageState] /\ \A r \in Pages : page'[r] = page[r] \/ (page'[r].csrf = 0 /\ page'[r].user = None)
  <2>1. [user |-> None, csrf |-> 0, left |-> cookie[BrowserOf[p]]] \in PageState
    BY DEF PageState, Token, IInv, TypeOK, Assumptions, BrowserAssumption, BoundsAssumption
  <2> QED BY <1>2, <2>1 DEF IInv, TypeOK
<1>6. TypeOK'
  <2>1. cached' \in [Browsers -> Users \cup {None}]
    BY <1>2 DEF IInv, TypeOK
  <2> QED BY <1>1, <1>3, <1>5, <2>1 DEF IInv, TypeOK, rows
<1>7. PageInv'
  <2>1. tokens' \in Nat /\ Mine(0, None)'
    BY <1>6 DEF TypeOK, Token, Mine
  <2> QED BY <1>4, <1>5, <1>6, <2>1, PagesStay
<1>8. LeaseWithinEnrolment'
  BY <1>1, <1>4, <1>6, LeasesStay
<1>9. CASE request' = request
  BY <1>4, <1>6, <1>7, <1>8, <1>9, RequestsRest DEF IInv
<1>10. ASSUME NEW x \in Context, request' = [request EXCEPT ![q] = x], ContextOK(x) PROVE IInv'
  <2>1. ContextOK(x)'
    BY <1>4, <1>6, <1>10, ContextStays DEF IInv
  <2> QED BY <1>4, <1>6, <1>7, <1>8, <1>10, <2>1, StepOfRequest
<1> QED BY <1>3, <1>9, <1>10


-----------------------------------------------------------------------------
(* The server's steps.                                                     *)

LEMMA Refused ==
    ASSUME Assumptions, IInv, NEW q \in Requests, request[q] # None, Refuse(q)
    PROVE  \E c \in Context : request' = [request EXCEPT ![q] = c] /\ ContextOK(c)
<1> DEFINE r == request[q]
           c == [r EXCEPT !.at = "answering", !.ok = FALSE]
<1>1. r \in Context /\ ContextOK(r)
  BY DEF IInv, TypeOK, RequestInv
<1>2. request' = [request EXCEPT ![q] = c]
  BY <1>1 DEF Refuse
<1> HIDE DEF r
<1>3. /\ c \in Context /\ c.at = "answering" /\ c.ok = FALSE
      /\ c.kind = r.kind /\ c.token = r.token /\ c.fresh = r.fresh /\ c.shown = r.shown
      /\ c.business = r.business /\ c.user = r.user /\ c.target = r.target
  BY <1>1 DEF Context
<1> HIDE DEF c
<1>4. ContextOK(c)
  BY <1>1, <1>3 DEF ContextOK, Served
<1> QED BY <1>2, <1>3, <1>4

LEMMA Accepted ==
    ASSUME Assumptions, IInv, Later, NEW q \in Requests, At(q, "authenticated"), NEW csrf \in Token,
           csrf <= tokens', Accept(q, csrf), Passes(q) \/ request[q].kind = "me",
           \A u \in Users : request[q].kind = "me" /\ u = request[q].user => Mine(csrf, u)',
           \A b \in Businesses, w \in Browsers :
               request[q].kind = "enroll" /\ b = request[q].business /\ w = BrowserOf[request[q].page]
               => device'[b][w] # None /\ device'[b][w].user = request[q].user
    PROVE  \E c \in Context : request' = [request EXCEPT ![q] = c] /\ ContextOK(c)'
<1> DEFINE r == request[q]
           d == [r EXCEPT !.at = "answering", !.ok = TRUE, !.fresh = csrf]
<1>1. r \in Context /\ ContextOK(r) /\ r.at = "authenticated"
  BY DEF IInv, TypeOK, RequestInv, At
<1>2. request' = [request EXCEPT ![q] = d]
  BY <1>1 DEF Accept
<1>3. PICK c \in Context :
        /\ request' = [request EXCEPT ![q] = c] /\ c.at = "answering" /\ c.ok = TRUE /\ c.fresh = csrf
        /\ c.kind = r.kind /\ c.token = r.token /\ c.shown = r.shown /\ c.live = r.live /\ c.page = r.page
        /\ c.target = r.target
        /\ c.business = r.business /\ c.capability = r.capability /\ c.user = r.user
  <2> HIDE DEF r
  <2>1. d \in Context
    BY <1>1 DEF Context
  <2>2. /\ d.at = "answering" /\ d.ok = TRUE /\ d.fresh = csrf
        /\ d.kind = r.kind /\ d.token = r.token /\ d.shown = r.shown /\ d.page = r.page /\ d.target = r.target
        /\ d.business = r.business /\ d.capability = r.capability /\ d.user = r.user
    BY <1>1 DEF Context
  <2>3. d.live = r.live
    BY <1>1 DEF Context
  <2> QED BY <1>2, <2>1, <2>2, <2>3
<1>4. r.user \in Users /\ r.business \in Businesses \cup {None} /\ BrowserOf[r.page] \in Browsers
  BY <1>1 DEF ContextOK, Context, Assumptions, BrowserAssumption
<1>5. tokens \in Nat /\ tokens' \in Nat /\ tokens <= tokens' /\ c.token \in Nat /\ c.token <= tokens
  BY <1>1, <1>3 DEF Later, IInv, TypeOK, Token, Context, ContextOK
<1>6. Mine(c.token, c.shown)'
  <2>1. Mine(c.token, c.shown) /\ TypeOK
    BY <1>1, <1>3 DEF ContextOK, IInv
  <2> QED BY <1>5, <2>1, MineStays
<1>7. c.kind \in {"login", "me", "logout"} => c.business = None
  BY <1>1, <1>3 DEF ContextOK
<1>8. c.kind = "me" => Mine(c.fresh, c.user)'
  <2>1. c.kind = "me" => Mine(csrf, c.user)'
    BY <1>3, <1>4
  <2> QED BY <2>1, <1>3 DEF Mine
<1>9. c.user # None /\ c.kind # "login" /\ (c.kind = "revokeDevice" => c.target # None)
  BY <1>1, <1>3 DEF ContextOK
<1>10. Unsafe(c.kind) => c.user = c.shown /\ c.live
  <2>1. CASE Passes(q)
    BY <1>1, <1>3, <2>1 DEF Passes, requireCSRF, ContextOK
  <2>2. CASE r.kind = "me"
    BY <1>3, <2>2 DEF Unsafe
  <2> QED BY <2>1, <2>2
<1>11. c.business # None =>
          /\ Role[c.user][c.business] # None
          /\ c.capability # None => c.capability \in ForRole(Role[c.user][c.business])
  <2>1. CASE r.kind = "me"
    BY <1>3, <1>7, <2>1
  <2>2. CASE Passes(q)
    BY <1>3, <1>7, <2>2 DEF Passes, requireBusinessContext, requireCapability, GetMembership, GetMembershipRow
  <2> QED BY <2>1, <2>2
<1>12. c.kind = "enroll" =>
          /\ c.business # None
          /\ device'[c.business][BrowserOf[c.page]] # None
          /\ device'[c.business][BrowserOf[c.page]].user = c.user
  <2> SUFFICES ASSUME r.kind = "enroll"
               PROVE  r.business # None /\ device'[r.business][BrowserOf[r.page]] # None
                      /\ device'[r.business][BrowserOf[r.page]].user = r.user
    BY <1>3
  <2>1. r.business # None
    BY DEF Passes, requireBusinessContext, GetMembership
  <2> QED BY <1>4, <2>1
<1> HIDE DEF r, d
<1>13. ContextOK(c)'
  BY <1>3, <1>5, <1>6, <1>7, <1>8, <1>9, <1>10, <1>11, <1>12 DEF ContextOK, Served
<1> QED BY <1>3, <1>13

LEMMA Checking ==
    ASSUME Assumptions, IInv, NEW q \in Requests, requireAuth(q) \/ RefuseUnauthorised(q)
    PROVE  IInv'
<1> DEFINE r == request[q]
           s == r.session
           c == [r EXCEPT !.at = "authenticated", !.user = session[s].user, !.hash = session[s].csrf]
<1>1. r \in Context /\ ContextOK(r)
  BY DEF IInv, TypeOK, RequestInv, requireAuth, RefuseUnauthorised, At
<1>2. \E x \in Context : request' = [request EXCEPT ![q] = x] /\ ContextOK(x)
  <2>1. CASE Refuse(q)
    BY <2>1, Refused DEF requireAuth, RefuseUnauthorised, At
  <2>2. CASE requireAuth(q) /\ GetActiveSessionByToken(s) /\ request' = [request EXCEPT ![q] = c]
    <3>1. r.at = "arrived" /\ r.kind # "login"
      BY <2>2 DEF requireAuth, At
    <3>2. s \in Sessions /\ session[s] # None /\ session[s] \in SessionRow
      BY <1>1, <2>2 DEF GetActiveSessionByToken, GetActiveSessionByTokenHash, Context, IInv, TypeOK
    <3> HIDE DEF r
    <3>3. /\ c \in Context /\ c.at = "authenticated" /\ c.user = session[s].user /\ c.hash = session[s].csrf
          /\ c.kind = r.kind /\ c.token = r.token /\ c.fresh = r.fresh /\ c.shown = r.shown
          /\ c.business = r.business /\ c.session = s /\ c.target = r.target
      BY <1>1, <3>2 DEF Context, SessionRow
    <3>4. c.live = r.live
      BY <1>1 DEF Context
    <3>5. c.user \in Users /\ c.user # None /\ s # None
      BY <3>2, <3>3 DEF SessionRow, Assumptions, NoneAssumption
    <3>6. c.token = c.hash /\ c.token # 0 => c.user = c.shown /\ c.live
      BY <1>1, <2>2, <3>1, <3>2, <3>3, <3>4 DEF ContextOK, Mine
    <3> HIDE DEF c
    <3>7. ContextOK(c)
      BY <1>1, <3>1, <3>2, <3>3, <3>5, <3>6 DEF ContextOK, Served
    <3> QED BY <2>2, <3>3, <3>7
  <2> QED BY <2>1, <2>2 DEF requireAuth, RefuseUnauthorised
<1>3. PICK x \in Context : request' = [request EXCEPT ![q] = x] /\ ContextOK(x)
  BY <1>2
<1>4. UNCHANGED <<rows, tab, lost>>
  BY DEF requireAuth, RefuseUnauthorised
<1>5. Later /\ SessionInv' /\ TypeOK /\ TypeOK'
  BY <1>3, <1>4, RowsRest DEF IInv, TypeOK, rows, tab
<1>6. PageInv' /\ LeaseWithinEnrolment'
  BY <1>4, <1>5, PagesStay, LeasesStay DEF tab
<1>7. ContextOK(x)'
  BY <1>3, <1>5, ContextStays
<1> QED BY <1>3, <1>5, <1>6, <1>7, StepOfRequest

LEMMA LogsIn ==
    ASSUME Assumptions, IInv, NEW q \in Requests, login(q)
    PROVE  IInv'
<1>1. PICK r \in Context : request[q] = r /\ ContextOK(r) /\ r.at = "arrived" /\ r.kind = "login"
  BY DEF IInv, TypeOK, RequestInv, login, At
<1>2. r.user \in Users
  BY <1>1 DEF Context, ContextOK
<1>3. PICK s \in Sessions :
         CreateSession(s, r.user)
         /\ request' = [request EXCEPT ![q] = [r EXCEPT !.at = "answering", !.ok = TRUE,
                                                      !.fresh = tokens + 1, !.session = s]]
  <2>1. PICK s \in Sessions :
           CreateSession(s, r.user)
           /\ request' = [request EXCEPT ![q].at = "answering", ![q].ok = TRUE,
                                         ![q].fresh = tokens + 1, ![q].session = s]
    BY <1>1 DEF login
  <2>2. request \in [Requests -> Context \cup {None}]
    BY DEF IInv, TypeOK
  <2> QED BY <1>1, <2>1, <2>2
<1> DEFINE c == [r EXCEPT !.at = "answering", !.ok = TRUE, !.fresh = tokens + 1, !.session = s]
<1>4. UNCHANGED <<device, tab, lost>>
  BY DEF login
<1>5. /\ Later /\ SessionInv'
      /\ session' \in [Sessions -> SessionRow \cup {None}] /\ tokens' \in Token /\ tokens + 1 = tokens'
      /\ \A t \in Nat : t = tokens + 1 => Mine(t, r.user)'
  <2>1. PICK u \in Users : u = r.user
    BY <1>2
  <2>2. /\ Later /\ SessionInv'
        /\ session' \in [Sessions -> SessionRow \cup {None}] /\ tokens' \in Token /\ tokens + 1 = tokens'
        /\ \A t \in Nat : t = tokens + 1 => Mine(t, u)'
    BY <1>3, <1>4, <2>1, NewSession
  <2> QED BY <2>1, <2>2 DEF Mine
<1>6. /\ c \in Context /\ c.at = "answering" /\ c.ok = TRUE /\ c.fresh = tokens + 1
      /\ c.kind = r.kind /\ c.token = r.token /\ c.shown = r.shown
      /\ c.business = r.business /\ c.user = r.user
  <2>1. tokens + 1 \in Token
    BY <1>5
  <2> QED BY <1>1, <2>1 DEF Context
<1>7. request' = [request EXCEPT ![q] = c]
  BY <1>3
<1> HIDE DEF c
<1>8. PICK x \in Context : x = c /\ Mine(x.fresh, x.user)'
  <2>2. PICK x \in Context : x = c
    BY <1>6
  <2>1. x.user = r.user
    BY <1>6, <2>2
  <2>3. x.fresh \in Nat /\ x.fresh = tokens + 1
    BY <1>6, <2>2 DEF Context, Token
  <2>4. Mine(x.fresh, x.user)'
    BY <1>5, <2>1, <2>3
  <2> QED BY <2>2, <2>4
<1>9. Mine(x.token, x.shown)' /\ x.token <= tokens'
  <2>1. x.token \in Nat /\ x.token <= tokens /\ Mine(x.token, x.shown) /\ TypeOK /\ tokens \in Nat
    BY <1>1, <1>6, <1>8 DEF ContextOK, Context, Token, IInv, TypeOK
  <2>2. Mine(x.token, x.shown)'
    BY <1>5, <2>1, MineStays
  <2> QED BY <1>5, <2>1, <2>2 DEF Later
<1>10. ContextOK(x)'
  <2>1. /\ x.at = "answering" /\ x.kind = "login" /\ x.user # None /\ x.business = None
        /\ x.fresh <= tokens'
    BY <1>1, <1>2, <1>5, <1>6, <1>8 DEF ContextOK, Assumptions, NoneAssumption, Token
  <2> QED BY <1>8, <1>9, <2>1 DEF ContextOK, Served
<1>11. TypeOK'
  BY <1>4, <1>5, <1>6, <1>7 DEF IInv, TypeOK, tab
<1>12. PageInv' /\ LeaseWithinEnrolment'
  BY <1>4, <1>5, PagesStay, LeasesStay DEF tab
<1> QED BY <1>5, <1>7, <1>8, <1>10, <1>11, <1>12, StepOfRequest

\* What the accepting steps have in common.
LEMMA Accepting ==
    ASSUME Assumptions, IInv, Later, SessionInv', NEW q \in Requests, At(q, "authenticated"),
           NEW csrf \in Token, csrf <= tokens', Accept(q, csrf), Passes(q) \/ request[q].kind = "me",
           \A u \in Users : request[q].kind = "me" /\ u = request[q].user => Mine(csrf, u)',
           \A b \in Businesses, w \in Browsers :
               request[q].kind = "enroll" /\ b = request[q].business /\ w = BrowserOf[request[q].page]
               => device'[b][w] # None /\ device'[b][w].user = request[q].user,
           UNCHANGED <<tab, lost>>, session' \in [Sessions -> SessionRow \cup {None}], tokens' \in Token,
           device' \in [Businesses -> [Browsers -> DeviceRow \cup {None}]]
    PROVE  IInv'
<1>1. PICK c \in Context : request' = [request EXCEPT ![q] = c] /\ ContextOK(c)'
  BY Accepted
<1>2. TypeOK'
  BY <1>1 DEF IInv, TypeOK, tab
<1>3. PageInv' /\ LeaseWithinEnrolment'
  BY PagesStay, LeasesStay DEF tab
<1> QED BY <1>1, <1>2, <1>3, StepOfRequest

LEMMA ServesMe ==
    ASSUME Assumptions, IInv, NEW q \in Requests, me(q)
    PROVE  IInv'
<1>1. /\ At(q, "authenticated") /\ request[q].kind = "me" /\ RotateCSRFToken(request[q].session)
      /\ Accept(q, tokens + 1) /\ UNCHANGED <<device, tab, lost>>
  BY DEF me, Is
<1>2. PICK s \in Sessions : s = request[q].session /\ session[s] # None /\ session[s].user = request[q].user
  BY <1>1 DEF At, IInv, RequestInv, ContextOK, TypeOK, Context
<1>3. /\ Later /\ SessionInv'
      /\ session' \in [Sessions -> SessionRow \cup {None}] /\ tokens' \in Token /\ tokens + 1 = tokens'
      /\ \A t \in Nat, u \in Users : t = tokens + 1 /\ u = session[s].user => Mine(t, u)'
  BY <1>1, <1>2, NewToken
<1>4. PICK csrf \in Token : csrf = tokens + 1 /\ csrf \in Nat /\ csrf <= tokens'
  BY <1>3 DEF Token
<1>5. \A u \in Users : u = request[q].user => Mine(csrf, u)'
  BY <1>2, <1>3, <1>4
<1>6. device' \in [Businesses -> [Browsers -> DeviceRow \cup {None}]]
  BY <1>1 DEF IInv, TypeOK
<1> QED BY <1>1, <1>3, <1>4, <1>5, <1>6, Accepting

LEMMA LogsOut ==
    ASSUME Assumptions, IInv, NEW q \in Requests, logout(q)
    PROVE  IInv'
<1>1. /\ At(q, "authenticated") /\ request[q].kind = "logout" /\ Passes(q)
      /\ RevokeSession(request[q].user, request[q].session) /\ Accept(q, 0)
      /\ UNCHANGED <<device, tokens, tab, lost>>
  BY DEF logout, Is
<1>2. PICK s \in Sessions : s = request[q].session /\ session[s] # None
  BY <1>1 DEF At, IInv, RequestInv, ContextOK, TypeOK, Context
<1>3. Later /\ SessionInv' /\ session' \in [Sessions -> SessionRow \cup {None}]
  BY <1>1, <1>2, EndedSession DEF RevokeSession
<1>4. 0 \in Token /\ 0 <= tokens' /\ tokens' \in Token /\ device' \in [Businesses -> [Browsers -> DeviceRow \cup {None}]]
  BY <1>1 DEF IInv, TypeOK, Token, Assumptions, BoundsAssumption
<1> QED BY <1>1, <1>3, <1>4, Accepting

LEMMA Serves ==
    ASSUME Assumptions, IInv, NEW q \in Requests, Serve(q)
    PROVE  IInv'
<1>1. /\ At(q, "authenticated") /\ request[q].kind \in {"read", "write"} /\ Passes(q) /\ Accept(q, 0)
      /\ UNCHANGED <<rows, tab, lost>>
  BY DEF Serve, Is
<1>2. Later /\ SessionInv'
  BY <1>1, RowsRest
<1>3. 0 \in Token /\ 0 <= tokens' /\ tokens' \in Token /\ session' \in [Sessions -> SessionRow \cup {None}]
      /\ device' \in [Businesses -> [Browsers -> DeviceRow \cup {None}]]
  BY <1>1 DEF IInv, TypeOK, Token, rows, Assumptions, BoundsAssumption
<1> QED BY <1>1, <1>2, <1>3, Accepting

\* Devices only come, and stay whose they are.
LEMMA Devices ==
    ASSUME Assumptions, IInv, UNCHANGED <<session, tokens>>, NEW b \in Businesses, NEW w \in Browsers,
           \/ device' = device
           \/ \E u \in Users : CreateDeviceRow(b, w, u)
           \/ RevokeDeviceRow(b, w)
    PROVE  /\ Later /\ SessionInv' /\ device' \in [Businesses -> [Browsers -> DeviceRow \cup {None}]]
           /\ \A u \in Users : CreateDeviceRow(b, w, u) => device'[b][w] # None /\ device'[b][w].user = u
<1>1. /\ device' \in [Businesses -> [Browsers -> DeviceRow \cup {None}]]
      /\ \A x \in Businesses, y \in Browsers : device[x][y] # None
            => device'[x][y] # None /\ device'[x][y].user = device[x][y].user
      /\ \A u \in Users : CreateDeviceRow(b, w, u) => device'[b][w] # None /\ device'[b][w].user = u
  <2>1. CASE device' = device
    <3>1. ASSUME NEW u \in Users, CreateDeviceRow(b, w, u) PROVE FALSE
      <4>1. [user |-> u, status |-> "active"] \in DeviceRow
        BY DEF DeviceRow
      <4>2. device'[b][w] = [user |-> u, status |-> "active"]
        BY <3>1 DEF CreateDeviceRow, IInv, TypeOK
      <4> QED BY <2>1, <3>1, <4>1, <4>2 DEF CreateDeviceRow, Assumptions, NoneAssumption
    <3> QED BY <2>1, <3>1 DEF IInv, TypeOK
  <2>2. ASSUME NEW u \in Users, NEW row \in DeviceRow, row.user = u,
               device[b][w] = None \/ device[b][w].user = u, device' = [device EXCEPT ![b][w] = row]
        PROVE  /\ device' \in [Businesses -> [Browsers -> DeviceRow \cup {None}]]
               /\ \A x \in Businesses, y \in Browsers : device[x][y] # None
                     => device'[x][y] # None /\ device'[x][y].user = device[x][y].user
               /\ device'[b][w] = row
    <3>1. row # None
      BY DEF Assumptions, NoneAssumption
    <3>2. /\ device'[b][w] = row
          /\ \A x \in Businesses, y \in Browsers : x # b \/ y # w => device'[x][y] = device[x][y]
      BY <2>2 DEF IInv, TypeOK
    <3>3. device' \in [Businesses -> [Browsers -> DeviceRow \cup {None}]]
      BY <2>2 DEF IInv, TypeOK
    <3> QED BY <2>2, <3>1, <3>2, <3>3
  <2>3. CASE \E u \in Users : CreateDeviceRow(b, w, u)
    <3>1. PICK u \in Users : CreateDeviceRow(b, w, u)
      BY <2>3
    <3>2. [user |-> u, status |-> "active"] \in DeviceRow
      BY DEF DeviceRow
    <3>3. device[b][w] = None /\ device' = [device EXCEPT ![b][w] = [user |-> u, status |-> "active"]]
      BY <3>1 DEF CreateDeviceRow
    <3>4. /\ device' \in [Businesses -> [Browsers -> DeviceRow \cup {None}]]
          /\ \A x \in Businesses, y \in Browsers : device[x][y] # None
                => device'[x][y] # None /\ device'[x][y].user = device[x][y].user
          /\ device'[b][w] = [user |-> u, status |-> "active"]
      BY <2>2, <3>2, <3>3
    <3>5. ASSUME NEW v \in Users, CreateDeviceRow(b, w, v)
          PROVE  device'[b][w] # None /\ device'[b][w].user = v
      <4>1. device'[b][w] = [user |-> v, status |-> "active"]
        BY <3>5 DEF CreateDeviceRow, IInv, TypeOK
      <4>2. [user |-> v, status |-> "active"] \in DeviceRow
        BY DEF DeviceRow
      <4> QED BY <4>1, <4>2 DEF Assumptions, NoneAssumption
    <3> QED BY <3>4, <3>5
  <2>4. CASE RevokeDeviceRow(b, w)
    <3>1. device[b][w] # None /\ device[b][w] \in DeviceRow
      BY <2>4 DEF RevokeDeviceRow, IInv, TypeOK
    <3>2. [device[b][w] EXCEPT !.status = "revoked"] \in DeviceRow
          /\ [device[b][w] EXCEPT !.status = "revoked"].user = device[b][w].user
          /\ device[b][w].user \in Users
      BY <3>1 DEF DeviceRow
    <3>3. device' = [device EXCEPT ![b][w] = [device[b][w] EXCEPT !.status = "revoked"]]
      BY <2>4, <3>1 DEF RevokeDeviceRow, IInv, TypeOK
    <3>4. /\ device' \in [Businesses -> [Browsers -> DeviceRow \cup {None}]]
          /\ \A x \in Businesses, y \in Browsers : device[x][y] # None
                => device'[x][y] # None /\ device'[x][y].user = device[x][y].user
      BY <2>2, <3>2, <3>3
    <3> QED BY <3>1, <3>4 DEF CreateDeviceRow
  <2> QED BY <2>1, <2>3, <2>4
<1>2. Later /\ SessionInv'
  BY <1>1 DEF Later, IInv, TypeOK, Token, GetActiveSessionByTokenHash, SessionInv
<1> QED BY <1>1, <1>2

LEMMA ServesDevices ==
    ASSUME Assumptions, IInv, NEW q \in Requests, enrollDevice(q) \/ revokeDevice(q)
    PROVE  IInv'
<1> DEFINE r == request[q]
<1>1. /\ At(q, "authenticated") /\ Passes(q) /\ r.kind \in {"enroll", "revokeDevice"}
      /\ UNCHANGED <<session, tokens, tab, lost>>
  BY DEF enrollDevice, revokeDevice, Is
<1>2. r \in Context /\ r.user \in Users /\ r.business \in Businesses /\ BrowserOf[r.page] \in Browsers
  BY <1>1 DEF At, IInv, RequestInv, ContextOK, TypeOK, Context, Passes, requireBusinessContext, GetMembership,
     Assumptions, BrowserAssumption
<1>3. 0 \in Token /\ 0 <= tokens' /\ tokens' \in Token /\ session' \in [Sessions -> SessionRow \cup {None}]
  BY <1>1 DEF IInv, TypeOK, Token, Assumptions, BoundsAssumption
<1>4. ASSUME device' = device, Refuse(q) PROVE IInv'
  <2>1. UNCHANGED rows
    BY <1>1, <1>4 DEF rows
  <2>2. PICK c \in Context : request' = [request EXCEPT ![q] = c] /\ ContextOK(c)
    BY <1>1, <1>4, Refused DEF At
  <2>3. Later /\ SessionInv' /\ TypeOK /\ TypeOK'
    BY <1>1, <2>1, <2>2, RowsRest DEF IInv, TypeOK, rows, tab
  <2>4. PageInv' /\ LeaseWithinEnrolment'
    BY <1>1, <2>3, PagesStay, LeasesStay DEF tab
  <2>5. ContextOK(c)'
    BY <2>2, <2>3, ContextStays
  <2> QED BY <2>2, <2>3, <2>4, <2>5, StepOfRequest
<1>5. CASE enrollDevice(q)
  <2>1. \/ CreateDeviceRow(r.business, BrowserOf[r.page], r.user) /\ Accept(q, 0)
        \/ device' = device /\ Refuse(q)
    BY <1>5 DEF enrollDevice, CreateDevice
  <2>2. CASE CreateDeviceRow(r.business, BrowserOf[r.page], r.user) /\ Accept(q, 0)
    <3>1. /\ Later /\ SessionInv' /\ device' \in [Businesses -> [Browsers -> DeviceRow \cup {None}]]
          /\ device'[r.business][BrowserOf[r.page]] # None
          /\ device'[r.business][BrowserOf[r.page]].user = r.user
      BY <1>1, <1>2, <2>2, Devices
    <3>2. r.kind # "me"
      BY <1>1
    <3> QED BY <1>1, <1>3, <2>2, <3>1, <3>2, Accepting
  <2> QED BY <1>4, <2>1, <2>2
<1>6. CASE revokeDevice(q)
  <2>1. r.target \in Browsers \cup {None} /\ r.kind = "revokeDevice"
    BY <1>2, <1>6 DEF Context, revokeDevice, Is
  <2>2. \/ RevokeDeviceRow(r.business, r.target) /\ Accept(q, 0)
        \/ device' = device /\ Refuse(q)
    BY <1>6 DEF revokeDevice, RevokeDevice
  <2>3. CASE RevokeDeviceRow(r.business, r.target) /\ Accept(q, 0)
    <3>1. r.target \in Browsers
      BY <1>1, <2>1 DEF At, IInv, RequestInv, ContextOK
    <3>2. Later /\ SessionInv' /\ device' \in [Businesses -> [Browsers -> DeviceRow \cup {None}]]
      BY <1>1, <1>2, <2>3, <3>1, Devices
    <3> QED BY <1>1, <1>3, <2>1, <2>3, <3>2, Accepting
  <2> QED BY <1>4, <2>2, <2>3
<1> QED BY <1>5, <1>6

-----------------------------------------------------------------------------
(* Answers, and what ends by time.                                         *)

\* An answer changes no row: what a tab then holds is what was answered.
LEMMA Receiving ==
    ASSUME Assumptions, IInv, NEW q \in Requests, request[q] # None, Drop(q), UNCHANGED rows,
           lost' \in 0..MaxLost, cookie' \in [Browsers -> Sessions \cup {None}],
           lease' \in [Browsers -> LeasePayload \cup {None}], LeaseWithinEnrolment',
           page' \in [Pages -> PageState], cached' \in [Browsers -> Users \cup {None}],
           \A p \in Pages : \/ page'[p] = page[p]
                           \/ \E t \in Nat, u \in Users \cup {None} :
                                 page'[p].csrf = t /\ page'[p].user = u /\ t <= tokens /\ Mine(t, u)
    PROVE  IInv'
<1>1. request' = [request EXCEPT ![q] = None] /\ tokens' = tokens
  BY DEF Drop, rows
<1>2. Later /\ SessionInv' /\ TypeOK
  BY RowsRest DEF IInv
<1>3. \A t \in Nat, u \in Users \cup {None} : t <= tokens /\ Mine(t, u) => Mine(t, u)'
  BY <1>2, MineStays
<1>4. PageInv'
  BY <1>1, <1>2, <1>3, PagesStay
<1>5. TypeOK'
  BY <1>1 DEF IInv, TypeOK, rows
<1> QED BY <1>1, <1>2, <1>4, <1>5, StepOfRequest

LEMMA ReceivesSession ==
    ASSUME Assumptions, IInv, NEW q \in Requests, ReceiveSession(q)
    PROVE  IInv'
<1>1. PICK c \in Context : request[q] = c /\ ContextOK(c) /\ c.at = "answering" /\ c.ok
                         /\ c.kind \in {"login", "me"}
  BY DEF ReceiveSession, At, IInv, TypeOK, RequestInv
<1>2. /\ cookie' = (IF c.kind = "login" THEN [cookie EXCEPT ![BrowserOf[c.page]] = c.session] ELSE cookie)
      /\ page' = [page EXCEPT ![c.page].user = c.user, ![c.page].csrf = c.fresh, ![c.page].left = None]
      /\ cached' = [cached EXCEPT ![BrowserOf[c.page]] = c.user]
      /\ Drop(q) /\ UNCHANGED <<rows, lease, lost>>
  BY <1>1 DEF ReceiveSession, applyMe
<1>3. /\ c.page \in Pages /\ c.user \in Users \cup {None} /\ c.fresh \in Token /\ c.fresh \in Nat
      /\ c.session \in Sessions \cup {None}
      /\ c.fresh <= tokens /\ Mine(c.fresh, c.user)
  BY <1>1 DEF Context, ContextOK, Token
<1>4. cookie' \in [Browsers -> Sessions \cup {None}] /\ cached' \in [Browsers -> Users \cup {None}]
  BY <1>2, <1>3 DEF IInv, TypeOK
<1>5. PICK row \in PageState : row.user = c.user /\ row.csrf = c.fresh /\ page' = [page EXCEPT ![c.page] = row]
  <2> DEFINE row == [page[c.page] EXCEPT !.user = c.user, !.csrf = c.fresh, !.left = None]
  <2>1. page[c.page] \in PageState /\ page \in [Pages -> PageState]
    BY <1>3 DEF IInv, TypeOK
  <2>2. row \in PageState /\ row.user = c.user /\ row.csrf = c.fresh
    BY <1>3, <2>1 DEF PageState
  <2>3. page' = [page EXCEPT ![c.page] = row]
    BY <1>2, <1>3, <2>1
  <2> QED BY <2>2, <2>3
<1>6. page' \in [Pages -> PageState] /\ \A p \in Pages : page'[p] = page[p] \/ (p = c.page /\ page'[p] = row)
  BY <1>3, <1>5 DEF IInv, TypeOK
<1>7. LeaseWithinEnrolment'
  BY <1>2, RowsRest, LeasesStay
<1>8. \A p \in Pages : \/ page'[p] = page[p]
                      \/ \E t \in Nat, u \in Users \cup {None} :
                            page'[p].csrf = t /\ page'[p].user = u /\ t <= tokens /\ Mine(t, u)
  BY <1>3, <1>5, <1>6
<1>9. request[q] # None /\ lost' \in 0..MaxLost /\ lease' \in [Browsers -> LeasePayload \cup {None}]
  BY <1>1, <1>2 DEF IInv, TypeOK, Assumptions, NoneAssumption
<1> QED BY <1>2, <1>4, <1>6, <1>7, <1>8, <1>9, Receiving

\* A tab without a token may show anybody.
LEMMA Emptied ==
    ASSUME Assumptions, IInv, NEW p \in Pages, NEW u \in Users \cup {None}, NEW s \in Sessions \cup {None},
           \/ ShowWithoutToken(p, u)
           \/ page' = [page EXCEPT ![p] = [user |-> None, csrf |-> 0, left |-> s]]
    PROVE  /\ page' \in [Pages -> PageState]
           /\ \A r \in Pages : \/ page'[r] = page[r]
                              \/ \E t \in Nat, v \in Users \cup {None} :
                                    page'[r].csrf = t /\ page'[r].user = v /\ t <= tokens /\ Mine(t, v)
<1>1. page[p] \in PageState /\ page \in [Pages -> PageState] /\ 0 \in Token /\ 0 <= tokens
  BY DEF IInv, TypeOK, Token, Assumptions, BoundsAssumption
<1>2. PICK row \in PageState : row.csrf = 0 /\ page' = [page EXCEPT ![p] = row]
  <2>1. CASE ShowWithoutToken(p, u)
    <3>1. [page[p] EXCEPT !.user = u, !.csrf = 0] \in PageState
          /\ [page[p] EXCEPT !.user = u, !.csrf = 0].csrf = 0
      BY <1>1 DEF PageState
    <3>2. page' = [page EXCEPT ![p] = [page[p] EXCEPT !.user = u, !.csrf = 0]]
      BY <1>1, <2>1 DEF ShowWithoutToken
    <3> QED BY <3>1, <3>2
  <2>2. CASE page' = [page EXCEPT ![p] = [user |-> None, csrf |-> 0, left |-> s]]
    <3>1. [user |-> None, csrf |-> 0, left |-> s] \in PageState
      BY <1>1 DEF PageState
    <3> QED BY <2>2, <3>1
  <2> QED BY <2>1, <2>2
<1>3. page' \in [Pages -> PageState] /\ page'[p] = row /\ \A r \in Pages \ {p} : page'[r] = page[r]
  BY <1>1, <1>2
<1>4. row.user \in Users \cup {None} /\ Mine(0, row.user)
  BY <1>2 DEF Mine, PageState
<1> QED BY <1>1, <1>2, <1>3, <1>4

LEMMA SavesEnrolment ==
    ASSUME Assumptions, IInv, NEW q \in Requests, saveEnrollment(q)
    PROVE  IInv'
<1>1. PICK c \in Context : request[q] = c /\ ContextOK(c) /\ c.at = "answering" /\ c.ok /\ c.kind = "enroll"
  BY DEF saveEnrollment, At, IInv, TypeOK, RequestInv
<1> DEFINE w == BrowserOf[c.page]
           l == IssueLease(c.business, c.user)
<1>2. lease' = [lease EXCEPT ![w] = l] /\ Drop(q) /\ UNCHANGED <<rows, cookie, page, cached, lost>>
  BY <1>1 DEF saveEnrollment
<1>3. w \in Browsers /\ c.user \in Users /\ c.business \in Businesses
      /\ Role[c.user][c.business] \in {RoleOwner, RoleStaff}
      /\ device[c.business][w] # None /\ device[c.business][w].user = c.user
  BY <1>1 DEF Context, ContextOK, Served, Assumptions, BrowserAssumption, RoleAssumption
<1>4. /\ l.business = c.business /\ l.user = c.user /\ l.role = Role[c.user][c.business]
      /\ l.capabilities = OfflineSafe(Role[c.user][c.business])
  BY DEF IssueLease
<1>5. \A role \in {RoleOwner, RoleStaff} :
         OfflineSafe(role) \subseteq ForRole(role) \cap ForRole(RoleStaff) /\ OfflineSafe(role) \subseteq allCapabilities
  <2>1. ForRole(RoleOwner) = allCapabilities /\ ForRole(RoleStaff) = staffCapabilities
    BY DEF ForRole, RoleOwner, RoleStaff
  <2>2. offlineSafeCapabilities \subseteq staffCapabilities /\ staffCapabilities \subseteq allCapabilities
    BY DEF offlineSafeCapabilities, staffCapabilities, allCapabilities
  <2> QED BY <2>1, <2>2 DEF OfflineSafe
<1>6. l \in LeasePayload
  BY <1>3, <1>5 DEF IssueLease, LeasePayload
<1> HIDE DEF l
<1>7. lease' \in [Browsers -> LeasePayload \cup {None}] /\ lease'[w] = l
      /\ \A x \in Browsers \ {w} : lease'[x] = lease[x]
  BY <1>2, <1>3, <1>6 DEF IInv, TypeOK
<1>8. LeaseWithinEnrolment'
  <2> SUFFICES ASSUME NEW x \in Browsers, lease'[x] # None
               PROVE  LET m == lease'[x]  row == device[m.business][x] IN
                      /\ row # None /\ row.user = m.user /\ m.role = Role[m.user][m.business]
                      /\ m.capabilities \subseteq ForRole(m.role) \cap ForRole(RoleStaff)
    BY <1>2 DEF LeaseWithinEnrolment, rows
  <2>1. CASE x = w
    BY <1>3, <1>4, <1>5, <1>7, <2>1
  <2>2. CASE x # w
    BY <1>7, <2>2 DEF IInv, LeaseWithinEnrolment
  <2> QED BY <2>1, <2>2
<1>9. request[q] # None /\ lost' \in 0..MaxLost /\ cookie' \in [Browsers -> Sessions \cup {None}]
      /\ page' \in [Pages -> PageState] /\ page' = page /\ cached' \in [Browsers -> Users \cup {None}]
  BY <1>1, <1>2 DEF IInv, TypeOK, Assumptions, NoneAssumption
<1> QED BY <1>2, <1>7, <1>8, <1>9, Receiving

LEMMA Answers ==
    ASSUME Assumptions, IInv, NEW q \in Requests,
           ReceiveLogout(q) \/ ReceiveOther(q) \/ ReceiveRefusal(q) \/ Lose(q)
    PROVE  IInv'
<1>1. /\ request[q] # None /\ Drop(q) /\ UNCHANGED <<rows, lease>>
      /\ cookie' = cookie \/ cookie' = [cookie EXCEPT ![BrowserOf[request[q].page]] = None]
  BY DEF ReceiveLogout, ReceiveOther, ReceiveRefusal, Lose, At, tab
<1>2. PICK c \in Context : c = request[q] /\ c.page \in Pages /\ c.session \in Sessions \cup {None}
  BY <1>1 DEF IInv, TypeOK, Context
<1>3. lost' \in 0..MaxLost
  BY DEF ReceiveLogout, ReceiveOther, ReceiveRefusal, Lose, IInv, TypeOK, Assumptions, BoundsAssumption
<1>4. cookie' \in [Browsers -> Sessions \cup {None}] /\ lease' \in [Browsers -> LeasePayload \cup {None}]
  BY <1>1 DEF IInv, TypeOK
<1>5. LeaseWithinEnrolment'
  BY <1>1, RowsRest, LeasesStay
<1>6. \/ UNCHANGED <<page, cached>>
      \/ LeaveSession(c.page, c.session)
      \/ \E u \in {None, cached[BrowserOf[c.page]]} : ShowWithoutToken(c.page, u)
  BY <1>2 DEF ReceiveLogout, ReceiveOther, ReceiveRefusal, Lose, tab
<1>7. cached' \in [Browsers -> Users \cup {None}] /\ BrowserOf[c.page] \in Browsers
  <2>1. \/ cached' = cached
        \/ cached' = [cached EXCEPT ![BrowserOf[c.page]] = None]
    BY <1>2 DEF ReceiveLogout, ReceiveOther, ReceiveRefusal, Lose, tab, LeaveSession
  <2> QED BY <1>2, <2>1 DEF IInv, TypeOK, Assumptions, BrowserAssumption
<1>8. CASE UNCHANGED <<page, cached>>
  <2>1. page' \in [Pages -> PageState]
    BY <1>8 DEF IInv, TypeOK
  <2> QED BY <1>1, <1>3, <1>4, <1>5, <1>7, <1>8, <2>1, Receiving
<1>9. ASSUME NEW u \in Users \cup {None},
             ShowWithoutToken(c.page, u) \/ LeaveSession(c.page, c.session)
      PROVE  IInv'
  <2>1. /\ page' \in [Pages -> PageState]
        /\ \A r \in Pages : \/ page'[r] = page[r]
                           \/ \E t \in Nat, v \in Users \cup {None} :
                                 page'[r].csrf = t /\ page'[r].user = v /\ t <= tokens /\ Mine(t, v)
    BY <1>2, <1>9, Emptied DEF LeaveSession
  <2> QED BY <1>1, <1>3, <1>4, <1>5, <1>7, <2>1, Receiving
<1>10. cached[BrowserOf[c.page]] \in Users \cup {None}
  BY <1>7 DEF IInv, TypeOK
<1> QED BY <1>6, <1>8, <1>9, <1>10

LEMMA Expiring ==
    ASSUME Assumptions, IInv, NEW s \in Sessions, Expire(s)
    PROVE  IInv'
<1>1. /\ session[s] # None /\ session' = [session EXCEPT ![s].expired = TRUE]
      /\ UNCHANGED <<device, tokens, tab, request, lost>>
  BY DEF Expire
<1>2. Later /\ SessionInv' /\ session' \in [Sessions -> SessionRow \cup {None}]
  BY <1>1, EndedSession
<1>3. TypeOK'
  BY <1>1, <1>2 DEF IInv, TypeOK, tab
<1>4. PageInv' /\ LeaseWithinEnrolment' /\ RequestInv'
  BY <1>1, <1>2, PagesStay, LeasesStay, RequestsRest DEF tab
<1> QED BY <1>2, <1>3, <1>4 DEF IInv

LEMMA ExpiringLease ==
    ASSUME Assumptions, IInv, NEW w \in Browsers, ExpireLease(w)
    PROVE  IInv'
<1>1. /\ lease[w] # None /\ lease' = [lease EXCEPT ![w].expired = TRUE]
      /\ UNCHANGED <<rows, cookie, page, cached, request, lost>>
  BY DEF ExpireLease
<1>2. Later /\ SessionInv'
  BY <1>1, RowsRest
<1>3. lease[w] \in LeasePayload
  BY <1>1 DEF IInv, TypeOK
<1>4. PICK l \in LeasePayload : /\ lease' = [lease EXCEPT ![w] = l]
                               /\ l.business = lease[w].business /\ l.user = lease[w].user
                               /\ l.role = lease[w].role /\ l.capabilities = lease[w].capabilities
  <2>1. [lease[w] EXCEPT !.expired = TRUE] \in LeasePayload
    BY <1>3 DEF LeasePayload
  <2> QED BY <1>1, <1>3, <2>1 DEF LeasePayload
<1>5. lease' \in [Browsers -> LeasePayload \cup {None}] /\ lease'[w] = l
      /\ \A x \in Browsers \ {w} : lease'[x] = lease[x]
  BY <1>4 DEF IInv, TypeOK
<1>6. LeaseWithinEnrolment'
  BY <1>1, <1>4, <1>5 DEF IInv, LeaseWithinEnrolment, rows
<1>7. TypeOK'
  BY <1>1, <1>5 DEF IInv, TypeOK, rows
<1>8. PageInv' /\ RequestInv'
  BY <1>1, <1>2, PagesStay, RequestsRest
<1> QED BY <1>2, <1>6, <1>7, <1>8 DEF IInv

-----------------------------------------------------------------------------
LEMMA InitInv == ASSUME Assumptions, Init PROVE IInv
<1>1. TypeOK
  BY DEF Init, TypeOK, PageState, Token, Assumptions, BoundsAssumption
<1>2. RequestInv /\ SessionInv /\ LeaseWithinEnrolment
  BY DEF Init, RequestInv, SessionInv, LeaseWithinEnrolment
<1>3. PageInv
  BY <1>1 DEF Init, PageInv, Mine, TypeOK, Token
<1> QED BY <1>1, <1>2, <1>3 DEF IInv

LEMMA StepInv == ASSUME Assumptions, IInv, [Next]_vars PROVE IInv'
<1>1. CASE UNCHANGED vars
  <2>1. TypeOK' /\ UNCHANGED rows /\ page' = page /\ lease' = lease /\ request' = request
    BY <1>1 DEF vars, rows, IInv, TypeOK
  <2>2. Later /\ SessionInv'
    BY <2>1, RowsRest
  <2>3. PageInv' /\ LeaseWithinEnrolment' /\ RequestInv'
    BY <2>1, <2>2, PagesStay, LeasesStay, RequestsRest
  <2> QED BY <2>1, <2>2, <2>3 DEF IInv
<1>2. CASE OfASession
  <2>1. ASSUME NEW q \in Requests, Handle(q) \/ Receive(q) \/ Lose(q) PROVE IInv'
    BY <2>1, Checking, LogsIn, ServesMe, LogsOut, ServesDevices, Serves, ReceivesSession, SavesEnrolment, Answers
       DEF Handle, Receive
  <2>2. ASSUME NEW q \in Requests, NEW p \in Pages, refresh(q, p) \/ SendLogout(q, p) PROVE IInv'
    BY <2>2, Sending
  <2>3. ASSUME NEW q \in Requests, NEW p \in Pages, NEW u \in Users, SendLogin(q, p, u) PROVE IInv'
    BY <2>3, Sending
  <2> QED BY <1>2, <2>1, <2>2, <2>3, Expiring, ExpiringLease DEF OfASession
<1>3. CASE InABusiness(Businesses, Tried)
  <2>1. PICK q \in Requests, p \in Pages, b \in Businesses :
           \/ enroll(q, p, b)
           \/ \E w \in Browsers : SendRevoke(q, p, b, w)
           \/ \E c \in Tried : SendRead(q, p, b, c) \/ SendWrite(q, p, b, c)
    BY <1>3 DEF InABusiness
  <2> QED BY <2>1, Sending
<1> QED BY <1>1, <1>2, <1>3 DEF Next

\* Every request, tab, session and lease is as it may have become: a token a
\* tab holds is nobody else's, a request knows whose session it came with, and
\* tokens are never issued twice.
THEOREM AccessInvariant == ASSUME Assumptions PROVE Spec => []IInv
<1>1. Init => IInv
  BY InitInv
<1>2. IInv /\ [Next]_vars => IInv'
  BY StepInv
<1> QED BY <1>1, <1>2, PTL DEF Spec

\* What is known of a request that was served is what is promised of it.
LEMMA WhatServedMeans ==
    ASSUME Assumptions, IInv
    PROVE  ActsAsItsUser /\ ReplacedTokenRefused /\ DoneByThoseWhoMay
BY DEF IInv, RequestInv, ContextOK, Served, ActsAsItsUser, ReplacedTokenRefused, DoneByThoseWhoMay,
       Changed, CarriedOut, At

\* What becomes of a session that has ended: nothing brings it back.
LEMMA SessionsEndForGood ==
    ASSUME Assumptions, IInv, Next, NEW s \in Sessions, Ended(s)
    PROVE  Ended(s)'
<1> DEFINE Made(r) == session[r] = None /\ \E row \in SessionRow : session' = [session EXCEPT ![r] = row]
           Edited(r) == /\ session[r] # None
                          /\ \/ session' = [session EXCEPT ![r].revoked = TRUE]
                             \/ session' = [session EXCEPT ![r].expired = TRUE]
                             \/ \E t \in Token : session' = [session EXCEPT ![r].csrf = t]
<1>1. session' = session \/ \E r \in Sessions : Made(r) \/ Edited(r)
  <2>1. ASSUME NEW q \in Requests, login(q) PROVE \E r \in Sessions : Made(r)
    <3>1. PICK r \in Sessions : CreateSession(r, request[q].user)
      BY <2>1 DEF login
    <3>2. request[q].user \in Users /\ tokens + 1 \in Token
      BY <2>1, <3>1 DEF login, At, IInv, TypeOK, RequestInv, ContextOK, Context, CreateSession, Token,
         Assumptions, BoundsAssumption
    <3>3. [user |-> request[q].user, csrf |-> tokens + 1, revoked |-> FALSE, expired |-> FALSE] \in SessionRow
      BY <3>2 DEF SessionRow
    <3> QED BY <3>1, <3>3 DEF CreateSession, CreateSessionRow
  <2>2. ASSUME NEW q \in Requests, me(q) \/ logout(q)
        PROVE  session' = session \/ \E r \in Sessions : Edited(r)
    <3>1. PICK r \in Sessions : r = request[q].session /\ session[r] # None
      BY <2>2 DEF me, logout, Is, At, IInv, RequestInv, ContextOK, TypeOK, Context
    <3>2. RotateCSRFToken(r) => tokens + 1 \in Token
      BY DEF IInv, TypeOK, Token, RotateCSRFToken, Assumptions, BoundsAssumption
    <3> QED BY <2>2, <3>1, <3>2 DEF me, logout, RotateCSRFToken, UpdateSessionCSRFTokenHash, RevokeSession
  <2>3. ASSUME NEW r \in Sessions, Expire(r) PROVE Edited(r)
    BY <2>3 DEF Expire
  <2>4. ASSUME NEW q \in Requests,
               \/ requireAuth(q) \/ RefuseUnauthorised(q) \/ enrollDevice(q) \/ revokeDevice(q) \/ Serve(q)
               \/ Receive(q) \/ Lose(q)
        PROVE  session' = session
    BY <2>4 DEF requireAuth, RefuseUnauthorised, enrollDevice, revokeDevice, Serve, Receive, ReceiveSession,
       ReceiveLogout, saveEnrollment, ReceiveOther, ReceiveRefusal, Lose, rows
  <2>5. ASSUME NEW q \in Requests, NEW p \in Pages, refresh(q, p) \/ SendLogout(q, p) \/ \E u \in Users : SendLogin(q, p, u)
        PROVE  session' = session
    BY <2>5 DEF refresh, SendLogout, SendLogin, rows
  <2>6. InABusiness(Businesses, Tried) => session' = session
    BY DEF InABusiness, enroll, SendRevoke, SendRead, SendWrite, rows
  <2>7. ASSUME NEW w \in Browsers, ExpireLease(w) PROVE session' = session
    BY <2>7 DEF ExpireLease, rows
  <2> HIDE DEF Made, Edited
  <2> QED BY <2>1, <2>2, <2>3, <2>4, <2>5, <2>6, <2>7 DEF Next, OfASession, Handle
<1>2. session[s] # None /\ session[s] \in SessionRow /\ (session[s].revoked \/ session[s].expired)
  BY DEF Ended, IInv, TypeOK
<1>3. CASE session' = session
  BY <1>2, <1>3 DEF Ended
<1>4. ASSUME NEW r \in Sessions, Made(r) PROVE Ended(s)'
  <2>1. session'[s] = session[s]
    BY <1>2, <1>4 DEF IInv, TypeOK
  <2> QED BY <1>2, <2>1 DEF Ended
<1>5. ASSUME NEW r \in Sessions, Edited(r) PROVE Ended(s)'
  <2>1. CASE r # s
    <3>1. session'[s] = session[s]
      BY <1>5, <2>1 DEF IInv, TypeOK
    <3> QED BY <1>2, <3>1 DEF Ended
  <2>2. CASE r = s
    <3> DEFINE ends == [session[s] EXCEPT !.revoked = TRUE]
               expires == [session[s] EXCEPT !.expired = TRUE]
    <3>1. ends \in SessionRow /\ ends.revoked /\ expires \in SessionRow /\ expires.expired
      BY <1>2 DEF SessionRow
    <3>2. ends # None /\ expires # None
      BY <3>1 DEF Assumptions, NoneAssumption
    <3>3. CASE session' = [session EXCEPT ![r].revoked = TRUE]
      <4>1. session'[s] = ends
        BY <2>2, <3>3 DEF IInv, TypeOK
      <4> QED BY <3>1, <3>2, <4>1 DEF Ended
    <3>4. CASE session' = [session EXCEPT ![r].expired = TRUE]
      <4>1. session'[s] = expires
        BY <2>2, <3>4 DEF IInv, TypeOK
      <4> QED BY <3>1, <3>2, <4>1 DEF Ended
    <3>5. CASE \E t \in Token : session' = [session EXCEPT ![r].csrf = t]
      <4>1. PICK t \in Token : session' = [session EXCEPT ![r].csrf = t]
        BY <3>5
      <4> DEFINE row == [session[s] EXCEPT !.csrf = t]
      <4>2. row \in SessionRow /\ row.revoked = session[s].revoked
        BY <1>2 DEF SessionRow
      <4>3. row.expired = session[s].expired
        BY <1>2 DEF SessionRow
      <4>4. session'[s] = row /\ row # None
        BY <2>2, <4>1, <4>2 DEF IInv, TypeOK, Assumptions, NoneAssumption
      <4> QED BY <1>2, <4>2, <4>3, <4>4 DEF Ended
    <3> QED BY <1>5, <3>3, <3>4, <3>5
  <2> QED BY <2>1, <2>2
<1> HIDE DEF Made, Edited
<1> QED BY <1>1, <1>3, <1>4, <1>5

\* Only a session that is active at the time lets a request through.
LEMMA OnlyTheActiveServe ==
    ASSUME Assumptions, IInv, Next, NEW q \in Requests, At(q, "arrived"), At(q, "authenticated")'
    PROVE  GetActiveSessionByToken(request[q].session)
<1>1. request[q] \in Context /\ request[q].at = "arrived" /\ request[q] # None
  BY DEF At, IInv, TypeOK
<1>2. request'[q] # None /\ request'[q].at = "authenticated"
  BY DEF At
<1>3. ~(request' = request)
  BY <1>1, <1>2
\* What another request does leaves this one as it is.
<1>4. ASSUME NEW r \in Requests, NEW x, request' = [request EXCEPT ![r] = x] PROVE r = q /\ x = request'[q]
  BY <1>1, <1>2, <1>4 DEF IInv, TypeOK
<1>5. ASSUME NEW r \in Requests, Refuse(r) PROVE FALSE
  <2>1. r = q
    BY <1>1, <1>2, <1>5 DEF Refuse, IInv, TypeOK
  <2>2. request'[q].at = "answering"
    BY <1>1, <1>5, <2>1 DEF Refuse, IInv, TypeOK, Context
  <2> QED BY <1>2, <2>2
<1>6. ASSUME NEW r \in Requests, NEW t, Accept(r, t) PROVE FALSE
  <2>1. r = q
    BY <1>1, <1>2, <1>6 DEF Accept, IInv, TypeOK
  <2>2. request'[q].at = "answering"
    BY <1>1, <1>6, <2>1 DEF Accept, IInv, TypeOK, Context
  <2> QED BY <1>2, <2>2
<1>7. ASSUME NEW r \in Requests, Drop(r) PROVE FALSE
  BY <1>2, <1>4, <1>7 DEF Drop
<1>8. ASSUME NEW r \in Requests, NEW x, Begin(r, x) PROVE FALSE
  BY <1>1, <1>4, <1>8 DEF Begin
<1>9. ASSUME NEW r \in Requests, login(r) PROVE FALSE
  <2>1. r = q
    BY <1>1, <1>2, <1>9 DEF login, IInv, TypeOK
  <2>2. request'[q].at = "answering"
    BY <1>1, <1>9, <2>1 DEF login, IInv, TypeOK, Context
  <2> QED BY <1>2, <2>2
<1>10. ASSUME NEW r \in Requests, requireAuth(r) PROVE GetActiveSessionByToken(request[q].session)
  <2>1. r = q \/ Refuse(r)
    BY <1>1, <1>2, <1>10 DEF requireAuth, IInv, TypeOK
  <2> QED BY <1>5, <1>10, <2>1 DEF requireAuth
<1>11. ASSUME NEW r \in Requests, RefuseUnauthorised(r) PROVE FALSE
  BY <1>5, <1>11 DEF RefuseUnauthorised
<1>12. ASSUME NEW r \in Requests, me(r) \/ logout(r) \/ enrollDevice(r) \/ revokeDevice(r) \/ Serve(r) PROVE FALSE
  BY <1>5, <1>6, <1>12 DEF me, logout, enrollDevice, revokeDevice, Serve
<1>13. ASSUME NEW r \in Requests, Receive(r) \/ Lose(r) PROVE FALSE
  BY <1>7, <1>13 DEF Receive, ReceiveSession, ReceiveLogout, saveEnrollment, ReceiveOther, ReceiveRefusal, Lose
<1>14. ASSUME NEW s \in Sessions, Expire(s) PROVE FALSE
  BY <1>3, <1>14 DEF Expire
<1>15. ASSUME NEW w \in Browsers, ExpireLease(w) PROVE FALSE
  BY <1>3, <1>15 DEF ExpireLease
<1>16. ASSUME NEW r \in Requests, NEW p \in Pages,
              refresh(r, p) \/ SendLogout(r, p) \/ \E u \in Users : SendLogin(r, p, u)
       PROVE  FALSE
  BY <1>3, <1>8, <1>16 DEF refresh, SendLogout, SendLogin
<1>17. InABusiness(Businesses, Tried) => FALSE
  BY <1>8 DEF InABusiness, enroll, SendRevoke, SendRead, SendWrite
<1> QED
  BY <1>9, <1>10, <1>11, <1>12, <1>13, <1>14, <1>15, <1>16, <1>17 DEF Next, OfASession, Handle

LEMMA EndedStays == ASSUME Assumptions, IInv, [Next]_vars PROVE [EndedForGood]_vars
<1>1. CASE UNCHANGED vars
  BY <1>1
<1>2. ASSUME Next, NEW s \in Sessions, Ended(s)
      PROVE  Ended(s)' /\ \A q \in Requests : At(q, "arrived") /\ request[q].session = s => ~At(q, "authenticated")'
  <2>1. s # None /\ ~GetActiveSessionByToken(s)
    BY <1>2 DEF Assumptions, NoneAssumption, Ended, GetActiveSessionByToken, GetActiveSessionByTokenHash
  <2> QED BY <1>2, <2>1, SessionsEndForGood, OnlyTheActiveServe
<1> QED BY <1>1, <1>2 DEF EndedForGood

\* requireAuth, requireCSRF and the token each tab keeps: a change is recorded
\* for the person the tab shows, and only for a token that was its session's
\* when it was sent.
THEOREM ChangesAreTheirOwn == ASSUME Assumptions PROVE Spec => [](ActsAsItsUser /\ ReplacedTokenRefused)
<1>1. IInv => ActsAsItsUser /\ ReplacedTokenRefused
  BY WhatServedMeans
<1> QED BY <1>1, AccessInvariant, PTL

\* requireBusinessContext and requireCapability: what is done in a business is
\* done by a member whose role may do it; offline, only within what the
\* browser's key was enrolled for.
THEOREM DoneWithinRoles == ASSUME Assumptions PROVE Spec => [](DoneByThoseWhoMay /\ LeaseWithinEnrolment)
<1>1. IInv => DoneByThoseWhoMay /\ LeaseWithinEnrolment
  BY WhatServedMeans DEF IInv
<1> QED BY <1>1, AccessInvariant, PTL

\* GetActiveSessionByTokenHash: a session that has ended serves no request
\* again, and no sign-in or refresh brings it back.
THEOREM EndedSessionsStayEnded == ASSUME Assumptions PROVE Spec => [][EndedForGood]_vars
<1>1. IInv /\ [Next]_vars => [EndedForGood]_vars
  BY EndedStays
<1> QED BY <1>1, AccessInvariant, PTL DEF Spec
=============================================================================

---------------------------- MODULE PeopleProofs ----------------------------
(***************************************************************************)
(* What is promised of everybody who has to do with a bar, for any of them. *)
(* Module People takes Accounts and Access with their theorems; the parts   *)
(* on tenancy, signing up and platform administration are proved here, and  *)
(* the last part puts all of them together.                                 *)
(***************************************************************************)
EXTENDS People, Integers, Sequences, FiniteSetTheorems, TLAPS

(***************************************************************************)
(* Tenancy: a statement sees its own transaction's rows and no other, and   *)
(* only those change.                                                       *)
(***************************************************************************)
(* What a connection is left with between transactions. *)
Left == [role : {Login}, user : {Unset, Empty}, business : {Unset, Empty}]

Setting == [role : {Login, App}, user : Users \union {Nil, Unset, Empty},
            business : Businesses \union {Nil, Unset, Empty}]

Transaction == [at : {"role", "user", "business", "scoped"}, connection : Connections,
                steps : {{"user"}, {"user", "business"}}, user : Users \union {Nil},
                business : Businesses \union {Nil},
                answer : [of : {"none", "rows", "memberships"}, named : Businesses \union {Nil},
                          failed : BOOLEAN, seen : SUBSET (Businesses \union Memberships)],
                wrote : SUBSET (Businesses \union Memberships)]

TypeOK == /\ settings \in [Connections -> Left]
          /\ local \in [Connections -> Setting]
          /\ request \in [Requests -> Transaction \union {Free}]
          /\ rows \in [Businesses \union Memberships -> Nat]

Active(q) == request[q].at # "free"

(* No two transactions are on one connection. *)
OneEach == \A q, r \in Requests : Active(q) /\ Active(r) /\ q # r =>
               request[q].connection # request[r].connection

(* What a transaction has set by the step it is at; what it has not set is    *)
(* what an earlier one left.                                                  *)
Scoped(t, s) ==
    /\ t.business = Nil <=> t.steps = {"user"}
    /\ t.at = "business" => "business" \in t.steps
    /\ t.at # "role" => s.role = App
    /\ t.at \in {"business", "scoped"} => s.user = t.user
    /\ t.at = "scoped" /\ "business" \in t.steps => s.business = t.business
    /\ ~(t.at = "scoped" /\ "business" \in t.steps) => s.business \in {Unset, Empty}
    /\ t.at # "scoped" => t.wrote = {}
    /\ t.at # "scoped" => t.answer = NoAnswer
    /\ t.wrote \subseteq {t.business} \union {m \in Memberships : m[1] = t.business \/ m[2] = t.user}

ScopeInv == \A q \in Requests : Active(q) => Scoped(request[q], local[request[q].connection])

IInv == TypeOK /\ OneEach /\ ScopeInv /\ SeesItsOwn

LEMMA InitInv == ASSUME Init PROVE IInv
BY NamesAssumption DEF Init, IInv, TypeOK, OneEach, ScopeInv, SeesItsOwn, Active, At, Free, Fresh, Left, Setting

(***************************************************************************)
(* One lemma for each step.                                                *)
(***************************************************************************)
LEMMA Begins ==
    ASSUME IInv, NEW q \in Requests, WithApp(q) \/ WithTenant(q)
    PROVE  IInv'
<1> DEFINE steps(b) == IF b = Nil THEN {"user"} ELSE {"user", "business"}
<1>1. PICK u \in Users \union {Nil}, b \in Businesses \union {Nil} : withTx(q, steps(b), u, b)
  <2>1. CASE WithApp(q) BY <2>1 DEF WithApp
  <2>2. CASE WithTenant(q) BY <2>2, NamesAssumption DEF WithTenant
  <2> QED BY <2>1, <2>2
<1>2. PICK c \in Connections :
        /\ At(q, "free") /\ c \notin Busy
        /\ local' = [local EXCEPT ![c] = settings[c]]
        /\ request' = [request EXCEPT ![q] = [at |-> "role", connection |-> c, steps |-> steps(b), user |-> u,
                          business |-> b, answer |-> NoAnswer, wrote |-> {}]]
        /\ UNCHANGED <<settings, rows>>
  BY <1>1 DEF withTx, Proceed
<1> HIDE DEF steps
<1>3. steps(b) \in {{"user"}, {"user", "business"}} /\ (b = Nil <=> steps(b) = {"user"})
  BY DEF steps
<1>4. \A r \in Requests : Active(r) => request[r].connection # c /\ request[r] \in Transaction
  BY <1>2 DEF Busy, At, Open, Active, IInv, TypeOK, Free
<1>5. \A r \in Requests \ {q} : request'[r] = request[r]
  BY <1>2 DEF IInv, TypeOK
<1>6. \A r \in Requests : Active(r) => local'[request[r].connection] = local[request[r].connection]
  BY <1>2, <1>4 DEF IInv, TypeOK, Transaction
<1>7. settings[c] \in Left /\ local'[c] = settings[c]
  BY <1>2 DEF IInv, TypeOK
<1>8. request'[q] = [at |-> "role", connection |-> c, steps |-> steps(b), user |-> u,
                     business |-> b, answer |-> NoAnswer, wrote |-> {}]
  BY <1>2 DEF IInv, TypeOK
<1>9. TypeOK'
  <2>1. request'[q] \in Transaction
    BY <1>3, <1>8 DEF Transaction, NoAnswer
  <2>2. Left \subseteq Setting
    BY DEF Left, Setting
  <2> QED BY <1>2, <1>7, <2>1, <2>2 DEF IInv, TypeOK
<1>10. OneEach'
  BY <1>4, <1>5, <1>8 DEF IInv, OneEach, Active
<1>11. ScopeInv'
  <2> SUFFICES ASSUME NEW r \in Requests, Active(r)'
               PROVE  Scoped(request[r], local[request[r].connection])'
    BY DEF ScopeInv
  <2>1. CASE r = q
    BY <1>3, <1>7, <1>8, <2>1 DEF Scoped, Left
  <2>2. CASE r # q
    BY <1>5, <1>6, <2>2 DEF IInv, ScopeInv, Active
  <2> QED BY <2>1, <2>2
<1>12. SeesItsOwn'
  BY <1>5, <1>8 DEF IInv, SeesItsOwn, At, Open, OwnMemberships
<1> QED BY <1>9, <1>10, <1>11, <1>12 DEF IInv

(* A step of a transaction that goes on: its own row changes, its connection  *)
(* may, and those of all others stay.                                         *)
LEMMA GoesOn ==
    ASSUME IInv, NEW q \in Requests, NEW t \in Transaction, NEW s \in Setting,
           Active(q), t.connection = request[q].connection,
           request' = [request EXCEPT ![q] = t],
           local' = [local EXCEPT ![t.connection] = s],
           UNCHANGED <<settings, rows>>,
           Scoped(t, s)
    PROVE  TypeOK' /\ OneEach' /\ ScopeInv'
<1>1. request'[q] = t /\ \A r \in Requests \ {q} : request'[r] = request[r]
  BY DEF IInv, TypeOK
<1>2. t.connection \in Connections /\ t.at # "free"
  BY DEF Transaction
<1>3. local'[t.connection] = s /\ \A c \in Connections \ {t.connection} : local'[c] = local[c]
  BY <1>2 DEF IInv, TypeOK
<1>4. \A r \in Requests \ {q} : Active(r) => request[r].connection \in Connections \ {t.connection}
  BY DEF IInv, TypeOK, OneEach, Transaction, Active, Free
<1>5. TypeOK'
  BY <1>1, <1>3 DEF IInv, TypeOK
<1>6. OneEach'
  BY <1>1, <1>2 DEF IInv, OneEach, Active
<1>7. ScopeInv'
  <2> SUFFICES ASSUME NEW r \in Requests, Active(r)'
               PROVE  Scoped(request[r], local[request[r].connection])'
    BY DEF ScopeInv
  <2>1. CASE r = q
    BY <1>1, <1>3, <2>1 DEF Scoped
  <2>2. CASE r # q
    BY <1>1, <1>3, <1>4, <2>2 DEF IInv, ScopeInv, Active, Scoped
  <2> QED BY <2>1, <2>2
<1> QED BY <1>5, <1>6, <1>7

LEMMA OwnStep ==
    ASSUME IInv, NEW q \in Requests, Active(q)
    PROVE  /\ request[q] \in Transaction
           /\ local[request[q].connection] \in Setting
           /\ Scoped(request[q], local[request[q].connection])
BY DEF IInv, TypeOK, ScopeInv, Transaction, Active, Free

LEMMA SetsRole ==
    ASSUME IInv, NEW q \in Requests, SetRole(q)
    PROVE  IInv'
<1> DEFINE t == [request[q] EXCEPT !.at = "user"]
           s == [local[request[q].connection] EXCEPT !.role = App]
<1>1. Active(q) /\ request[q].at = "role"
  BY DEF SetRole, At, Active
<1>2. t \in Transaction /\ s \in Setting /\ t.connection = request[q].connection
  BY <1>1, OwnStep DEF Transaction, Setting
<1>3. Scoped(t, s)
  BY <1>1, OwnStep DEF Scoped, Transaction, Setting
<1>4. /\ request' = [request EXCEPT ![q] = t]
      /\ local' = [local EXCEPT ![t.connection] = s]
      /\ UNCHANGED <<settings, rows>>
  BY <1>2 DEF SetRole, Proceed, Open
<1>5. TypeOK' /\ OneEach' /\ ScopeInv'
  BY <1>1, <1>2, <1>3, <1>4, GoesOn
<1>6. SeesItsOwn'
  BY <1>1, <1>4 DEF IInv, TypeOK, SeesItsOwn, At, Open, OwnMemberships
<1> QED BY <1>5, <1>6 DEF IInv

LEMMA SetsUser ==
    ASSUME IInv, NEW q \in Requests, SetContext(q), At(q, "user")
    PROVE  IInv'
<1> DEFINE next == IF "business" \in request[q].steps THEN "business" ELSE "scoped"
           t == [request[q] EXCEPT !.at = next]
           s == [local[request[q].connection] EXCEPT !["user"] = request[q].user]
<1>1. Active(q) /\ request[q].at = "user"
  BY DEF At, Active
<1>2. t \in Transaction /\ s \in Setting /\ t.connection = request[q].connection
  BY <1>1, OwnStep DEF Transaction, Setting
<1>3. Scoped(t, s)
  BY <1>1, OwnStep DEF Scoped, Transaction, Setting
<1>4. /\ request' = [request EXCEPT ![q] = t]
      /\ local' = [local EXCEPT ![t.connection] = s]
      /\ UNCHANGED <<settings, rows>>
  BY <1>1, <1>2 DEF SetContext, set_config, Proceed, Open, At
<1>5. TypeOK' /\ OneEach' /\ ScopeInv'
  BY <1>1, <1>2, <1>3, <1>4, GoesOn
<1>6. SeesItsOwn'
  <2>1. t.answer = NoAnswer
    BY <1>1, OwnStep DEF Scoped, Transaction
  <2> QED BY <1>1, <1>4, <2>1 DEF IInv, TypeOK, SeesItsOwn, At, Open, NoAnswer, OwnMemberships
<1> QED BY <1>5, <1>6 DEF IInv

LEMMA SetsBusiness ==
    ASSUME IInv, NEW q \in Requests, SetContext(q), At(q, "business")
    PROVE  IInv'
<1> DEFINE t == [request[q] EXCEPT !.at = "scoped"]
           s == [local[request[q].connection] EXCEPT !["business"] = request[q].business]
<1>1. Active(q) /\ request[q].at = "business"
  BY DEF At, Active
<1>2. t \in Transaction /\ s \in Setting /\ t.connection = request[q].connection
  BY <1>1, OwnStep DEF Transaction, Setting
<1>3. Scoped(t, s)
  BY <1>1, OwnStep DEF Scoped, Transaction, Setting
<1>4. /\ request' = [request EXCEPT ![q] = t]
      /\ local' = [local EXCEPT ![t.connection] = s]
      /\ UNCHANGED <<settings, rows>>
  BY <1>1, <1>2 DEF SetContext, set_config, Proceed, Open, At
<1>5. TypeOK' /\ OneEach' /\ ScopeInv'
  BY <1>1, <1>2, <1>3, <1>4, GoesOn
<1>6. SeesItsOwn'
  <2>1. t.answer = NoAnswer
    BY <1>1, OwnStep DEF Scoped, Transaction
  <2> QED BY <1>1, <1>4, <2>1 DEF IInv, TypeOK, SeesItsOwn, At, Open, NoAnswer, OwnMemberships
<1> QED BY <1>5, <1>6 DEF IInv

(* What the policies make of the settings of a scoped transaction.            *)
LEMMA Policies ==
    ASSUME IInv, NEW q \in Requests, At(q, "scoped")
    PROVE  LET c == request[q].connection IN
           /\ \A b \in Businesses : tenant_isolation(c, b) <=> b = request[q].business
           /\ \A u \in Users : self_access(c, u) <=> u = request[q].user
           /\ Castable(c, "business") /\ Castable(c, "user")
<1> DEFINE t == request[q]
           s == local[t.connection]
<1>1. Active(q) /\ t.at = "scoped"
  BY DEF At, Active
<1>2. t \in Transaction /\ s \in Setting /\ s.role = App /\ s.user = t.user
  BY <1>1, OwnStep DEF Scoped
<1>3. /\ CurrentSetting(t.connection, "user") = s.user
      /\ s.user \in Users \union {Nil}
  BY <1>2, NamesAssumption DEF CurrentSetting, NullIf, Transaction
<1>4. CASE "business" \in t.steps
  <2>1. s.business = t.business /\ t.business \in Businesses \union {Nil}
    BY <1>1, <1>2, <1>4, OwnStep DEF Scoped, Transaction
  <2>2. CurrentSetting(t.connection, "business") = t.business
    BY <2>1, NamesAssumption DEF CurrentSetting, NullIf
  <2> QED BY <1>2, <1>3, <2>1, <2>2, NamesAssumption DEF tenant_isolation, self_access, Castable
<1>5. CASE "business" \notin t.steps
  <2>1. s.business \in {Unset, Empty} /\ t.steps = {"user"} /\ t.business = Nil
    BY <1>1, <1>2, <1>5, OwnStep DEF Scoped, Transaction
  <2>2. CurrentSetting(t.connection, "business") = Unset
    BY <2>1 DEF CurrentSetting, NullIf
  <2> QED BY <1>2, <1>3, <2>1, <2>2, NamesAssumption DEF tenant_isolation, self_access, Castable
<1> QED BY <1>4, <1>5

LEMMA SelectsItsOwn ==
    ASSUME IInv, NEW q \in Requests, At(q, "scoped"), NEW b \in Businesses
    PROVE  Select(q, b) = [of |-> "rows", named |-> b, failed |-> FALSE,
                           seen |-> {b} \intersect {request[q].business}]
<1>1. Castable(request[q].connection, "business")
  BY Policies
<1>2. \A x \in {b} : tenant_isolation(request[q].connection, x) <=> x = request[q].business
  BY Policies
<1> QED BY <1>1, <1>2 DEF Select, Open

LEMMA ReachesItsMemberships ==
    ASSUME IInv, NEW q \in Requests, At(q, "scoped"), NEW m \in Memberships
    PROVE  AccessToMembership(request[q].connection, m) <=> m \in OwnMemberships(q)
<1>1. m[1] \in Businesses /\ m[2] \in Users
  BY NamesAssumption
<1>2. tenant_isolation(request[q].connection, m[1]) <=> m[1] = request[q].business
  BY <1>1, Policies
<1>3. self_access(request[q].connection, m[2]) <=> m[2] = request[q].user
  BY <1>1, Policies
<1> QED BY <1>2, <1>3 DEF AccessToMembership, OwnMemberships, Open

LEMMA SelectsItsMemberships ==
    ASSUME IInv, NEW q \in Requests, At(q, "scoped")
    PROVE  SelectMemberships(q) = [of |-> "memberships", named |-> Nil, failed |-> FALSE,
                                   seen |-> OwnMemberships(q)]
<1>1. Castable(request[q].connection, "business") /\ Castable(request[q].connection, "user")
  BY Policies
<1>2. {m \in Memberships : AccessToMembership(request[q].connection, m)} = OwnMemberships(q)
  BY ReachesItsMemberships DEF OwnMemberships
<1> QED BY <1>1, <1>2 DEF SelectMemberships, Open

LEMMA Reads ==
    ASSUME IInv, NEW q \in Requests, Read(q)
    PROVE  IInv'
<1>1. Active(q) /\ At(q, "scoped")
  BY DEF Read, At, Active
<1>2. PICK answer : /\ \/ \E b \in Businesses : answer = Select(q, b)
                       \/ answer = SelectMemberships(q)
                    /\ request' = [request EXCEPT ![q] = [request[q] EXCEPT !.answer = answer]]
                    /\ UNCHANGED <<settings, local, rows>>
  BY DEF Read, Proceed, Open
<1>3. /\ ~answer.failed
      /\ answer.of = "rows" => answer.seen = {answer.named} \intersect {request[q].business}
      /\ answer.of = "memberships" => answer.seen = OwnMemberships(q)
      /\ answer \in [of : {"none", "rows", "memberships"}, named : Businesses \union {Nil},
                     failed : BOOLEAN, seen : SUBSET (Businesses \union Memberships)]
  <2>1. CASE \E b \in Businesses : answer = Select(q, b)
    <3>1. PICK b \in Businesses : answer = Select(q, b)
      BY <2>1
    <3>2. answer = [of |-> "rows", named |-> b, failed |-> FALSE,
                    seen |-> {b} \intersect {request[q].business}]
      BY <1>1, <3>1, SelectsItsOwn
    <3> QED BY <3>2
  <2>2. CASE answer = SelectMemberships(q)
    <3>1. answer = [of |-> "memberships", named |-> Nil, failed |-> FALSE, seen |-> OwnMemberships(q)]
      BY <1>1, <2>2, SelectsItsMemberships
    <3> QED BY <3>1 DEF OwnMemberships
  <2> QED BY <1>2, <2>1, <2>2
<1> DEFINE t == [request[q] EXCEPT !.answer = answer]
           s == local[request[q].connection]
<1>4. t \in Transaction /\ s \in Setting /\ t.connection = request[q].connection
  BY <1>1, <1>3, OwnStep DEF Transaction
<1>5. Scoped(t, s)
  BY <1>1, OwnStep DEF Scoped, Transaction, At
<1>6. request' = [request EXCEPT ![q] = t] /\ local' = [local EXCEPT ![t.connection] = s]
  <2>1. local' = local
    BY <1>2
  <2> QED BY <1>2, <1>4, <2>1 DEF IInv, TypeOK
<1>7. TypeOK' /\ OneEach' /\ ScopeInv'
  BY <1>1, <1>2, <1>4, <1>5, <1>6, GoesOn
<1>8. SeesItsOwn'
  <2>1. /\ t.answer = answer /\ t.business = request[q].business /\ t.user = request[q].user
        /\ request'[q] = t /\ \A r \in Requests \ {q} : request'[r] = request[r]
    BY <1>1, <1>6, OwnStep DEF IInv, TypeOK, Transaction
  <2> SUFFICES ASSUME NEW r \in Requests, At(r, "scoped")'
               PROVE  LET a == request'[r].answer
                      IN /\ ~a.failed
                         /\ a.of = "rows" => a.seen = {a.named} \intersect {request'[r].business}
                         /\ a.of = "memberships" => a.seen = OwnMemberships(r)'
    BY DEF SeesItsOwn, Open
  <2>2. CASE r = q
    <3>1. /\ request'[r].answer = answer /\ request'[r].business = request[q].business
          /\ request'[r].user = request[q].user
      BY <2>1, <2>2
    <3>2. OwnMemberships(r)' = OwnMemberships(q)
      BY <3>1 DEF OwnMemberships, Open
    <3> QED BY <1>3, <3>1, <3>2
  <2>3. CASE r # q
    BY <2>1, <2>3 DEF IInv, SeesItsOwn, At, Open, OwnMemberships
  <2> QED BY <2>2, <2>3
<1> QED BY <1>7, <1>8 DEF IInv

\* A row that the policies let it write.
LEMMA WritesItsOwn ==
    ASSUME IInv, NEW q \in Requests, At(q, "scoped"), NEW x \in Businesses \union Memberships, Write(q, x),
           x = request[q].business \/ x \in OwnMemberships(q)
    PROVE  IInv'
<1>1. Active(q)
  BY DEF At, Active
<1> DEFINE t == [request[q] EXCEPT !.wrote = {x}]
           s == local[request[q].connection]
<1>2. t \in Transaction /\ s \in Setting /\ t.connection = request[q].connection
  BY <1>1, OwnStep DEF Transaction
<1>3. Scoped(t, s)
  BY <1>1, OwnStep DEF Scoped, Transaction, At, OwnMemberships, Open
<1>4. request' = [request EXCEPT ![q] = t] /\ UNCHANGED <<settings, local, rows>>
  BY DEF Write, Proceed, Open
<1>5. local' = [local EXCEPT ![t.connection] = s]
  BY <1>2, <1>4 DEF IInv, TypeOK
<1>6. TypeOK' /\ OneEach' /\ ScopeInv'
  BY <1>1, <1>2, <1>3, <1>4, <1>5, GoesOn
<1>7. SeesItsOwn'
  BY <1>1, <1>4, OwnStep DEF IInv, TypeOK, SeesItsOwn, At, Open, Transaction, OwnMemberships
<1> QED BY <1>6, <1>7 DEF IInv

LEMMA Inserts ==
    ASSUME IInv, NEW q \in Requests, Insert(q) \/ WriteMembership(q)
    PROVE  IInv'
<1>1. At(q, "scoped")
  BY DEF Insert, WriteMembership
<1>2. CASE Insert(q)
  <2>1. PICK b \in Businesses : tenant_isolation(request[q].connection, b) /\ Write(q, b)
    BY <1>2 DEF Insert, Open
  <2>2. b = request[q].business
    BY <1>1, <2>1, Policies
  <2> QED BY <1>1, <2>1, <2>2, WritesItsOwn
<1>3. CASE WriteMembership(q)
  <2>1. PICK m \in Memberships : AccessToMembership(request[q].connection, m) /\ Write(q, m)
    BY <1>3 DEF WriteMembership, Open
  <2>2. m \in OwnMemberships(q)
    BY <1>1, <2>1, ReachesItsMemberships
  <2> QED BY <1>1, <2>1, <2>2, WritesItsOwn
<1> QED BY <1>2, <1>3

LEMMA Ends ==
    ASSUME IInv, NEW q \in Requests, Active(q), NEW left \in Left,
           End(q, left), rows' \in [Businesses \union Memberships -> Nat]
    PROVE  IInv'
<1>1. request[q].connection \in Connections
  BY OwnStep DEF Transaction
<1>2. request'[q] = Free /\ \A r \in Requests \ {q} : request'[r] = request[r]
  BY DEF End, Proceed, IInv, TypeOK
<1>3. \A c \in Connections \ {request[q].connection} : local'[c] = local[c]
  BY <1>1 DEF End, Open, IInv, TypeOK
<1>4. \A r \in Requests \ {q} : Active(r) => request[r].connection \in Connections \ {request[q].connection}
  BY DEF IInv, TypeOK, OneEach, Transaction, Active, Free
<1>5. TypeOK'
  <2>1. Left \subseteq Setting
    BY DEF Left, Setting
  <2>2. settings' \in [Connections -> Left] /\ local' \in [Connections -> Setting]
    BY <1>1, <2>1 DEF End, Open, IInv, TypeOK
  <2>3. request' \in [Requests -> Transaction \union {Free}]
    BY DEF End, Proceed, IInv, TypeOK
  <2> QED BY <2>2, <2>3 DEF TypeOK
<1>6. OneEach'
  BY <1>2 DEF IInv, OneEach, Active, Free
<1>7. ScopeInv'
  BY <1>2, <1>3, <1>4 DEF IInv, ScopeInv, Active, Free, Scoped
<1>8. SeesItsOwn'
  BY <1>2 DEF IInv, SeesItsOwn, At, Open, Free, OwnMemberships
<1> QED BY <1>5, <1>6, <1>7, <1>8 DEF IInv

LEMMA LeftClean ==
    ASSUME IInv, NEW c \in Connections
    PROVE  Reverted(c) \in Left /\ Fresh \in Left
BY DEF IInv, TypeOK, Reverted, Left, Fresh

LEMMA CommitsOrRollsBack ==
    ASSUME IInv, NEW q \in Requests, Commit(q) \/ Rollback(q)
    PROVE  IInv'
<1>1. Active(q)
  BY DEF Commit, Rollback, At, Active
<1>2. request[q].connection \in Connections
  BY <1>1, OwnStep DEF Transaction
<1>3. rows' \in [Businesses \union Memberships -> Nat]
  BY DEF Commit, Rollback, IInv, TypeOK
<1>4. End(q, Reverted(request[q].connection)) \/ End(q, Fresh)
  BY DEF Commit, Rollback, Open
<1> QED BY <1>1, <1>2, <1>3, <1>4, LeftClean, Ends

LEMMA Stutters == ASSUME IInv, UNCHANGED vars PROVE IInv'
BY DEF vars, IInv, TypeOK, OneEach, ScopeInv, SeesItsOwn, Active, At, Open, Scoped, OwnMemberships

LEMMA StepInv == ASSUME IInv, [Next]_vars PROVE IInv'
<1>1. CASE UNCHANGED vars
  BY <1>1, Stutters
<1>2. CASE Next
  <2>1. PICK q \in Requests : \/ WithApp(q) \/ WithTenant(q) \/ SetRole(q) \/ SetContext(q)
                              \/ Read(q) \/ Insert(q) \/ WriteMembership(q) \/ Commit(q) \/ Rollback(q)
    BY <1>2 DEF Next
  <2>2. CASE WithApp(q) \/ WithTenant(q) BY <2>2, Begins
  <2>3. CASE SetRole(q) BY <2>3, SetsRole
  <2>4. CASE SetContext(q)
    <3>1. At(q, "user") \/ At(q, "business")
      BY <2>4 DEF SetContext
    <3> QED BY <2>4, <3>1, SetsUser, SetsBusiness
  <2>5. CASE Read(q) BY <2>5, Reads
  <2>6. CASE Insert(q) \/ WriteMembership(q) BY <2>6, Inserts
  <2>7. CASE Commit(q) \/ Rollback(q) BY <2>7, CommitsOrRollsBack
  <2> QED BY <2>1, <2>2, <2>3, <2>4, <2>5, <2>6, <2>7
<1> QED BY <1>1, <1>2

(***************************************************************************)
(* Theorems.                                                               *)
(***************************************************************************)

(* Transactions on connections that are used over and over stay apart: each   *)
(* has its own connection, and its connection has nothing set but what it     *)
(* set itself (internal/store/tx.go).                                         *)
THEOREM TenancyInvariant == Spec => []IInv
<1>1. Init => IInv
  BY InitInv
<1>2. IInv /\ [Next]_vars => IInv'
  BY StepInv
<1> QED BY <1>1, <1>2, PTL DEF Spec

(* Every statement sees all rows of its transaction's business and user and   *)
(* no other (the policies of the migrations over internal/store/tx.go).       *)
THEOREM StatementsSeeTheirOwn == Spec => []SeesItsOwn
<1>1. IInv => SeesItsOwn
  BY DEF IInv
<1> QED BY <1>1, TenancyInvariant, PTL

(* A business's rows change only when a transaction of that business commits, *)
(* and a membership only when one of its business or of its user does.        *)
THEOREM RowsChangeByTheirOwn == Spec => ChangesItsOwn
<1> DEFINE ByItsOwn(x) == \E q \in Requests : /\ At(q, "scoped") /\ At(q, "free")'
                                              /\ x = Open(q).business \/ x \in OwnMemberships(q)
           Step == \A x \in DOMAIN rows : rows'[x] # rows[x] => ByItsOwn(x)
<1>1. ASSUME IInv, Next, NEW x \in DOMAIN rows, rows'[x] # rows[x] PROVE ByItsOwn(x)
  <2>1. PICK q \in Requests : Commit(q)
    BY <1>1 DEF Next, WithApp, WithTenant, withTx, SetRole, SetContext, Read, Insert, WriteMembership, Write,
       Rollback
  <2>2. At(q, "scoped") /\ Active(q)
    BY <2>1 DEF Commit, At, Active
  <2>3. x \in request[q].wrote
    BY <1>1, <2>1 DEF Commit, Open, IInv, TypeOK
  <2>4. x = request[q].business \/ x \in OwnMemberships(q)
    BY <1>1, <2>2, <2>3, OwnStep DEF Scoped, OwnMemberships, Open
  <2>5. At(q, "free")'
    BY <1>1, <2>1 DEF Commit, End, Proceed, At, Free, IInv, TypeOK
  <2> QED BY <2>2, <2>4, <2>5 DEF Open
<1> HIDE DEF ByItsOwn
<1>2. IInv /\ [Next]_vars => [Step]_vars
  BY <1>1
<1> HIDE DEF Step
<1>3. Spec => [][Step]_vars
  BY <1>2, TenancyInvariant, PTL DEF Spec
<1>4. [][Step]_vars => ChangesItsOwn
  BY PTL DEF Step, ByItsOwn, ChangesItsOwn
<1> QED BY <1>3, <1>4, PTL

(***************************************************************************)
(* Signing up: the password of an account is the one that was given with    *)
(* its code, every wrong code is counted, and an account stays as it is.    *)
(***************************************************************************)
SignUpAssumptions == Joining!GoogleAssumption /\ Joining!BoundsAssumption /\ Joining!NoneAssumption

\* The code n was generated for x, with this password.
GivenWith(n, x, password) == n \in 1..Len(codes) /\ codes[n].identifier = x /\ codes[n].password = password

ContextOK(c) ==
    /\ c.at = "storing" => c.password \in Passwords
    /\ c.at = "creating" => GivenWith(c.code, c.identifier, c.password) /\ codes[c.code].arrived
    /\ c.at \in {"resolving", "making", "linking"} => c.google \in Google /\ c.identifier \in Emails

RequestInv == \A q \in Requests : signUpRequest[q] # None => ContextOK(signUpRequest[q])

PendingInv == \A x \in Joining!Identifiers :
    pending[x] # None => GivenWith(pending[x].code, x, pending[x].password)

AccountInv == \A x \in Joining!Identifiers : account[x] # None /\ account[x].code # 0 =>
    GivenWith(account[x].code, x, account[x].password) /\ codes[account[x].code].arrived

SignUpInv == Joining!TypeOK /\ RequestInv /\ PendingInv /\ AccountInv

\* Codes are only added.
CodesGrown == /\ Len(codes) \in Nat /\ Len(codes') \in Nat /\ Len(codes) <= Len(codes')
              /\ \A n \in 1..Len(codes) : codes'[n] = codes[n]

CodeType == /\ codes \in Seq([identifier: Joining!Identifiers, password: Passwords, arrived: BOOLEAN])
            /\ Len(codes) <= MaxCodes

LEMMA NoneGenerated == ASSUME SignUpInv, codes' = codes PROVE CodesGrown /\ CodeType'
BY DEF SignUpInv, Joining!TypeOK, CodesGrown, CodeType

LEMMA GivenStays ==
    ASSUME CodesGrown, NEW n, NEW x, NEW password, GivenWith(n, x, password)
    PROVE  /\ n \in 1..Len(codes') /\ codes'[n] = codes[n]
           /\ codes'[n].identifier = x /\ codes'[n].password = password
BY DEF CodesGrown, GivenWith

\* A step of one request that makes no row that does not tell what its code was given with.
LEMMA StepOf ==
    ASSUME SignUpAssumptions, SignUpInv, CodesGrown, CodeType', signUpStops' \in 0..MaxStops,
           signedIn' \subseteq Joining!Identifiers,
           account' \in [Joining!Identifiers -> Joining!UserRow \cup {None}],
           pending' \in [Joining!Identifiers -> Joining!PendingRow \cup {None}],
           link' \in [Google -> Emails \cup {None}],
           NEW q \in Requests, NEW c \in Joining!Context \cup {None},
           signUpRequest' = [signUpRequest EXCEPT ![q] = c],
           c # None => ContextOK(c)',
           \A x \in Joining!Identifiers : pending'[x] # None =>
               \/ /\ pending[x] # None /\ pending'[x].code = pending[x].code
                  /\ pending'[x].password = pending[x].password
               \/ GivenWith(pending[x].code, x, pending[x].password)',
           \A x \in Joining!Identifiers : account'[x] = account[x] \/
               (account'[x].code # 0 => GivenWith(account[x].code, x, account[x].password)'
                                        /\ codes'[account'[x].code].arrived)
    PROVE  SignUpInv'
<1>1. Joining!TypeOK'
  BY DEF SignUpInv, Joining!TypeOK, CodeType
<1>2. PendingInv'
  <2> SUFFICES ASSUME NEW x \in Joining!Identifiers, pending'[x] # None
               PROVE  GivenWith(pending[x].code, x, pending[x].password)'
    BY DEF PendingInv
  <2>1. CASE /\ pending[x] # None /\ pending'[x].code = pending[x].code
             /\ pending'[x].password = pending[x].password
    BY <2>1, GivenStays DEF SignUpInv, PendingInv, GivenWith
  <2> QED BY <2>1
<1>3. AccountInv'
  <2> SUFFICES ASSUME NEW x \in Joining!Identifiers, account'[x] # None, account'[x].code # 0
               PROVE  GivenWith(account[x].code, x, account[x].password)' /\ codes'[account'[x].code].arrived
    BY DEF AccountInv
  <2>1. CASE account'[x] = account[x]
    BY <2>1, GivenStays DEF SignUpInv, AccountInv, GivenWith
  <2> QED BY <2>1
<1>4. RequestInv'
  <2> SUFFICES ASSUME NEW r \in Requests, signUpRequest'[r] # None PROVE ContextOK(signUpRequest[r])'
    BY DEF RequestInv
  <2>1. CASE r = q
    <3>1. signUpRequest'[r] = c
      BY <2>1 DEF SignUpInv, Joining!TypeOK
    <3> QED BY <3>1 DEF ContextOK, GivenWith
  <2>2. CASE r # q
    <3>1. signUpRequest'[r] = signUpRequest[r]
      BY <2>2 DEF SignUpInv, Joining!TypeOK
    <3>2. ContextOK(signUpRequest[r])
      BY <3>1 DEF SignUpInv, RequestInv
    <3> QED BY <3>1, <3>2, GivenStays DEF ContextOK, GivenWith
  <2> QED BY <2>1, <2>2
<1> QED BY <1>1, <1>2, <1>3, <1>4 DEF SignUpInv

\* A step of a request that leaves the rows.
LEMMA SignUpQuietStep ==
    ASSUME SignUpAssumptions, SignUpInv, UNCHANGED <<account, pending, codes>>, signUpStops' \in 0..MaxStops,
           signedIn' \subseteq Joining!Identifiers, link' \in [Google -> Emails \cup {None}],
           NEW q \in Requests, NEW c \in Joining!Context \cup {None},
           signUpRequest' = [signUpRequest EXCEPT ![q] = c],
           c # None => ContextOK(c)
    PROVE  SignUpInv'
<1>1. CodesGrown /\ CodeType'
  BY NoneGenerated
<1>2. c # None => ContextOK(c)'
  BY DEF ContextOK, GivenWith
<1>3. account' \in [Joining!Identifiers -> Joining!UserRow \cup {None}]
       /\ pending' \in [Joining!Identifiers -> Joining!PendingRow \cup {None}]
  BY DEF SignUpInv, Joining!TypeOK
<1> QED BY <1>1, <1>2, <1>3, StepOf

LEMMA Ongoing ==
    ASSUME SignUpAssumptions, SignUpInv, NEW q \in Requests, NEW step, Joining!At(q, step)
    PROVE  \E r \in Joining!Context : signUpRequest[q] = r /\ r # None /\ r.at = step /\ ContextOK(r)
BY DEF SignUpInv, Joining!TypeOK, RequestInv, Joining!At

LEMMA ForIsContext ==
    ASSUME SignUpAssumptions, NEW x \in Joining!Identifiers
    PROVE  Joining!For(x) \in Joining!Context /\ Joining!For(x).identifier = x
                                                 /\ Joining!For(x).at = "storing"
BY DEF Joining!For, Joining!Context, SignUpAssumptions, Joining!BoundsAssumption

LEMMA Starts ==
    ASSUME SignUpAssumptions, SignUpInv, NEW q \in Requests, NEW x \in Joining!Identifiers,
           NEW p \in Passwords, Joining!signupStart(q, x, p)
    PROVE  SignUpInv'
<1> DEFINE f == Joining!For(x)
           c == [f EXCEPT !.password = p]
<1>1. f \in Joining!Context /\ f.at = "storing"
  BY ForIsContext
<1>2. signUpRequest' = [signUpRequest EXCEPT ![q] = c] /\ UNCHANGED <<account, pending, codes, link,
                                                          signedIn, signUpStops>>
  BY DEF Joining!signupStart, Joining!Begin, Joining!rows
<1> HIDE DEF f
<1>3. c \in Joining!Context /\ c.at = "storing" /\ c.password = p
  BY <1>1 DEF Joining!Context
<1> HIDE DEF c
<1>4. ContextOK(c)
  BY <1>3 DEF ContextOK
<1>5. signUpStops' \in 0..MaxStops /\ signedIn' \subseteq Joining!Identifiers
                                      /\ link' \in [Google -> Emails \cup {None}]
  BY <1>2 DEF SignUpInv, Joining!TypeOK
<1> QED BY <1>2, <1>3, <1>4, <1>5, SignUpQuietStep

LEMMA Stores ==
    ASSUME SignUpAssumptions, SignUpInv, NEW q \in Requests, Joining!Start(q)
    PROVE  SignUpInv'
<1>1. PICK c \in Joining!Context : signUpRequest[q] = c /\ c.at = "storing" /\ ContextOK(c)
  BY Ongoing DEF Joining!Start
<1>2. c.identifier \in Joining!Identifiers /\ c.password \in Passwords
  BY <1>1 DEF Joining!Context, ContextOK
<1>5. PICK n \in 1..MaxCodes : n = Len(codes) + 1 /\ n \in Nat /\ Len(codes) \in Nat
  BY DEF SignUpInv, Joining!TypeOK, Joining!Start, SignUpAssumptions, Joining!BoundsAssumption
<1> DEFINE x == c.identifier
           row == [id |-> IF pending[x] = None THEN n ELSE pending[x].id, code |-> n, password |-> c.password,
                   attempts |-> 0, wrong |-> 0, expired |-> FALSE]
<1>3. pending' = [pending EXCEPT ![x] = row] /\ Joining!Answer(q) /\ UNCHANGED <<account, link, signedIn,
                                                                     signUpStops>>
  BY <1>1, <1>5 DEF Joining!Start, Joining!UpsertSignupVerificationByEmail,
     Joining!UpsertSignupVerificationByPhone, Joining!Upsert
<1>4. PICK arrived \in BOOLEAN :
         codes' = Append(codes, [identifier |-> x, password |-> c.password, arrived |-> arrived])
  BY <1>1 DEF Joining!Start
<1>6. row \in Joining!PendingRow /\ row.code = n /\ row.password = c.password
  <2>1. (IF pending[x] = None THEN n ELSE pending[x].id) \in 1..MaxCodes
    BY <1>2, <1>5 DEF SignUpInv, Joining!TypeOK, Joining!PendingRow
  <2> QED BY <1>2, <1>5, <2>1 DEF Joining!PendingRow
<1> DEFINE e == [identifier |-> x, password |-> c.password, arrived |-> arrived]
<1>7. e \in [identifier: Joining!Identifiers, password: Passwords,
       arrived: BOOLEAN] /\ e.identifier = x /\ e.password = c.password
  BY <1>2
<1> HIDE DEF row, e
<1>8. codes' = Append(codes, e)
  BY <1>4 DEF e
<1>9. CodesGrown /\ CodeType' /\ codes'[n] = e /\ Len(codes') = n
  <2>1. codes \in Seq([identifier: Joining!Identifiers, password: Passwords, arrived: BOOLEAN])
    BY DEF SignUpInv, Joining!TypeOK
  <2> QED BY <1>5, <1>7, <1>8, <2>1 DEF CodesGrown, CodeType
<1>10. GivenWith(n, x, c.password)'
  BY <1>5, <1>7, <1>9 DEF GivenWith
<1>11. pending' \in [Joining!Identifiers -> Joining!PendingRow \cup {None}] /\ pending'[x] = row
       /\ \A y \in Joining!Identifiers \ {x} : pending'[y] = pending[y]
  BY <1>2, <1>3, <1>6 DEF SignUpInv, Joining!TypeOK
<1>12. \A y \in Joining!Identifiers : pending'[y] # None =>
          \/ /\ pending[y] # None /\ pending'[y].code = pending[y].code
             /\ pending'[y].password = pending[y].password
          \/ GivenWith(pending[y].code, y, pending[y].password)'
  BY <1>6, <1>10, <1>11 DEF GivenWith
<1>13. signUpRequest' = [signUpRequest EXCEPT ![q] = None] /\ signUpStops' \in 0..MaxStops
                                                              /\ signedIn' \subseteq Joining!Identifiers
       /\ link' \in [Google -> Emails \cup {None}]
          /\ account' \in [Joining!Identifiers -> Joining!UserRow \cup {None}]
       /\ account' = account
  BY <1>3 DEF SignUpInv, Joining!TypeOK, Joining!Answer
<1> HIDE DEF x
<1> QED BY <1>9, <1>11, <1>12, <1>13, StepOf


LEMMA Verifies ==
    ASSUME SignUpAssumptions, SignUpInv, NEW q \in Requests, NEW x \in Joining!Identifiers,
           Joining!signupVerify(q, x)
    PROVE  SignUpInv'
<1> DEFINE f == Joining!For(x)
           c == [f EXCEPT !.at = "creating", !.id = pending[x].id, !.code = pending[x].code,
                          !.password = pending[x].password]
<1>1. f \in Joining!Context /\ f.identifier = x
  BY ForIsContext
<1>2. signUpRequest' = [signUpRequest EXCEPT ![q] = c] /\ UNCHANGED <<account, pending, codes, link,
                                                          signedIn, signUpStops>>
      /\ codes[pending[x].code].arrived /\ pending[x] # None
  BY DEF Joining!signupVerify, Joining!Begin, Joining!rows, Joining!CodeUsable,
     Joining!GetSignupVerificationByEmail, Joining!GetSignupVerificationByPhone
<1>3. pending[x] \in Joining!PendingRow /\ GivenWith(pending[x].code, x, pending[x].password)
  BY <1>2 DEF SignUpInv, Joining!TypeOK, PendingInv
<1>4. pending[x].id \in 0..MaxCodes /\ pending[x].code \in 0..MaxCodes /\ pending[x].password \in Passwords
  BY <1>3 DEF Joining!PendingRow, SignUpAssumptions, Joining!BoundsAssumption
<1> HIDE DEF f
<1>5. c \in Joining!Context /\ c.at = "creating" /\ c.code = pending[x].code /\ c.identifier = x
      /\ c.password = pending[x].password
  BY <1>1, <1>4 DEF Joining!Context
<1> HIDE DEF c
<1>6. ContextOK(c)
  BY <1>2, <1>3, <1>5 DEF ContextOK
<1>7. signUpStops' \in 0..MaxStops /\ signedIn' \subseteq Joining!Identifiers
                                      /\ link' \in [Google -> Emails \cup {None}]
  BY <1>2 DEF SignUpInv, Joining!TypeOK
<1> QED BY <1>2, <1>5, <1>6, <1>7, SignUpQuietStep

\* Comparing a wrong code changes what the row counts, and nothing else of it.
LEMMA Counts ==
    ASSUME SignUpAssumptions, SignUpInv, NEW q \in Requests, NEW c \in Joining!Context \cup {None},
           signUpRequest' = [signUpRequest EXCEPT ![q] = c], c # None => c.at = "counting",
           UNCHANGED <<account, codes, link, signedIn, signUpStops>>,
           pending' \in [Joining!Identifiers -> Joining!PendingRow \cup {None}],
           \A x \in Joining!Identifiers : pending'[x] # None =>
               /\ pending[x] # None /\ pending'[x].code = pending[x].code
               /\ pending'[x].password = pending[x].password
    PROVE  SignUpInv'
<1>1. CodesGrown /\ CodeType'
  BY NoneGenerated
<1>2. c # None => ContextOK(c)'
  BY DEF ContextOK
<1>3. account' \in [Joining!Identifiers -> Joining!UserRow \cup {None}]
       /\ link' \in [Google -> Emails \cup {None}]
      /\ signUpStops' \in 0..MaxStops /\ signedIn' \subseteq Joining!Identifiers
  BY DEF SignUpInv, Joining!TypeOK
<1> QED BY <1>1, <1>2, <1>3, StepOf

\* What comparing a wrong code does to the row, and counting it.
LEMMA Compared ==
    ASSUME SignUpAssumptions, SignUpInv, NEW q \in Requests, NEW x \in Joining!Identifiers,
           Joining!VerifyWrong(q, x)
    PROVE  /\ pending[x] # None /\ pending' \in [Joining!Identifiers -> Joining!PendingRow \cup {None}]
                                   /\ pending'[x] # None
           /\ pending'[x].code = pending[x].code /\ pending'[x].password = pending[x].password
           /\ pending'[x].id = pending[x].id /\ pending[x].wrong \in Nat
           /\ pending'[x].attempts = pending[x].attempts /\ pending'[x].wrong = pending[x].wrong + 1
           /\ \A y \in Joining!Identifiers \ {x} : pending'[y] = pending[y]
           /\ \E c \in Joining!Context : c.at = "counting" /\ c.id = pending[x].id /\ Joining!Begin(q, c)
<1>1. pending[x] # None /\ pending' = [pending EXCEPT ![x].wrong = pending[x].wrong + 1]
  BY DEF Joining!VerifyWrong, Joining!CodeUsable, Joining!GetSignupVerificationByEmail,
     Joining!GetSignupVerificationByPhone
<1>2. pending[x] \in Joining!PendingRow
  BY <1>1 DEF SignUpInv, Joining!TypeOK
<1>3. PICK row \in Joining!PendingRow :
         /\ pending' = [pending EXCEPT ![x] = row]
         /\ row.code = pending[x].code /\ row.password = pending[x].password /\ row.id = pending[x].id
         /\ row.attempts = pending[x].attempts /\ row.wrong = pending[x].wrong + 1
  <2> DEFINE row == [pending[x] EXCEPT !.wrong = pending[x].wrong + 1]
  <2>1. row \in Joining!PendingRow /\ row.code = pending[x].code /\ row.password = pending[x].password
        /\ row.id = pending[x].id /\ row.attempts = pending[x].attempts /\ row.wrong = pending[x].wrong + 1
    BY <1>2 DEF Joining!PendingRow
  <2>2. pending' = [pending EXCEPT ![x] = row]
    BY <1>1 DEF SignUpInv, Joining!TypeOK
  <2> QED BY <2>1, <2>2
<1>4. /\ pending' \in [Joining!Identifiers -> Joining!PendingRow \cup {None}] /\ pending'[x] = row
      /\ \A y \in Joining!Identifiers \ {x} : pending'[y] = pending[y]
  BY <1>3 DEF SignUpInv, Joining!TypeOK
<1>5. \E c \in Joining!Context : c.at = "counting" /\ c.id = pending[x].id /\ Joining!Begin(q, c)
  <2> DEFINE f == Joining!For(x)
             c == [f EXCEPT !.at = "counting", !.id = pending[x].id]
  <2>1. f \in Joining!Context /\ pending[x].id \in 0..MaxCodes
    BY <1>2, ForIsContext DEF Joining!PendingRow, SignUpAssumptions, Joining!BoundsAssumption
  <2>2. Joining!Begin(q, c)
    BY DEF Joining!VerifyWrong
  <2> HIDE DEF f
  <2>3. c \in Joining!Context /\ c.at = "counting" /\ c.id = pending[x].id
    BY <2>1 DEF Joining!Context
  <2> QED BY <2>2, <2>3
<1> QED BY <1>1, <1>2, <1>3, <1>4, <1>5 DEF Joining!PendingRow, SignUpAssumptions, Joining!NoneAssumption

LEMMA ComparesWrong ==
    ASSUME SignUpAssumptions, SignUpInv, NEW q \in Requests, NEW x \in Joining!Identifiers,
           Joining!VerifyWrong(q, x)
    PROVE  SignUpInv'
<1>1. PICK c \in Joining!Context : c.at = "counting" /\ c.id = pending[x].id /\ Joining!Begin(q, c)
  BY Compared
<1>2. UNCHANGED <<account, codes, link, signedIn, signUpStops>>
  BY DEF Joining!VerifyWrong
<1>3. pending' \in [Joining!Identifiers -> Joining!PendingRow \cup {None}]
      /\ \A y \in Joining!Identifiers : pending'[y] # None =>
            pending[y] # None /\ pending'[y].code = pending[y].code
                                 /\ pending'[y].password = pending[y].password
  BY Compared
<1>4. signUpRequest' = [signUpRequest EXCEPT ![q] = c]
  BY <1>1 DEF Joining!Begin
<1> QED BY <1>1, <1>2, <1>3, <1>4, Counts

LEMMA CountedWrong ==
    ASSUME SignUpAssumptions, SignUpInv, NEW q \in Requests, Joining!CountWrongCode(q)
    PROVE  /\ signUpRequest[q] \in Joining!Context /\ signUpRequest[q].at = "counting"
           /\ pending' \in [Joining!Identifiers -> Joining!PendingRow \cup {None}]
           /\ \A x \in Joining!Identifiers : pending'[x] # None =>
                 /\ pending[x] # None /\ pending'[x].code = pending[x].code
                 /\ pending'[x].password = pending[x].password /\ pending'[x].id = pending[x].id
                 /\ pending'[x].wrong = pending[x].wrong /\ pending[x].wrong \in Nat
                                                            /\ pending[x].attempts \in Nat
                 /\ pending'[x].attempts = IF pending[x].id = signUpRequest[q].id THEN pending[x].attempts + 1
                                           ELSE pending[x].attempts
<1>1. signUpRequest[q] \in Joining!Context /\ signUpRequest[q].at = "counting"
  BY Ongoing DEF Joining!CountWrongCode
<1> DEFINE id == signUpRequest[q].id
<1>2. pending' = [x \in Joining!Identifiers |->
          IF x \in Joining!WithID(id) THEN [pending[x] EXCEPT !.attempts = pending[x].attempts + 1] ELSE pending[x]]
  BY DEF Joining!CountWrongCode, Joining!IncrementSignupVerificationAttempts
<1> HIDE DEF id
<1>3. ASSUME NEW x \in Joining!Identifiers, x \in Joining!WithID(id)
      PROVE  /\ pending'[x] \in Joining!PendingRow /\ pending[x] # None /\ pending'[x].code = pending[x].code
             /\ pending'[x].password = pending[x].password /\ pending'[x].id = pending[x].id
             /\ pending'[x].wrong = pending[x].wrong /\ pending[x].wrong \in Nat
                                                        /\ pending[x].attempts \in Nat
             /\ pending'[x].attempts = pending[x].attempts + 1
  <2> DEFINE row == [pending[x] EXCEPT !.attempts = pending[x].attempts + 1]
  <2>1. pending[x] \in Joining!PendingRow /\ pending[x] # None
    BY <1>3 DEF Joining!WithID, SignUpInv, Joining!TypeOK
  <2>2. row \in Joining!PendingRow /\ row.code = pending[x].code /\ row.password = pending[x].password
        /\ row.id = pending[x].id /\ row.wrong = pending[x].wrong /\ pending[x].wrong \in Nat
        /\ pending[x].attempts \in Nat /\ row.attempts = pending[x].attempts + 1
    BY <2>1 DEF Joining!PendingRow
  <2>3. pending'[x] = row
    BY <1>2, <1>3
  <2> QED BY <2>1, <2>2, <2>3
<1>4. ASSUME NEW x \in Joining!Identifiers, x \notin Joining!WithID(id)
      PROVE  pending'[x] = pending[x] /\ (pending[x] # None => pending[x] \in Joining!PendingRow
                                         /\ pending[x].id # id)
  BY <1>2, <1>4 DEF Joining!WithID, SignUpInv, Joining!TypeOK
<1>5. pending' \in [Joining!Identifiers -> Joining!PendingRow \cup {None}]
  <2>1. \A x \in Joining!Identifiers : pending'[x] \in Joining!PendingRow \cup {None}
    BY <1>3, <1>4 DEF SignUpInv, Joining!TypeOK
  <2> QED BY <1>2, <2>1
<1>6. ASSUME NEW x \in Joining!Identifiers, pending'[x] # None
      PROVE  /\ pending[x] # None /\ pending'[x].code = pending[x].code
             /\ pending'[x].password = pending[x].password /\ pending'[x].id = pending[x].id
             /\ pending'[x].wrong = pending[x].wrong /\ pending[x].wrong \in Nat
                                                        /\ pending[x].attempts \in Nat
             /\ pending'[x].attempts = IF pending[x].id = id THEN pending[x].attempts + 1
                                       ELSE pending[x].attempts
  <2>1. CASE x \in Joining!WithID(id)
    BY <1>3, <2>1 DEF Joining!WithID
  <2>2. CASE x \notin Joining!WithID(id)
    BY <1>4, <1>6, <2>2 DEF Joining!PendingRow
  <2> QED BY <2>1, <2>2
<1> QED BY <1>1, <1>5, <1>6 DEF id

LEMMA CountsWrong ==
    ASSUME SignUpAssumptions, SignUpInv, NEW q \in Requests, Joining!CountWrongCode(q)
    PROVE  SignUpInv'
<1>1. UNCHANGED <<account, codes, link, signedIn,
       signUpStops>> /\ signUpRequest' = [signUpRequest EXCEPT ![q] = None]
  BY DEF Joining!CountWrongCode, Joining!Answer
<1> QED BY <1>1, CountedWrong, Counts

\* A request goes on with what it has established.
LEMMA Proceeding ==
    ASSUME SignUpAssumptions, SignUpInv, NEW q \in Requests, signUpRequest[q] # None,
           NEW step \in {"signing", "cleaning", "linking", "making"}, Joining!Proceed(q, step),
           step \in {"linking", "making"} => Joining!At(q, "resolving") \/ Joining!At(q, "making")
    PROVE  \E c \in Joining!Context : signUpRequest' = [signUpRequest EXCEPT ![q] = c] /\ ContextOK(c)
                                                                                          /\ (ContextOK(c))'
<1>1. PICK r \in Joining!Context : signUpRequest[q] = r /\ ContextOK(r)
  BY DEF SignUpInv, Joining!TypeOK, RequestInv
<1> DEFINE c == [r EXCEPT !.at = step]
<1>2. c \in Joining!Context /\ c.at = step /\ c.google = r.google /\ c.identifier = r.identifier
  BY <1>1 DEF Joining!Context
<1>3. signUpRequest' = [signUpRequest EXCEPT ![q] = c]
  BY <1>1 DEF Joining!Proceed, SignUpInv, Joining!TypeOK
<1> HIDE DEF c
<1>4. step \in {"linking", "making"} => r.google \in Google /\ r.identifier \in Emails
  BY <1>1 DEF Joining!At, ContextOK
<1> QED BY <1>2, <1>3, <1>4 DEF ContextOK

LEMMA MakesAccount ==
    ASSUME SignUpAssumptions, SignUpInv, NEW x \in Joining!Identifiers,
           NEW password \in Passwords \cup {None}, NEW code \in 0..MaxCodes,
           Joining!CreateUser(x, password, code)
    PROVE  /\ account' \in [Joining!Identifiers -> Joining!UserRow \cup {None}]
           /\ \A y \in Joining!Identifiers : account'[y] = account[y]
                \/ (y = x /\ account'[y].code = code /\ account'[y].password = password)
<1> DEFINE row == [password |-> password, code |-> code]
<1>1. row \in Joining!UserRow /\ row.code = code /\ row.password = password
  BY DEF Joining!UserRow
<1>2. account' = [account EXCEPT ![x] = row]
  BY DEF Joining!CreateUser
<1> HIDE DEF row
<1> QED BY <1>1, <1>2 DEF SignUpInv, Joining!TypeOK

LEMMA Creates ==
    ASSUME SignUpAssumptions, SignUpInv, NEW q \in Requests, Joining!Verify(q)
    PROVE  SignUpInv'
<1>1. PICK r \in Joining!Context : signUpRequest[q] = r /\ r # None /\ r.at = "creating" /\ ContextOK(r)
  BY Ongoing DEF Joining!Verify
<1>2. UNCHANGED <<pending, codes, link, signedIn, signUpStops>> /\ CodesGrown /\ CodeType'
  BY NoneGenerated DEF Joining!Verify
<1>3. signUpStops' \in 0..MaxStops /\ signedIn' \subseteq Joining!Identifiers
                                      /\ link' \in [Google -> Emails \cup {None}]
      /\ pending' \in [Joining!Identifiers -> Joining!PendingRow \cup {None}]
  BY <1>2 DEF SignUpInv, Joining!TypeOK
<1>4. CASE Joining!CreateUser(r.identifier, r.password, r.code) /\ Joining!Proceed(q, "signing")
  <2>1. PICK x \in Joining!Identifiers, p \in Passwords \cup {None}, n \in 0..MaxCodes :
           x = r.identifier /\ p = r.password /\ n = r.code
    BY DEF Joining!Context
  <2>2. GivenWith(n, x, p)' /\ codes'[n].arrived
    BY <1>1, <1>2, <2>1 DEF ContextOK, GivenWith
  <2>3. /\ account' \in [Joining!Identifiers -> Joining!UserRow \cup {None}]
        /\ \A y \in Joining!Identifiers : account'[y] = account[y] \/ (y = x /\ account'[y].code = n
                                                                                /\ account'[y].password = p)
    BY <1>4, <2>1, MakesAccount
  <2>4. PICK c \in Joining!Context : signUpRequest' = [signUpRequest EXCEPT ![q] = c] /\ (ContextOK(c))'
    BY <1>1, <1>4, Proceeding
  <2>5. \A y \in Joining!Identifiers : account'[y] = account[y] \/
            (account'[y].code # 0 => GivenWith(account[y].code, y, account[y].password)'
                                     /\ codes'[account'[y].code].arrived)
    BY <2>2, <2>3 DEF GivenWith
  <2>6. \A y \in Joining!Identifiers : pending'[y] # None =>
            pending[y] # None /\ pending'[y].code = pending[y].code
                                 /\ pending'[y].password = pending[y].password
    BY <1>2
  <2> QED BY <1>2, <1>3, <2>3, <2>4, <2>5, <2>6, StepOf
<1>5. CASE Joining!Answer(q) /\ UNCHANGED account
  BY <1>2, <1>3, <1>5, SignUpQuietStep DEF Joining!Answer
<1> QED BY <1>1, <1>4, <1>5 DEF Joining!Verify, Joining!PasswordConfirmed

LEMMA SignsIn ==
    ASSUME SignUpAssumptions, SignUpInv, NEW q \in Requests, Joining!CreateSession(q)
    PROVE  SignUpInv'
<1>1. PICK r \in Joining!Context : signUpRequest[q] = r /\ r # None
  BY Ongoing DEF Joining!CreateSession
<1>2. UNCHANGED <<account, pending, codes, link, signUpStops>> /\ signedIn' = signedIn \cup {r.identifier}
  BY <1>1 DEF Joining!CreateSession
<1>3. signUpStops' \in 0..MaxStops /\ signedIn' \subseteq Joining!Identifiers
                                      /\ link' \in [Google -> Emails \cup {None}]
  BY <1>2 DEF SignUpInv, Joining!TypeOK, Joining!Context
<1>4. CASE Joining!Proceed(q, "cleaning")
  <2>1. PICK c \in Joining!Context : signUpRequest' = [signUpRequest EXCEPT ![q] = c] /\ ContextOK(c)
    BY <1>1, <1>4, Proceeding
  <2> QED BY <1>2, <1>3, <2>1, SignUpQuietStep
<1>5. CASE Joining!Answer(q)
  BY <1>2, <1>3, <1>5, SignUpQuietStep DEF Joining!Answer
<1> QED BY <1>4, <1>5 DEF Joining!CreateSession

\* A row that goes, or expires, keeps what it was given with.
LEMMA RowsGo ==
    ASSUME SignUpAssumptions, SignUpInv, NEW q \in Requests, Joining!DeleteVerified(q)
    PROVE  /\ pending' \in [Joining!Identifiers -> Joining!PendingRow \cup {None}]
           /\ \A x \in Joining!Identifiers : pending'[x] = None \/ pending'[x] = pending[x]
<1>1. CASE Joining!DeleteSignupVerification(signUpRequest[q].id)
  BY <1>1 DEF Joining!DeleteSignupVerification, SignUpInv, Joining!TypeOK
<1>2. CASE UNCHANGED pending
  BY <1>2 DEF SignUpInv, Joining!TypeOK
<1> QED BY <1>1, <1>2 DEF Joining!DeleteVerified

LEMMA Cleans ==
    ASSUME SignUpAssumptions, SignUpInv, NEW q \in Requests, Joining!DeleteVerified(q)
    PROVE  SignUpInv'
<1>1. UNCHANGED <<account, codes, link, signedIn,
       signUpStops>> /\ signUpRequest' = [signUpRequest EXCEPT ![q] = None]
  BY DEF Joining!DeleteVerified, Joining!Answer
<1>2. \A x \in Joining!Identifiers : pending'[x] # None =>
         pending[x] # None /\ pending'[x].code = pending[x].code /\ pending'[x].password = pending[x].password
  BY RowsGo
<1> QED BY <1>1, <1>2, RowsGo, Counts

LEMMA RowExpires ==
    ASSUME SignUpAssumptions, SignUpInv, NEW x \in Joining!Identifiers, Joining!Expire(x)
    PROVE  /\ pending' \in [Joining!Identifiers -> Joining!PendingRow \cup {None}]
           /\ \A y \in Joining!Identifiers : pending'[y] # None =>
                 /\ pending[y] # None /\ pending'[y].code = pending[y].code
                 /\ pending'[y].password = pending[y].password /\ pending'[y].id = pending[y].id
                 /\ pending'[y].wrong = pending[y].wrong /\ pending'[y].attempts = pending[y].attempts
<1> DEFINE row == [pending[x] EXCEPT !.expired = TRUE]
<1>1. pending[x] # None /\ pending[x] \in Joining!PendingRow
  BY DEF Joining!Expire, SignUpInv, Joining!TypeOK
<1>2. row \in Joining!PendingRow /\ row.code = pending[x].code /\ row.password = pending[x].password
                                                                  /\ row.id = pending[x].id
      /\ row.wrong = pending[x].wrong /\ row.attempts = pending[x].attempts
  BY <1>1 DEF Joining!PendingRow
<1>3. pending' = [pending EXCEPT ![x] = row]
  BY DEF Joining!Expire, SignUpInv, Joining!TypeOK
<1> HIDE DEF row
<1>4. pending' \in [Joining!Identifiers -> Joining!PendingRow \cup {None}] /\ pending'[x] = row
      /\ \A y \in Joining!Identifiers \ {x} : pending'[y] = pending[y]
  BY <1>2, <1>3 DEF SignUpInv, Joining!TypeOK
<1> QED BY <1>1, <1>2, <1>4

LEMMA SignUpExpires ==
    ASSUME SignUpAssumptions, SignUpInv, NEW x \in Joining!Identifiers, Joining!Expire(x)
    PROVE  SignUpInv'
<1>1. UNCHANGED <<account, codes, link, signedIn, signUpRequest, signUpStops>>
  BY DEF Joining!Expire
<1>2. Joining!TypeOK'
  BY <1>1, RowExpires DEF SignUpInv, Joining!TypeOK
<1>3. RequestInv' /\ AccountInv'
  BY <1>1 DEF SignUpInv, RequestInv, AccountInv, ContextOK, GivenWith
<1>4. PendingInv'
  BY <1>1, RowExpires DEF SignUpInv, PendingInv, GivenWith
<1> QED BY <1>2, <1>3, <1>4 DEF SignUpInv

LEMMA StartsWithGoogle ==
    ASSUME SignUpAssumptions, SignUpInv, NEW q \in Requests, NEW g \in Google, Joining!googleSignIn(q, g)
    PROVE  SignUpInv'
<1>1. UNCHANGED <<account, pending, codes, link, signedIn, signUpStops>>
  BY DEF Joining!googleSignIn, Joining!rows
<1>2. signUpStops' \in 0..MaxStops /\ signedIn' \subseteq Joining!Identifiers
                                      /\ link' \in [Google -> Emails \cup {None}]
  BY <1>1 DEF SignUpInv, Joining!TypeOK
<1>3. PICK x \in Emails, step \in {"signing", "resolving"} :
         signUpRequest' = [signUpRequest EXCEPT ![q] = [Joining!For(x) EXCEPT !.at = step, !.google = g]]
  <2>1. CASE link[g] # None
    BY <2>1 DEF Joining!googleSignIn, Joining!lookupLinkedUserID, Joining!Begin, SignUpInv, Joining!TypeOK
  <2>2. CASE link[g] = None
    BY <2>2 DEF Joining!googleSignIn, Joining!lookupLinkedUserID, Joining!Begin, SignUpAssumptions,
       Joining!GoogleAssumption
  <2> QED BY <2>1, <2>2
<1> DEFINE f == Joining!For(x)
           c == [f EXCEPT !.at = step, !.google = g]
<1>4. f \in Joining!Context /\ f.identifier = x
  BY ForIsContext DEF Joining!Identifiers
<1>5. signUpRequest' = [signUpRequest EXCEPT ![q] = c]
  BY <1>3
<1> HIDE DEF f
<1>6. c \in Joining!Context /\ c.at = step /\ c.google = g /\ c.identifier = x
  BY <1>4 DEF Joining!Context
<1> HIDE DEF c
<1>7. ContextOK(c)
  BY <1>6 DEF ContextOK
<1> QED BY <1>1, <1>2, <1>5, <1>6, <1>7, SignUpQuietStep

LEMMA Resolves ==
    ASSUME SignUpAssumptions, SignUpInv, NEW q \in Requests, Joining!resolveUser(q)
    PROVE  SignUpInv'
<1>1. UNCHANGED <<account, pending, codes, link, signedIn, signUpStops>>
  BY DEF Joining!resolveUser, Joining!rows
<1>2. signUpStops' \in 0..MaxStops /\ signedIn' \subseteq Joining!Identifiers
                                      /\ link' \in [Google -> Emails \cup {None}]
  BY <1>1 DEF SignUpInv, Joining!TypeOK
<1>3. PICK step \in {"linking", "making"} : Joining!Proceed(q, step) /\ Joining!At(q, "resolving")
  BY DEF Joining!resolveUser
<1>4. PICK c \in Joining!Context : signUpRequest' = [signUpRequest EXCEPT ![q] = c] /\ ContextOK(c)
  BY <1>3, Proceeding DEF Joining!At
<1> QED BY <1>1, <1>2, <1>4, SignUpQuietStep

LEMMA CreatesWithoutPassword ==
    ASSUME SignUpAssumptions, SignUpInv, NEW q \in Requests, Joining!CreateUserWithoutPassword(q)
    PROVE  SignUpInv'
<1>1. PICK r \in Joining!Context : signUpRequest[q] = r /\ r # None /\ r.at = "making" /\ ContextOK(r)
  BY Ongoing DEF Joining!CreateUserWithoutPassword
<1>2. UNCHANGED <<pending, codes, link, signedIn, signUpStops>> /\ CodesGrown /\ CodeType'
  BY NoneGenerated DEF Joining!CreateUserWithoutPassword
<1>3. signUpStops' \in 0..MaxStops /\ signedIn' \subseteq Joining!Identifiers
                                      /\ link' \in [Google -> Emails \cup {None}]
      /\ pending' \in [Joining!Identifiers -> Joining!PendingRow \cup {None}]
  BY <1>2 DEF SignUpInv, Joining!TypeOK
<1>4. CASE Joining!CreateUser(r.identifier, None, 0) /\ Joining!Proceed(q, "linking")
  <2>1. PICK x \in Joining!Identifiers : x = r.identifier
    BY DEF Joining!Context
  <2>2. 0 \in 0..MaxCodes
    BY DEF SignUpAssumptions, Joining!BoundsAssumption
  <2>3. /\ account' \in [Joining!Identifiers -> Joining!UserRow \cup {None}]
        /\ \A y \in Joining!Identifiers : account'[y] = account[y] \/ account'[y].code = 0
    BY <1>4, <2>1, <2>2, MakesAccount
  <2>4. PICK c \in Joining!Context : signUpRequest' = [signUpRequest EXCEPT ![q] = c] /\ (ContextOK(c))'
    BY <1>1, <1>4, Proceeding DEF Joining!At
  <2>5. \A y \in Joining!Identifiers : pending'[y] # None =>
            pending[y] # None /\ pending'[y].code = pending[y].code
                                 /\ pending'[y].password = pending[y].password
    BY <1>2
  <2> QED BY <1>2, <1>3, <2>3, <2>4, <2>5, StepOf
<1>5. CASE Joining!Answer(q) /\ UNCHANGED account
  BY <1>2, <1>3, <1>5, SignUpQuietStep DEF Joining!Answer
<1> QED BY <1>1, <1>4, <1>5 DEF Joining!CreateUserWithoutPassword

LEMMA Links ==
    ASSUME SignUpAssumptions, SignUpInv, NEW q \in Requests, Joining!linkIdentity(q)
    PROVE  SignUpInv'
<1>1. PICK r \in Joining!Context : signUpRequest[q] = r /\ r # None /\ r.at = "linking" /\ ContextOK(r)
  BY Ongoing DEF Joining!linkIdentity
<1>2. UNCHANGED <<account, pending, codes, signedIn, signUpStops>> /\ Joining!Proceed(q, "signing")
  BY DEF Joining!linkIdentity
<1>3. r.google \in Google /\ r.identifier \in Emails
  BY <1>1 DEF ContextOK
<1>4. signUpStops' \in 0..MaxStops /\ signedIn' \subseteq Joining!Identifiers
                                      /\ link' \in [Google -> Emails \cup {None}]
  BY <1>1, <1>2, <1>3 DEF SignUpInv, Joining!TypeOK, Joining!linkIdentity, Joining!CreateUserIdentity
<1>5. PICK c \in Joining!Context : signUpRequest' = [signUpRequest EXCEPT ![q] = c] /\ ContextOK(c)
  BY <1>1, <1>2, Proceeding
<1> QED BY <1>2, <1>4, <1>5, SignUpQuietStep

LEMMA Stops ==
    ASSUME SignUpAssumptions, SignUpInv, NEW q \in Requests, Joining!Stop(q)
    PROVE  SignUpInv'
<1>1. UNCHANGED <<account, pending, codes, link,
       signedIn>> /\ signUpRequest' = [signUpRequest EXCEPT ![q] = None]
  BY DEF Joining!Stop, Joining!Answer, Joining!rows
<1>2. signUpStops' \in 0..MaxStops
  BY DEF Joining!Stop, SignUpInv, Joining!TypeOK, SignUpAssumptions, Joining!BoundsAssumption
<1>3. signedIn' \subseteq Joining!Identifiers /\ link' \in [Google -> Emails \cup {None}]
  BY <1>1 DEF SignUpInv, Joining!TypeOK
<1> QED BY <1>1, <1>2, <1>3, SignUpQuietStep

LEMMA SignUpInit == ASSUME SignUpAssumptions, Joining!Init PROVE SignUpInv
<1>1. Joining!TypeOK
  BY DEF Joining!Init, Joining!TypeOK, SignUpAssumptions, Joining!BoundsAssumption
<1>2. RequestInv /\ PendingInv /\ AccountInv
  BY DEF Joining!Init, RequestInv, PendingInv, AccountInv
<1> QED BY <1>1, <1>2 DEF SignUpInv

LEMMA SignUpStep == ASSUME SignUpAssumptions, SignUpInv, [Joining!Next]_Joining!vars PROVE SignUpInv'
<1>1. CASE UNCHANGED Joining!vars
  BY <1>1 DEF Joining!vars, SignUpInv, Joining!TypeOK, RequestInv, PendingInv, AccountInv, ContextOK,
     GivenWith
<1>2. CASE Joining!Next
  BY <1>2, Starts, Stores, Verifies, ComparesWrong, CountsWrong, Creates, SignsIn, Cleans, SignUpExpires,
     StartsWithGoogle, Resolves, CreatesWithoutPassword, Links, Stops DEF Joining!Next
<1> QED BY <1>1, <1>2

\* Every account, pending sign-up and request is as some request left it.
THEOREM SignUpInvariant == ASSUME SignUpAssumptions PROVE Joining!Spec => []SignUpInv
<1>1. Joining!Init => SignUpInv
  BY SignUpInit
<1>2. SignUpInv /\ [Joining!Next]_Joining!vars => SignUpInv'
  BY SignUpStep
<1> QED BY <1>1, <1>2, PTL DEF Joining!Spec

-----------------------------------------------------------------------------
(* Wrong codes.                                                            *)

Counting(i) == {q \in Requests : Joining!At(q, "counting") /\ signUpRequest[q].id = i}

\* What has been compared is in the row, or in a request that counts, or was cut off.
CountedFor(x, i) == pending[x].wrong <= pending[x].attempts + signUpStops + Cardinality(Counting(i))
CountingInv ==
    /\ \A i \in 0..MaxCodes : IsFiniteSet(Counting(i))
    /\ \A x \in Joining!Identifiers,
       i \in 0..MaxCodes : pending[x] # None /\ pending[x].id = i => CountedFor(x, i)

\* A request that does not count, before or after.
LEMMA CountingStays ==
    ASSUME Joining!TypeOK, NEW q \in Requests, ~Joining!At(q, "counting"), NEW c,
           signUpRequest' = [signUpRequest EXCEPT ![q] = c], c = None \/ c.at # "counting"
    PROVE  \A i \in 0..MaxCodes : Counting(i)' = Counting(i)
<1>1. signUpRequest'[q] = c /\ \A r \in Requests \ {q} : signUpRequest'[r] = signUpRequest[r]
  BY DEF Joining!TypeOK
<1> QED BY <1>1 DEF Counting, Joining!At

LEMMA CountingEnds ==
    ASSUME Joining!TypeOK, NEW q \in Requests, Joining!Answer(q)
    PROVE  \A i \in 0..MaxCodes : Counting(i)' = Counting(i) \ {q}
<1>1. signUpRequest'[q] = None /\ \A r \in Requests \ {q} : signUpRequest'[r] = signUpRequest[r]
  BY DEF Joining!TypeOK, Joining!Answer
<1> QED BY <1>1 DEF Counting, Joining!At

LEMMA CountingBegins ==
    ASSUME Joining!TypeOK, SignUpAssumptions, NEW q \in Requests, NEW c \in Joining!Context,
           c.at = "counting", Joining!Begin(q, c)
    PROVE  /\ q \notin Counting(c.id)
           /\ \A i \in 0..MaxCodes : Counting(i)' = IF i = c.id THEN Counting(i) \cup {q} ELSE Counting(i)
<1>1. signUpRequest'[q] = c /\ c # None /\ signUpRequest[q] = None
                                           /\ \A r \in Requests \ {q} : signUpRequest'[r] = signUpRequest[r]
  BY DEF Joining!TypeOK, Joining!Begin, SignUpAssumptions, Joining!NoneAssumption
<1> QED BY <1>1 DEF Counting, Joining!At

\* A row that stays has its counters, and a new one has counted nothing.
LEMMA CountersStay ==
    ASSUME SignUpInv, SignUpInv', CountingInv, SignUpAssumptions,
           \A i \in 0..MaxCodes : Counting(i)' = Counting(i), signUpStops' = signUpStops,
           \A x \in Joining!Identifiers : pending'[x] # None =>
              \/ /\ pending[x] # None /\ pending'[x].id = pending[x].id
                 /\ pending'[x].wrong = pending[x].wrong /\ pending'[x].attempts = pending[x].attempts
              \/ pending'[x].wrong = 0 /\ pending'[x].attempts = 0
    PROVE  CountingInv'
<1>1. \A i \in 0..MaxCodes : IsFiniteSet(Counting(i)') /\ Cardinality(Counting(i)) \in Nat
  BY FS_CardinalityType DEF CountingInv
<1>2. ASSUME NEW x \in Joining!Identifiers, NEW i \in 0..MaxCodes, pending'[x] # None, pending'[x].id = i
      PROVE  CountedFor(x, i)'
  <2>1. CASE /\ pending[x] # None /\ pending'[x].id = pending[x].id
             /\ pending'[x].wrong = pending[x].wrong /\ pending'[x].attempts = pending[x].attempts
    BY <1>2, <2>1 DEF CountingInv, CountedFor
  <2>2. CASE pending'[x].wrong = 0 /\ pending'[x].attempts = 0
    <3>1. signUpStops \in Nat
      BY DEF SignUpInv, Joining!TypeOK, SignUpAssumptions, Joining!BoundsAssumption
    <3> QED BY <1>1, <2>2, <3>1 DEF CountedFor
  <2> QED BY <1>2, <2>1, <2>2
<1> QED BY <1>1, <1>2 DEF CountingInv

\* Steps of a request that compares no wrong code, and counts none.
LEMMA Uncounted ==
    ASSUME SignUpAssumptions, SignUpInv, SignUpInv', CountingInv, NEW q \in Requests,
           \/ \E x \in Joining!Identifiers, p \in Passwords : Joining!signupStart(q, x, p)
           \/ \E x \in Joining!Identifiers : Joining!signupVerify(q, x)
           \/ \E g \in Google : Joining!googleSignIn(q, g)
           \/ Joining!Start(q) \/ Joining!Verify(q) \/ Joining!CreateSession(q) \/ Joining!DeleteVerified(q)
           \/ Joining!resolveUser(q) \/ Joining!CreateUserWithoutPassword(q) \/ Joining!linkIdentity(q)
    PROVE  CountingInv'
<1>1. Joining!TypeOK /\ (signUpRequest[q] # None => signUpRequest[q] \in Joining!Context)
  BY DEF SignUpInv, Joining!TypeOK
<1>2. ~Joining!At(q, "counting") /\ signUpStops' = signUpStops
  <2>1. CASE \/ \E x \in Joining!Identifiers, p \in Passwords : Joining!signupStart(q, x, p)
             \/ \E x \in Joining!Identifiers : Joining!signupVerify(q, x)
             \/ \E g \in Google : Joining!googleSignIn(q, g)
    BY <2>1 DEF Joining!signupStart, Joining!signupVerify, Joining!googleSignIn, Joining!Begin, Joining!At
  <2>2. CASE Joining!Start(q) \/ Joining!Verify(q) \/ Joining!CreateSession(q) \/ Joining!DeleteVerified(q)
             \/ Joining!resolveUser(q) \/ Joining!CreateUserWithoutPassword(q) \/ Joining!linkIdentity(q)
    BY <2>2 DEF Joining!Start, Joining!Verify, Joining!CreateSession, Joining!DeleteVerified,
       Joining!resolveUser, Joining!CreateUserWithoutPassword, Joining!linkIdentity, Joining!At
  <2> QED BY <2>1, <2>2
<1>3. \E c : signUpRequest' = [signUpRequest EXCEPT ![q] = c] /\ (c = None \/ c.at # "counting")
  <2> DEFINE Goal == \E c : signUpRequest' = [signUpRequest EXCEPT ![q] = c] /\ (c = None
                                                                                \/ c.at # "counting")
  <2>1. ASSUME Joining!Answer(q) PROVE Goal
    BY <2>1 DEF Joining!Answer
  <2>2. ASSUME NEW step, step # "counting", signUpRequest[q] # None, Joining!Proceed(q, step) PROVE Goal
    <3>1. [signUpRequest[q] EXCEPT !.at = step].at = step
      BY <1>1, <2>2 DEF Joining!Context
    <3>2. signUpRequest' = [signUpRequest EXCEPT ![q] = [signUpRequest[q] EXCEPT !.at = step]]
      BY <1>1, <2>2 DEF Joining!Proceed, Joining!TypeOK
    <3> QED BY <2>2, <3>1, <3>2
  <2> HIDE DEF Goal
  <2>3. ASSUME NEW x \in Joining!Identifiers, NEW p \in Passwords, Joining!signupStart(q, x, p) PROVE Goal
    <3>1. Joining!Begin(q, [Joining!For(x) EXCEPT !.password = p])
           /\ [Joining!For(x) EXCEPT !.password = p].at = "storing"
      BY <2>3 DEF Joining!signupStart, Joining!For
    <3> QED BY <3>1 DEF Joining!Begin, Goal
  <2>4. ASSUME NEW x \in Joining!Identifiers, Joining!signupVerify(q, x) PROVE Goal
    <3> DEFINE c == [Joining!For(x) EXCEPT !.at = "creating", !.id = pending[x].id, !.code = pending[x].code,
                                           !.password = pending[x].password]
    <3>1. Joining!Begin(q, c) /\ c.at = "creating"
      BY <2>4 DEF Joining!signupVerify, Joining!For
    <3> QED BY <3>1 DEF Joining!Begin, Goal
  <2>5. ASSUME NEW g \in Google, Joining!googleSignIn(q, g) PROVE Goal
    <3>1. PICK x \in Emails, step \in {"signing", "resolving"} : Joining!Begin(q,
           [Joining!For(x) EXCEPT !.at = step, !.google = g])
      <4>1. CASE Joining!lookupLinkedUserID(g) # None
        BY <1>1, <2>5, <4>1 DEF Joining!googleSignIn, Joining!lookupLinkedUserID, Joining!TypeOK
      <4>2. CASE Joining!lookupLinkedUserID(g) = None
        BY <2>5, <4>2 DEF Joining!googleSignIn, SignUpAssumptions, Joining!GoogleAssumption
      <4> QED BY <4>1, <4>2
    <3>2. [Joining!For(x) EXCEPT !.at = step, !.google = g].at = step
      BY DEF Joining!For
    <3> QED BY <3>1, <3>2 DEF Joining!Begin, Goal
  <2>6. ASSUME Joining!Start(q) \/ Joining!DeleteVerified(q) PROVE Goal
    BY <2>1, <2>6 DEF Joining!Start, Joining!DeleteVerified
  <2>7. ASSUME Joining!Verify(q) \/ Joining!CreateSession(q) PROVE Goal
    BY <2>1, <2>2, <2>7 DEF Joining!Verify, Joining!CreateSession, Joining!At
  <2>8. ASSUME Joining!resolveUser(q) PROVE Goal
    <3>1. PICK step \in {"linking", "making"} : Joining!Proceed(q, step)
      BY <2>8 DEF Joining!resolveUser
    <3> QED BY <2>2, <2>8, <3>1 DEF Joining!resolveUser, Joining!At
  <2>9. ASSUME Joining!CreateUserWithoutPassword(q) \/ Joining!linkIdentity(q) PROVE Goal
    BY <2>1, <2>2, <2>9 DEF Joining!CreateUserWithoutPassword, Joining!linkIdentity, Joining!At
  <2>10. Goal
    BY <2>3, <2>4, <2>5, <2>6, <2>7, <2>8, <2>9
  <2> QED BY <2>10 DEF Goal
<1>4. \A i \in 0..MaxCodes : Counting(i)' = Counting(i)
  BY <1>1, <1>2, <1>3, CountingStays
<1>5. \A x \in Joining!Identifiers : pending'[x] # None =>
         \/ /\ pending[x] # None /\ pending'[x].id = pending[x].id
            /\ pending'[x].wrong = pending[x].wrong /\ pending'[x].attempts = pending[x].attempts
         \/ pending'[x].wrong = 0 /\ pending'[x].attempts = 0
  <2>1. CASE Joining!Start(q)
    <3>1. PICK r \in Joining!Context : signUpRequest[q] = r /\ r.at = "storing"
      BY <2>1, Ongoing DEF Joining!Start
    <3>2. PICK row : pending' = [pending EXCEPT ![r.identifier] = row] /\ row.wrong = 0 /\ row.attempts = 0
      BY <2>1, <3>1 DEF Joining!Start, Joining!UpsertSignupVerificationByEmail,
         Joining!UpsertSignupVerificationByPhone, Joining!Upsert
    <3> QED BY <1>1, <3>1, <3>2 DEF Joining!TypeOK, Joining!Context
  <2>2. CASE Joining!DeleteVerified(q)
    BY <2>2, RowsGo
  <2>3. CASE pending' = pending
    BY <2>3
  <2>4. Joining!Start(q) \/ Joining!DeleteVerified(q) \/ pending' = pending
    BY DEF Joining!signupStart, Joining!signupVerify, Joining!googleSignIn, Joining!Verify,
       Joining!CreateSession, Joining!resolveUser, Joining!CreateUserWithoutPassword,
       Joining!linkIdentity, Joining!rows
  <2> QED BY <2>1, <2>2, <2>3, <2>4
<1> QED BY <1>2, <1>4, <1>5, CountersStay

LEMMA ComparedCounts ==
    ASSUME SignUpAssumptions, SignUpInv, SignUpInv', CountingInv, NEW q \in Requests,
           NEW x \in Joining!Identifiers, Joining!VerifyWrong(q, x)
    PROVE  CountingInv'
<1>1. signUpStops' = signUpStops /\ signUpStops \in Nat
  BY DEF Joining!VerifyWrong, SignUpInv, Joining!TypeOK, SignUpAssumptions, Joining!BoundsAssumption
<1>2. PICK c \in Joining!Context : c.at = "counting" /\ c.id = pending[x].id /\ Joining!Begin(q, c)
  BY Compared
<1>3. /\ pending[x] # None /\ pending[x].wrong \in Nat /\ pending'[x].id = pending[x].id
      /\ pending'[x].attempts = pending[x].attempts /\ pending'[x].wrong = pending[x].wrong + 1
      /\ \A y \in Joining!Identifiers \ {x} : pending'[y] = pending[y]
  BY Compared
<1>4. q \notin Counting(c.id) /\ c.id \in 0..MaxCodes
      /\ \A i \in 0..MaxCodes : Counting(i)' = IF i = c.id THEN Counting(i) \cup {q} ELSE Counting(i)
  <2>1. Joining!TypeOK
    BY DEF SignUpInv
  <2>2. c.id \in 0..MaxCodes
    BY DEF Joining!Context
  <2> QED BY <1>2, <2>1, <2>2, CountingBegins
<1>5. \A i \in 0..MaxCodes : /\ IsFiniteSet(Counting(i)') /\ Cardinality(Counting(i)) \in Nat
                             /\ Cardinality(Counting(i)') = IF i = c.id THEN Cardinality(Counting(i)) + 1
                                                            ELSE Cardinality(Counting(i))
  BY <1>4, FS_AddElement, FS_CardinalityType DEF CountingInv
<1>6. ASSUME NEW y \in Joining!Identifiers, NEW i \in 0..MaxCodes, pending'[y] # None, pending'[y].id = i
      PROVE  CountedFor(y, i)'
  <2>1. CASE y = x
    <3>1. CountedFor(x, i) /\ i = c.id /\ pending[x].attempts \in Nat
      BY <1>2, <1>3, <1>6, <2>1 DEF CountingInv, SignUpInv, Joining!TypeOK, Joining!PendingRow
    <3> QED BY <1>1, <1>3, <1>5, <2>1, <3>1 DEF CountedFor
  <2>2. CASE y # x
    <3>1. pending'[y] = pending[y] /\ CountedFor(y,
                                      i) /\ pending[y].attempts \in Nat /\ pending[y].wrong \in Nat
      BY <1>3, <1>6, <2>2 DEF CountingInv, SignUpInv, Joining!TypeOK, Joining!PendingRow
    <3> QED BY <1>1, <1>5, <3>1 DEF CountedFor
  <2> QED BY <2>1, <2>2
<1> QED BY <1>5, <1>6 DEF CountingInv

\* The row counts what the request no longer does.
LEMMA WrongCodeCounted ==
    ASSUME SignUpAssumptions, SignUpInv, SignUpInv', CountingInv, NEW q \in Requests,
           Joining!CountWrongCode(q)
    PROVE  CountingInv'
<1>1. signUpStops' = signUpStops /\ signUpStops \in Nat /\ Joining!Answer(q) /\ Joining!At(q, "counting")
  BY DEF Joining!CountWrongCode, SignUpInv, Joining!TypeOK, SignUpAssumptions, Joining!BoundsAssumption
<1>2. PICK id \in 0..MaxCodes : id = signUpRequest[q].id
  BY CountedWrong DEF Joining!Context
<1>3. \A i \in 0..MaxCodes : Counting(i)' = Counting(i) \ {q} /\ (q \in Counting(i) <=> i = id)
  BY <1>1, <1>2, CountingEnds DEF Counting, SignUpInv
<1>4. \A i \in 0..MaxCodes : /\ IsFiniteSet(Counting(i)') /\ Cardinality(Counting(i)) \in Nat
                             /\ Cardinality(Counting(i)') = IF i = id THEN Cardinality(Counting(i)) - 1
                                                            ELSE Cardinality(Counting(i))
  BY <1>3, FS_RemoveElement, FS_CardinalityType DEF CountingInv
<1>5. ASSUME NEW x \in Joining!Identifiers, NEW i \in 0..MaxCodes, pending'[x] # None, pending'[x].id = i
      PROVE  CountedFor(x, i)'
  <2>1. /\ pending[x] # None /\ pending'[x].id = pending[x].id
        /\ pending'[x].wrong = pending[x].wrong /\ pending[x].wrong \in Nat /\ pending[x].attempts \in Nat
        /\ pending'[x].attempts = IF pending[x].id = id THEN pending[x].attempts + 1 ELSE pending[x].attempts
    BY <1>2, <1>5, CountedWrong
  <2>2. CountedFor(x, i)
    BY <1>5, <2>1 DEF CountingInv
  <2> QED BY <1>1, <1>4, <1>5, <2>1, <2>2 DEF CountedFor
<1> QED BY <1>4, <1>5 DEF CountingInv

\* A request that is cut off may have been about to count.
LEMMA StoppedCounted ==
    ASSUME SignUpAssumptions, SignUpInv, SignUpInv', CountingInv, NEW q \in Requests, Joining!Stop(q)
    PROVE  CountingInv'
<1>1. signUpStops' = signUpStops + 1 /\ signUpStops \in Nat /\ Joining!Answer(q) /\ pending' = pending
  BY DEF Joining!Stop, Joining!rows, SignUpInv, Joining!TypeOK, SignUpAssumptions, Joining!BoundsAssumption
<1>2. \A i \in 0..MaxCodes : Counting(i)' = Counting(i) \ {q}
  BY <1>1, CountingEnds DEF SignUpInv
<1>3. \A i \in 0..MaxCodes : /\ IsFiniteSet(Counting(i)') /\ Cardinality(Counting(i)) \in Nat
                             /\ Cardinality(Counting(i)') \in Nat
                             /\ Cardinality(Counting(i)') >= Cardinality(Counting(i)) - 1
  <2> SUFFICES ASSUME NEW i \in 0..MaxCodes
               PROVE  /\ IsFiniteSet(Counting(i) \ {q}) /\ Cardinality(Counting(i)) \in Nat
                      /\ Cardinality(Counting(i) \ {q}) \in Nat
                      /\ Cardinality(Counting(i) \ {q}) >= Cardinality(Counting(i)) - 1
    BY <1>2
  <2>1. IsFiniteSet(Counting(i))
    BY DEF CountingInv
  <2>2. IsFiniteSet(Counting(i) \ {q})
        /\ Cardinality(Counting(i) \ {q}) = IF q \in Counting(i) THEN Cardinality(Counting(i)) - 1
                                            ELSE Cardinality(Counting(i))
    BY <2>1, FS_RemoveElement
  <2>3. Cardinality(Counting(i)) \in Nat /\ Cardinality(Counting(i) \ {q}) \in Nat
    BY <2>1, <2>2, FS_CardinalityType
  <2> QED BY <2>2, <2>3
<1>4. ASSUME NEW x \in Joining!Identifiers, NEW i \in 0..MaxCodes, pending[x] # None, pending[x].id = i
      PROVE  CountedFor(x, i)'
  <2>1. CountedFor(x, i) /\ pending[x].wrong \in Nat /\ pending[x].attempts \in Nat
    BY <1>4 DEF CountingInv, SignUpInv, Joining!TypeOK, Joining!PendingRow
  <2> QED BY <1>1, <1>3, <2>1 DEF CountedFor
<1> QED BY <1>1, <1>3, <1>4 DEF CountingInv

LEMMA ExpiredCounted ==
    ASSUME SignUpAssumptions, SignUpInv, SignUpInv', CountingInv, NEW x \in Joining!Identifiers,
           Joining!Expire(x)
    PROVE  CountingInv'
<1>1. signUpStops' = signUpStops /\ \A i \in 0..MaxCodes : Counting(i)' = Counting(i)
  BY DEF Joining!Expire, Counting, Joining!At
<1> QED BY <1>1, RowExpires, CountersStay

LEMMA CountingStep == ASSUME SignUpAssumptions, SignUpInv, SignUpInv', CountingInv, [Joining!Next]_Joining!vars
                      PROVE  CountingInv'
<1>1. CASE UNCHANGED Joining!vars
  <2>1. signUpStops' = signUpStops /\ pending' = pending /\ \A i \in 0..MaxCodes : Counting(i)' = Counting(i)
    BY <1>1 DEF Joining!vars, Counting, Joining!At
  <2> QED BY <2>1, CountersStay
<1>2. CASE Joining!Next
  BY <1>2, Uncounted, ComparedCounts, WrongCodeCounted, StoppedCounted, ExpiredCounted DEF Joining!Next
<1> QED BY <1>1, <1>2

LEMMA InitCounting == ASSUME SignUpAssumptions, Joining!Init PROVE CountingInv
<1>1. \A i \in 0..MaxCodes : Counting(i) = {}
  BY DEF Joining!Init, Counting, Joining!At
<1> QED BY <1>1, FS_EmptySet DEF Joining!Init, CountingInv

LEMMA SameCardinality == ASSUME NEW S PROVE Joining!Cardinality(S) = Cardinality(S)
BY Zenon DEF Joining!Cardinality, Cardinality

LEMMA Counted == ASSUME SignUpInv, CountingInv, SignUpAssumptions PROVE Joining!WrongCodesCounted
<1> SUFFICES ASSUME NEW x \in Joining!Identifiers, pending[x] # None
             PROVE  pending[x].wrong <= pending[x].attempts + signUpStops + Cardinality(Counting(pending[x].id))
  BY SameCardinality DEF Joining!WrongCodesCounted, Counting
<1>1. PICK i \in 0..MaxCodes : i = pending[x].id
  BY DEF SignUpInv, Joining!TypeOK, Joining!PendingRow, SignUpAssumptions, Joining!BoundsAssumption
<1>2. CountedFor(x, i)
  BY <1>1 DEF CountingInv
<1> QED BY <1>1, <1>2 DEF CountedFor

\* IncrementSignupVerificationAttempts: every wrong code is counted once, by the
\* row or by the request that compared it, except those that were cut off.
THEOREM WrongSignUpCodesAreCounted == ASSUME SignUpAssumptions
                                      PROVE  Joining!Spec => []Joining!WrongCodesCounted
<1>1. Joining!Init => CountingInv
  BY InitCounting
<1>2. SignUpInv /\ SignUpInv' /\ CountingInv /\ [Joining!Next]_Joining!vars => CountingInv'
  BY CountingStep
<1>3. SignUpInv /\ CountingInv => Joining!WrongCodesCounted
  BY Counted
<1> QED BY <1>1, <1>2, <1>3, SignUpInvariant, PTL DEF Joining!Spec

LEMMA AccountsStay == ASSUME SignUpAssumptions, SignUpInv, [Joining!Next]_Joining!vars
                      PROVE  [Joining!VerifiedOnce]_Joining!vars
<1> SUFFICES ASSUME Joining!Next, NEW x \in Joining!Identifiers, account[x] # None
             PROVE  account'[x] = account[x]
  BY DEF Joining!VerifiedOnce
<1>1. ASSUME NEW q \in Requests, Joining!Verify(q) \/ Joining!CreateUserWithoutPassword(q)
      PROVE  account'[x] = account[x]
  <2>1. account' = account \/ \E y \in Joining!Identifiers : \E p, n : Joining!CreateUser(y, p, n)
    <3>1. signUpRequest[q].identifier \in Joining!Identifiers
      BY <1>1 DEF Joining!Verify, Joining!CreateUserWithoutPassword, Joining!At, SignUpInv, Joining!TypeOK,
         Joining!Context
    <3> QED BY <1>1, <3>1 DEF Joining!Verify, Joining!CreateUserWithoutPassword
  <2> QED BY <2>1 DEF Joining!CreateUser, Joining!IsRegistered, SignUpInv, Joining!TypeOK
<1>2. \/ account' = account
      \/ \E q \in Requests : Joining!Verify(q) \/ Joining!CreateUserWithoutPassword(q)
  BY DEF Joining!Next, Joining!Expire, Joining!signupStart, Joining!VerifyWrong, Joining!signupVerify,
     Joining!googleSignIn, Joining!Start, Joining!CountWrongCode, Joining!CreateSession,
     Joining!DeleteVerified, Joining!resolveUser, Joining!linkIdentity, Joining!Stop, Joining!rows
<1> QED BY <1>1, <1>2

\* CreateUser only inserts: what was verified once is verified once.
THEOREM AccountsStayAsTheyAre == ASSUME SignUpAssumptions PROVE Joining!Spec => [][Joining!VerifiedOnce]_Joining!vars
<1>1. SignUpInv /\ [Joining!Next]_Joining!vars => [Joining!VerifiedOnce]_Joining!vars
  BY AccountsStay
<1> QED BY <1>1, SignUpInvariant, PTL DEF Joining!Spec

(***************************************************************************)
(* Platform administration: the audit log tells the state, only superadmins *)
(* write, nothing is shown unrecorded, and revoking an account ends its     *)
(* sessions.                                                                *)
(***************************************************************************)
PlatformAssumptions == Office!SuperadminsAssumption /\ Office!BoundsAssumption /\ Office!NoneAssumption
                       /\ Office!NamesAssumption

Writes == {"business.suspended", "business.reactivated", "staff.created", "staff.revoked"}

Viewed(s, b) == \E row \in audit : /\ row.actor = s /\ row.target = b
                                   /\ row.action = "business.activity_viewed"

\* What a request goes by: a session that there is, a transaction that began
\* before now and may do what it does, a view that is in the log.
Sound(c) ==
    /\ c.at = "authorised" => platformSession[c.session] # None
    /\ c.at = "begun" => /\ c.now <= clock
                         /\ c.action \in Writes => c.staff \in Superadmins
                         /\ \A x \in c.had : platformSession[x] # None /\ platformSession[x].staff = c.target
    /\ c.at = "recorded" => Viewed(c.staff, c.business)

RequestsInv == \A q \in Requests : platformRequest[q] # None => Sound(platformRequest[q])

InTime == \A row \in audit : row.at <= clock

PlatformInv == /\ Office!TypeOK /\ RequestsInv /\ InTime
               /\ Office!AuditTellsState /\ Office!OnlySuperadminsWrite /\ Office!NothingShownUnrecorded

LEMMA PlatformInit == ASSUME PlatformAssumptions, Office!Init PROVE PlatformInv
<1>1. Office!TypeOK
  BY DEF PlatformAssumptions, Office!BoundsAssumption, Office!Init, Office!TypeOK
<1>2. RequestsInv /\ InTime /\ Office!NothingShownUnrecorded /\ Office!OnlySuperadminsWrite
  BY DEF Office!Init, RequestsInv, InTime, Office!NothingShownUnrecorded, Office!OnlySuperadminsWrite
<1>3. Office!AuditTellsState
  BY DEF Office!Init, Office!AuditTellsState, Office!About
<1> QED BY <1>1, <1>2, <1>3 DEF PlatformInv

(***************************************************************************)
(* Requests: what one goes by stays, since sessions, clock and log grow.   *)
(***************************************************************************)
SessionsKept == \A x \in Sessions : platformSession[x] # None =>
                    platformSession'[x] # None /\ platformSession'[x].staff = platformSession[x].staff

Grown == SessionsKept /\ clock <= clock' /\ audit \subseteq audit'

LEMMA ContextIs ==
    ASSUME NEW c \in Office!Context
    PROVE  /\ c.at \in {"login", "signedIn", "authorised", "begun", "recorded"} /\ c.staff \in Staff
           /\ c.at = "authorised" => c.session \in Sessions
           /\ c.at = "begun" => /\ c.now \in 1..MaxAudit /\ c.had \in SUBSET Sessions
                                /\ c.action \in {"login"} \cup Office!BusinessActions \cup Office!StaffActions
                                /\ c.action = "login" => c.target = None
                                /\ c.action \in Office!BusinessActions => c.target \in Bars
                                /\ c.action \in Office!StaffActions => c.target \in Staff
           /\ c.at = "recorded" => c.business \in Bars
BY DEF Office!Context, Office!Begun, Office!BusinessActions, Office!StaffActions

LEMMA SoundStays ==
    ASSUME PlatformInv, PlatformAssumptions, Grown, clock' \in Nat, NEW c \in Office!Context, Sound(c)
    PROVE  Sound(c)'
<1>1. clock \in Nat
  BY DEF PlatformInv, Office!TypeOK, PlatformAssumptions, Office!BoundsAssumption
<1>2. c.at = "authorised" => platformSession'[c.session] # None
  BY ContextIs DEF Sound, Grown, SessionsKept
<1>3. c.at = "begun" => /\ c.now <= clock'
                        /\ c.action \in Writes => c.staff \in Superadmins
                        /\ \A x \in c.had : platformSession'[x] # None /\ platformSession'[x].staff = c.target
  BY <1>1, ContextIs DEF Sound, Grown, SessionsKept
<1>4. c.at = "recorded" => Viewed(c.staff, c.business)'
  BY DEF Sound, Grown, Viewed
<1> QED BY <1>2, <1>3, <1>4 DEF Sound

LEMMA OneRequest ==
    ASSUME PlatformInv, PlatformAssumptions, Grown, clock' \in Nat,
           NEW q \in Requests, NEW c \in Office!Context \cup {None},
           platformRequest' = [platformRequest EXCEPT ![q] = c], c = None \/ Sound(c)'
    PROVE  RequestsInv' /\ platformRequest' \in [Requests -> Office!Context \cup {None}]
<1>1. platformRequest \in [Requests -> Office!Context \cup {None}]
  BY DEF PlatformInv, Office!TypeOK
<1>2. ASSUME NEW r \in Requests, platformRequest'[r] # None
      PROVE  Sound(platformRequest[r])'
  <2>1. CASE r = q
    <3>1. platformRequest'[r] = c
      BY <1>1, <2>1
    <3> QED BY <1>2, <3>1 DEF Sound, Viewed
  <2>2. CASE r # q
    <3>1. PICK d \in Office!Context : d = platformRequest[r] /\ d = platformRequest'[r] /\ Sound(d)
      BY <1>1, <1>2, <2>2 DEF PlatformInv, RequestsInv
    <3>2. Sound(d)'
      BY <3>1, SoundStays
    <3> QED BY <3>1, <3>2 DEF Sound, Viewed
  <2> QED BY <2>1, <2>2
<1> QED BY <1>1, <1>2 DEF RequestsInv

LEMMA NoRequest ==
    ASSUME PlatformInv, PlatformAssumptions, Grown, clock' \in Nat, UNCHANGED platformRequest
    PROVE  RequestsInv'
<1> SUFFICES ASSUME NEW r \in Requests, platformRequest'[r] # None PROVE Sound(platformRequest[r])'
  BY DEF RequestsInv
<1>1. PICK d \in Office!Context : d = platformRequest[r] /\ Sound(d)
  BY DEF PlatformInv, RequestsInv, Office!TypeOK
<1>2. Sound(d)'
  BY <1>1, SoundStays
<1> QED BY <1>1, <1>2 DEF Sound, Viewed

LEMMA SoundRequest ==
    ASSUME PlatformInv, NEW q \in Requests, platformRequest[q] # None
    PROVE  platformRequest[q] \in Office!Context /\ Sound(platformRequest[q])
BY DEF PlatformInv, Office!TypeOK, RequestsInv

(***************************************************************************)
(* The log.                                                                *)
(***************************************************************************)
LEMMA LogStays ==
    ASSUME PlatformInv, PlatformAssumptions, UNCHANGED <<audit, business>>, clock <= clock', clock' \in Nat,
           \A s \in Staff : platformStaff'[s] = "revoked" <=> platformStaff[s] = "revoked"
    PROVE  InTime' /\ Office!AuditTellsState' /\ Office!OnlySuperadminsWrite'
<1>1. InTime'
  <2>1. clock \in Nat /\ audit \subseteq Office!AuditRow
    BY DEF PlatformInv, Office!TypeOK, PlatformAssumptions, Office!BoundsAssumption
  <2> QED BY <2>1 DEF PlatformInv, InTime, Office!AuditRow
<1>2. Office!AuditTellsState' /\ Office!OnlySuperadminsWrite'
  BY DEF PlatformInv, Office!AuditTellsState, Office!About, Office!Last, Office!OnlySuperadminsWrite
<1> QED BY <1>1, <1>2

LEMMA ShownStays == ASSUME PlatformInv, Grown, UNCHANGED shown PROVE Office!NothingShownUnrecorded'
BY DEF PlatformInv, Office!NothingShownUnrecorded, Grown

\* The entry of a transaction that commits.
Entry(c) == [at |-> c.now, till |-> clock, actor |-> c.staff, action |-> c.action, target |-> c.target]

LEMMA Enters ==
    ASSUME PlatformInv, PlatformAssumptions, NEW q \in Requests, NEW actions, Office!UnderWay(q, actions),
           Office!Record(q)
    PROVE  \E c \in Office!Context :
              /\ c = platformRequest[q] /\ Sound(c) /\ c.at = "begun" /\ c.action \in actions
              /\ clock \in Nat /\ clock' = clock /\ audit' = audit \cup {Entry(c)} /\ Entry(c) \in Office!AuditRow
              /\ Entry(c).at <= clock
<1> DEFINE c == platformRequest[q]
<1>1. c \in Office!Context /\ Sound(c) /\ c.at = "begun" /\ c.action \in actions
  BY SoundRequest DEF Office!UnderWay, Office!At
<1>2. clock' = clock /\ audit' = audit \cup {Entry(c)}
  BY DEF Office!Record, Office!CreatePlatformAuditEntry, Entry
<1>3. c.now \in 1..MaxAudit /\ c.now <= clock /\ clock \in 0..MaxAudit /\ MaxAudit \in Nat
  BY <1>1, ContextIs DEF Sound, PlatformInv, Office!TypeOK, PlatformAssumptions, Office!BoundsAssumption
<1>4. clock \in 1..MaxAudit
  BY <1>3
<1>5. Entry(c) \in Office!AuditRow
  BY <1>1, <1>3, <1>4, ContextIs DEF Entry, Office!AuditRow, Office!BusinessActions, Office!StaffActions
<1>6. Entry(c).at <= clock
  BY <1>3 DEF Entry
<1> QED BY <1>1, <1>2, <1>3, <1>5, <1>6

\* Every entry of a commit is by who may write it, and is in time.
LEMMA EntryIsSound ==
    ASSUME PlatformInv, PlatformAssumptions, NEW c \in Office!Context, Sound(c), c.at = "begun",
           clock' = clock, audit' = audit \cup {Entry(c)}, Entry(c).at <= clock
    PROVE  InTime' /\ Office!OnlySuperadminsWrite'
<1>1. InTime'
  BY DEF PlatformInv, InTime
<1>2. c.action \notin {"login", "business.activity_viewed"} => c.staff \in Superadmins
  BY ContextIs DEF Sound, Writes, Office!BusinessActions, Office!StaffActions
<1>3. Office!OnlySuperadminsWrite'
  BY <1>2 DEF PlatformInv, Office!OnlySuperadminsWrite, Entry
<1> QED BY <1>1, <1>3

\* What an entry is about, and the status of what it is not about.
LEMMA AboutOthers ==
    ASSUME NEW row, audit' = audit \cup {row}, NEW x,
           row.target # x \/ row.action = "business.activity_viewed"
    PROVE  Office!About(x)' = Office!About(x)
BY DEF Office!About

LEMMA StatusStays ==
    ASSUME PlatformInv, NEW row, audit' = audit \cup {row}, NEW b \in Bars, business'[b] = business[b],
           row.target # b \/ row.action = "business.activity_viewed"
    PROVE  (\/ Office!About(b) = {} /\ business[b] = "active"
            \/ \E e \in Office!About(b) : Office!Last(e) /\ business[b] = Office!StatusAfter(e.action))'
<1>1. Office!About(b)' = Office!About(b)
  BY AboutOthers
<1>2. CASE Office!About(b) = {} /\ business[b] = "active"
  BY <1>1, <1>2
<1>3. CASE \E e \in Office!About(b) : Office!Last(e) /\ business[b] = Office!StatusAfter(e.action)
  <2>1. PICK e \in Office!About(b) : Office!Last(e) /\ business[b] = Office!StatusAfter(e.action)
    BY <1>3
  <2>2. e.target = b
    BY DEF Office!About
  <2>3. \A other \in Office!About(b) : other.at <= e.till
    BY <2>1, <2>2 DEF Office!Last
  <2>4. \A other \in Office!About(b)' : other.at <= e.till
    BY <1>1, <2>3
  <2>5. e \in Office!About(b)' /\ business'[b] = Office!StatusAfter(e.action)
    BY <1>1, <2>1
  <2> QED BY <2>2, <2>4, <2>5 DEF Office!Last, Office!StatusAfter
<1> QED BY <1>2, <1>3 DEF PlatformInv, Office!AuditTellsState

LEMMA RevokedStays ==
    ASSUME PlatformInv, NEW row, audit' = audit \cup {row}, NEW s \in Staff,
           platformStaff'[s] = "revoked" <=> platformStaff[s] = "revoked",
           row.target # s \/ row.action # "staff.revoked"
    PROVE  platformStaff'[s] = "revoked" <=> \E e \in Office!About(s)' : e.action = "staff.revoked"
BY DEF PlatformInv, Office!AuditTellsState, Office!About

\* A commit that changes no status and revokes nobody.
LEMMA OtherEntry ==
    ASSUME PlatformInv, PlatformAssumptions, NEW row, audit' = audit \cup {row}, UNCHANGED business,
           row.target \notin Bars \/ row.action = "business.activity_viewed", row.action # "staff.revoked",
           \A s \in Staff : platformStaff'[s] = "revoked" <=> platformStaff[s] = "revoked"
    PROVE  Office!AuditTellsState'
<1>1. \A b \in Bars : (\/ Office!About(b) = {} /\ business[b] = "active"
            \/ \E e \in Office!About(b) : Office!Last(e) /\ business[b] = Office!StatusAfter(e.action))'
  BY StatusStays
<1>2. \A s \in Staff : platformStaff'[s] = "revoked" <=> \E e \in Office!About(s)' : e.action = "staff.revoked"
  BY RevokedStays
<1> QED BY <1>1, <1>2 DEF Office!AuditTellsState

(***************************************************************************)
(* Steps.                                                                  *)
(***************************************************************************)

\* A step that writes no entry and changes no more than its request, sessions
\* and the clock.
LEMMA PlatformQuietStep ==
    ASSUME PlatformInv, PlatformAssumptions, NEW q \in Requests, NEW c \in Office!Context \cup {None},
           platformRequest' = [platformRequest EXCEPT ![q] = c], c = None \/ Sound(c)',
           platformSession' \in [Sessions -> Office!SessionRow \cup {None}], SessionsKept,
           clock <= clock', clock' \in 0..MaxAudit,
           UNCHANGED <<platformStaff, business, audit, shown>>
    PROVE  PlatformInv'
<1>1. Grown /\ clock' \in Nat
  BY DEF Grown, PlatformAssumptions, Office!BoundsAssumption
<1>2. RequestsInv' /\ platformRequest' \in [Requests -> Office!Context \cup {None}]
  BY <1>1, OneRequest
<1>3. Office!TypeOK'
  BY <1>2 DEF PlatformInv, Office!TypeOK
<1>4. InTime' /\ Office!AuditTellsState' /\ Office!OnlySuperadminsWrite'
  BY <1>1, LogStays
<1>5. Office!NothingShownUnrecorded'
  BY <1>1, ShownStays
<1> QED BY <1>2, <1>3, <1>4, <1>5 DEF PlatformInv

\* Nothing but the request, and what it goes by is there.
LEMMA RequestStep ==
    ASSUME PlatformInv, PlatformAssumptions, NEW q \in Requests, NEW c \in Office!Context \cup {None},
           platformRequest' = [platformRequest EXCEPT ![q] = c], c = None \/ Sound(c),
           UNCHANGED <<platformStaff, business, platformSession, audit, clock, shown>>
    PROVE  PlatformInv'
<1>1. platformSession' \in [Sessions -> Office!SessionRow \cup {None}] /\ SessionsKept
      /\ clock \in 0..MaxAudit /\ clock <= clock'
  BY DEF PlatformInv, Office!TypeOK, SessionsKept, PlatformAssumptions, Office!BoundsAssumption
<1>2. c = None \/ Sound(c)'
  BY DEF Sound, Viewed
<1> QED BY <1>1, <1>2, PlatformQuietStep

\* One session's row is replaced by another of the same account.
LEMMA SessionStep ==
    ASSUME PlatformInv, PlatformAssumptions, NEW x \in Sessions, NEW row \in Office!SessionRow,
           platformSession[x] # None => row.staff = platformSession[x].staff,
           platformSession' = [platformSession EXCEPT ![x] = row]
    PROVE  platformSession' \in [Sessions -> Office!SessionRow \cup {None}] /\ SessionsKept
<1>1. row # None
  BY DEF PlatformAssumptions, Office!NamesAssumption
<1> QED BY <1>1 DEF PlatformInv, Office!TypeOK, SessionsKept

LEMMA CreatesStaff == ASSUME PlatformInv, PlatformAssumptions, NEW s \in Staff, Office!CreateStaff(s)
                      PROVE  PlatformInv'
<1>1. Office!TypeOK'
  BY DEF Office!CreateStaff, Office!CreatePlatformStaff, PlatformInv, Office!TypeOK
<1>2. \A t \in Staff : platformStaff'[t] = "revoked" <=> platformStaff[t] = "revoked"
  BY DEF Office!CreateStaff, Office!CreatePlatformStaff, PlatformInv, Office!TypeOK
<1>3. UNCHANGED <<business, platformSession, audit, clock, shown, platformRequest>>
  BY DEF Office!CreateStaff
<1>4. Grown /\ clock' \in Nat /\ clock <= clock'
  BY <1>3 DEF Grown, SessionsKept, PlatformInv, Office!TypeOK, PlatformAssumptions, Office!BoundsAssumption
<1>5. InTime' /\ Office!AuditTellsState' /\ Office!OnlySuperadminsWrite'
  BY <1>2, <1>3, <1>4, LogStays
<1> QED BY <1>1, <1>3, <1>4, <1>5, NoRequest, ShownStays DEF PlatformInv

LEMMA Authenticates ==
    ASSUME PlatformInv, PlatformAssumptions, NEW q \in Requests, NEW s \in Staff, Office!Authenticate(q, s)
    PROVE  PlatformInv'
<1> DEFINE c == [at |-> "login", staff |-> s]
<1>1. c \in Office!Context /\ Sound(c)
  BY DEF Office!Context, Sound
<1>2. platformRequest' = [platformRequest EXCEPT ![q] = c]
      /\ UNCHANGED <<platformStaff, business, platformSession, audit, clock, shown>>
  BY DEF Office!Authenticate
<1> HIDE DEF c
<1> QED BY <1>1, <1>2, RequestStep

LEMMA Authorises ==
    ASSUME PlatformInv, PlatformAssumptions, NEW q \in Requests, NEW x \in Sessions,
           Office!requirePlatformAuth(q, x)
    PROVE  PlatformInv'
<1> DEFINE c == [at |-> "authorised", staff |-> platformSession[x].staff, session |-> x,
                 csrf |-> platformSession[x].csrf]
<1>1. platformSession[x] # None /\ platformSession[x] \in Office!SessionRow
  BY DEF Office!requirePlatformAuth, Office!GetActivePlatformSession, PlatformInv, Office!TypeOK
<1>2. c \in Office!Context /\ Sound(c)
  BY <1>1 DEF Office!Context, Office!SessionRow, Sound
<1>3. platformRequest' = [platformRequest EXCEPT ![q] = c]
      /\ UNCHANGED <<platformStaff, business, platformSession, audit, clock, shown>>
  BY DEF Office!requirePlatformAuth
<1> HIDE DEF c
<1> QED BY <1>2, <1>3, RequestStep

LEMMA Refuses == ASSUME PlatformInv, PlatformAssumptions, NEW q \in Requests, Office!Refuse(q)
                 PROVE  PlatformInv'
BY RequestStep DEF Office!Refuse, Office!Answer

LEMMA LogsOut ==
    ASSUME PlatformInv, PlatformAssumptions, NEW q \in Requests, Office!platformLogout(q) \/ Office!platformMe(q)
    PROVE  PlatformInv'
<1> DEFINE x == platformRequest[q].session
<1>1. x \in Sessions /\ platformSession[x] \in Office!SessionRow
  <2>1. platformRequest[q] \in Office!Context /\ Sound(platformRequest[q])
        /\ platformRequest[q].at = "authorised"
    BY SoundRequest DEF Office!platformLogout, Office!platformMe, Office!Authorised, Office!At
  <2> QED BY <2>1, ContextIs DEF Sound, PlatformInv, Office!TypeOK
<1>2. PICK row \in Office!SessionRow :
        row.staff = platformSession[x].staff /\ platformSession' = [platformSession EXCEPT ![x] = row]
  <2>1. CASE Office!platformLogout(q)
    <3> DEFINE row == [platformSession[x] EXCEPT !.live = FALSE]
    <3>1. row \in Office!SessionRow /\ row.staff = platformSession[x].staff
      BY <1>1 DEF Office!SessionRow
    <3>2. platformSession' = [platformSession EXCEPT ![x] = row]
      BY <1>1, <2>1 DEF Office!platformLogout, Office!RevokePlatformSession, PlatformInv, Office!TypeOK
    <3> QED BY <3>1, <3>2
  <2>2. CASE Office!platformMe(q)
    <3> DEFINE row == [platformSession[x] EXCEPT !.csrf = @ + 1]
    <3>1. row \in Office!SessionRow /\ row.staff = platformSession[x].staff
      BY <1>1, <2>2 DEF Office!SessionRow, Office!platformMe, Office!UpdatePlatformSessionCSRFTokenHash,
         PlatformAssumptions, Office!BoundsAssumption
    <3>2. platformSession' = [platformSession EXCEPT ![x] = row]
      BY <1>1, <2>2 DEF Office!platformMe, Office!UpdatePlatformSessionCSRFTokenHash, PlatformInv, Office!TypeOK
    <3> QED BY <3>1, <3>2
  <2> QED BY <2>1, <2>2
<1>3. platformRequest' = [platformRequest EXCEPT ![q] = None]
      /\ UNCHANGED <<platformStaff, business, audit, clock, shown>>
  BY DEF Office!platformLogout, Office!platformMe, Office!Answer
<1>4. platformSession' \in [Sessions -> Office!SessionRow \cup {None}] /\ SessionsKept
  BY <1>1, <1>2, SessionStep
<1>5. clock' \in 0..MaxAudit /\ clock <= clock'
  BY <1>3 DEF PlatformInv, Office!TypeOK, PlatformAssumptions, Office!BoundsAssumption
<1> QED BY <1>3, <1>4, <1>5, PlatformQuietStep

LEMMA SessionExpires == ASSUME PlatformInv, PlatformAssumptions, NEW x \in Sessions, Office!Expire(x)
                        PROVE  PlatformInv'
<1> DEFINE row == [platformSession[x] EXCEPT !.live = FALSE]
<1>1. row \in Office!SessionRow /\ row.staff = platformSession[x].staff
      /\ platformSession' = [platformSession EXCEPT ![x] = row]
      /\ UNCHANGED <<platformStaff, business, audit, clock, shown, platformRequest>>
  BY DEF Office!Expire, Office!GetActivePlatformSession, PlatformInv, Office!TypeOK, Office!SessionRow
<1> HIDE DEF row
<1>2. platformSession' \in [Sessions -> Office!SessionRow \cup {None}] /\ SessionsKept
  BY <1>1, SessionStep
<1>3. Grown /\ clock' \in Nat /\ clock <= clock'
  BY <1>1, <1>2 DEF Grown, PlatformInv, Office!TypeOK, PlatformAssumptions, Office!BoundsAssumption
<1>4. Office!TypeOK'
  BY <1>1, <1>2 DEF PlatformInv, Office!TypeOK
<1>5. InTime' /\ Office!AuditTellsState' /\ Office!OnlySuperadminsWrite'
  BY <1>1, <1>3, LogStays
<1> QED BY <1>1, <1>3, <1>4, <1>5, NoRequest, ShownStays DEF PlatformInv

LEMMA CreatesSession ==
    ASSUME PlatformInv, PlatformAssumptions, NEW q \in Requests, NEW x \in Sessions, Office!CreateSession(q, x)
    PROVE  PlatformInv'
<1> DEFINE s == platformRequest[q].staff
           row == [staff |-> s, csrf |-> 0, live |-> TRUE]
           c == [platformRequest[q] EXCEPT !.at = "signedIn"]
<1>1. platformRequest[q] \in Office!Context /\ platformRequest[q].at = "login"
  BY SoundRequest DEF Office!CreateSession, Office!At
<1>2. c \in Office!Context /\ c.at = "signedIn"
  BY <1>1 DEF Office!Context, Office!Begun
<1>3. row \in Office!SessionRow
  BY <1>1, ContextIs DEF Office!SessionRow, PlatformAssumptions, Office!BoundsAssumption
<1>4. platformSession[x] = None /\ platformSession' = [platformSession EXCEPT ![x] = row]
      /\ platformRequest' = [platformRequest EXCEPT ![q] = c]
      /\ UNCHANGED <<platformStaff, business, audit, clock, shown>>
  BY DEF Office!CreateSession, Office!CreatePlatformSession, PlatformInv, Office!TypeOK
<1> HIDE DEF row, c
<1>5. platformSession' \in [Sessions -> Office!SessionRow \cup {None}] /\ SessionsKept
  BY <1>3, <1>4, SessionStep
<1>6. clock' \in 0..MaxAudit /\ clock <= clock'
  BY <1>4 DEF PlatformInv, Office!TypeOK, PlatformAssumptions, Office!BoundsAssumption
<1>7. PICK d \in Office!Context : d = c /\ d.at = "signedIn"
  BY <1>2
<1>8. Sound(d)'
  BY <1>7 DEF Sound
<1> QED BY <1>4, <1>5, <1>6, <1>7, <1>8, PlatformQuietStep

(***************************************************************************)
(* A transaction begins.                                                   *)
(***************************************************************************)
Permitted(action, target) ==
    \/ action = "login" /\ target = None
    \/ action \in Office!BusinessActions /\ target \in Bars
    \/ action \in Office!StaffActions /\ target \in Staff

LEMMA TransactionBegins ==
    ASSUME PlatformInv, PlatformAssumptions, NEW q \in Requests, platformRequest[q] # None,
           NEW action, NEW target, Permitted(action, target),
           action \in Writes => platformRequest[q].staff \in Superadmins, Office!WithApp(q, action, target)
    PROVE  PlatformInv'
<1> DEFINE c == [at |-> "begun", staff |-> platformRequest[q].staff, action |-> action, target |-> target,
                 now |-> clock + 1, had |-> Office!SessionsOf(target)]
<1>1. clock \in 0..MaxAudit /\ MaxAudit \in Nat /\ clock < MaxAudit /\ clock' = clock + 1
  BY DEF Office!WithApp, PlatformInv, Office!TypeOK, PlatformAssumptions, Office!BoundsAssumption
<1>2. clock + 1 \in 1..MaxAudit /\ clock' \in 0..MaxAudit /\ clock <= clock'
  BY <1>1
<1>3. platformRequest[q].staff \in Staff
  BY SoundRequest, ContextIs
<1>4. Office!SessionsOf(target) \in SUBSET Sessions
  BY DEF Office!SessionsOf
<1>5. c \in Office!Context
  BY <1>2, <1>3, <1>4 DEF Permitted, Office!Context, Office!Begun
<1>6. /\ platformRequest' = [platformRequest EXCEPT ![q] = c]
      /\ UNCHANGED <<platformStaff, business, platformSession, audit, shown>>
  BY DEF Office!WithApp
<1>7. /\ c.at = "begun" /\ c.now = clock' /\ c.action = action /\ c.target = target
      /\ c.staff = platformRequest[q].staff /\ c.had = Office!SessionsOf(target)
  BY <1>1
<1> HIDE DEF c
<1>8. PICK d \in Office!Context : d = c
  BY <1>5
<1>9. Sound(d)'
  <2>1. d.now <= clock'
    BY <1>1, <1>7, <1>8
  <2>2. \A x \in d.had : platformSession[x] # None /\ platformSession[x].staff = d.target
    BY <1>7, <1>8 DEF Office!SessionsOf
  <2>3. d.action \in Writes => d.staff \in Superadmins
    BY <1>7, <1>8
  <2> QED BY <1>6, <1>7, <1>8, <2>1, <2>2, <2>3 DEF Sound
<1>10. platformSession' \in [Sessions -> Office!SessionRow \cup {None}] /\ SessionsKept
  BY <1>6 DEF PlatformInv, Office!TypeOK, SessionsKept
<1> QED BY <1>2, <1>6, <1>8, <1>9, <1>10, PlatformQuietStep

\* Only superadmins may write.
LEMMA WritersAreSuperadmins ==
    ASSUME NEW q \in Requests, NEW c \in {"businesses:suspend", "staff:manage"},
           Office!requirePlatformCapability(q, c)
    PROVE  platformRequest[q].staff \in Superadmins
BY DEF Office!requirePlatformCapability, Office!ForRole, Office!supportCapabilities

(***************************************************************************)
(* A transaction commits.                                                  *)
(***************************************************************************)

\* A commit whose entry tells the state keeps all the rest.
LEMMA Commits ==
    ASSUME PlatformInv, PlatformAssumptions, NEW q \in Requests, NEW actions, Office!UnderWay(q, actions),
           Office!Record(q), Office!AuditTellsState',
           NEW d \in Office!Context \cup {None}, platformRequest' = [platformRequest EXCEPT ![q] = d],
           d = None \/ Sound(d)',
           platformSession' \in [Sessions -> Office!SessionRow \cup {None}], SessionsKept,
           platformStaff' \in [Staff -> {"none", "active", "revoked"}],
           business' \in [Bars -> {"active", "suspended"}], UNCHANGED shown
    PROVE  PlatformInv'
<1>1. PICK c \in Office!Context :
              /\ c = platformRequest[q] /\ Sound(c) /\ c.at = "begun" /\ c.action \in actions
              /\ clock \in Nat /\ clock' = clock /\ audit' = audit \cup {Entry(c)} /\ Entry(c) \in Office!AuditRow
              /\ Entry(c).at <= clock
  BY Enters
<1>2. Grown /\ clock' \in Nat
  BY <1>1 DEF Grown
<1>3. RequestsInv' /\ platformRequest' \in [Requests -> Office!Context \cup {None}]
  BY <1>2, OneRequest
<1>4. InTime' /\ Office!OnlySuperadminsWrite'
  BY <1>1, EntryIsSound
<1>5. Office!TypeOK'
  BY <1>1, <1>3 DEF PlatformInv, Office!TypeOK
<1>6. Office!NothingShownUnrecorded'
  BY <1>2, ShownStays
<1> QED BY <1>3, <1>4, <1>5, <1>6 DEF PlatformInv

LEMMA SessionsStay == ASSUME PlatformInv, UNCHANGED platformSession
                      PROVE  platformSession' \in [Sessions -> Office!SessionRow \cup {None}] /\ SessionsKept
BY DEF PlatformInv, Office!TypeOK, SessionsKept

LEMMA RecordsLogin == ASSUME PlatformInv, PlatformAssumptions, NEW q \in Requests, Office!RecordLogin(q)
                      PROVE  PlatformInv'
<1>1. CASE Office!At(q, "signedIn") /\ Office!WithApp(q, "login", None)
  BY <1>1, TransactionBegins DEF Permitted, Writes, Office!At
<1>2. CASE /\ Office!UnderWay(q, {"login"}) /\ Office!Record(q) /\ Office!Answer(q)
           /\ UNCHANGED <<platformStaff, business, platformSession, shown>>
  <2>1. PICK c \in Office!Context : c.at = "begun" /\ c.action = "login" /\ audit' = audit \cup {Entry(c)}
    BY <1>2, Enters
  <2>2. Entry(c).target \notin Bars /\ Entry(c).action # "staff.revoked"
    BY <2>1, ContextIs DEF Entry, PlatformAssumptions, Office!NoneAssumption
  <2>3. Office!AuditTellsState'
    BY <1>2, <2>1, <2>2, OtherEntry
  <2> QED BY <1>2, <2>3, SessionsStay, Commits DEF Office!Answer, PlatformInv, Office!TypeOK
<1> QED BY <1>1, <1>2 DEF Office!RecordLogin

LEMMA SetsBusinessStatus ==
    ASSUME PlatformInv, PlatformAssumptions, NEW q \in Requests, Office!setBusinessStatus(q)
    PROVE  PlatformInv'
<1> DEFINE actions == {"business.suspended", "business.reactivated"}
<1>1. /\ Office!UnderWay(q, actions) /\ Office!Record(q) /\ platformRequest' = [platformRequest EXCEPT ![q] = None]
      /\ UNCHANGED <<platformStaff, platformSession, shown>>
  BY DEF Office!setBusinessStatus, Office!Answer
<1>2. PICK c \in Office!Context :
              /\ c = platformRequest[q] /\ Sound(c) /\ c.at = "begun" /\ c.action \in actions
              /\ clock \in Nat /\ clock' = clock /\ audit' = audit \cup {Entry(c)} /\ Entry(c) \in Office!AuditRow
              /\ Entry(c).at <= clock
  BY <1>1, Enters
<1>3. PICK b \in Bars : b = c.target
  BY <1>2, ContextIs DEF Office!BusinessActions
<1>4. business' = [business EXCEPT ![b] = Office!StatusAfter(c.action)]
  BY <1>2, <1>3 DEF Office!setBusinessStatus, Office!SetBusinessStatus
<1>5. business' \in [Bars -> {"active", "suspended"}]
  BY <1>4 DEF PlatformInv, Office!TypeOK, Office!StatusAfter
<1>6. PICK e \in Office!AuditRow : e = Entry(c) /\ e.target = b /\ e.till = clock /\ e.action = c.action
  BY <1>2, <1>3 DEF Entry
<1>7. Office!AuditTellsState'
  <2>1. ASSUME NEW d \in Bars
        PROVE  (\/ Office!About(d) = {} /\ business[d] = "active"
                \/ \E x \in Office!About(d) : Office!Last(x) /\ business[d] = Office!StatusAfter(x.action))'
    <3>1. CASE d = b
      <4>1. e \in Office!About(d)'
        BY <1>2, <1>6, <3>1 DEF Office!About
      <4>2. \A other \in audit' : other.at <= e.till
        BY <1>2, <1>6 DEF PlatformInv, InTime
      <4>3. \A other \in Office!About(e.target)' : other.at <= e.till
        BY <4>2 DEF Office!About
      <4>4. business'[d] = Office!StatusAfter(e.action)
        BY <1>4, <1>6, <3>1 DEF PlatformInv, Office!TypeOK
      <4> QED BY <4>1, <4>3, <4>4 DEF Office!Last, Office!StatusAfter
    <3>2. CASE d # b
      BY <1>2, <1>4, <1>6, <3>2, StatusStays DEF PlatformInv, Office!TypeOK
    <3> QED BY <3>1, <3>2
  <2>2. \A s \in Staff : platformStaff'[s] = "revoked" <=> \E x \in Office!About(s)' : x.action = "staff.revoked"
    BY <1>1, <1>2, <1>6, RevokedStays
  <2> QED BY <2>1, <2>2 DEF Office!AuditTellsState
<1>8. platformStaff' \in [Staff -> {"none", "active", "revoked"}]
  BY <1>1 DEF PlatformInv, Office!TypeOK
<1> QED BY <1>1, <1>5, <1>7, <1>8, SessionsStay, Commits

LEMMA CreatesStaffAudited ==
    ASSUME PlatformInv, PlatformAssumptions, NEW q \in Requests, NEW s \in Staff,
           Office!CreateStaffAudited(q, s)
    PROVE  PlatformInv'
<1>1. CASE Office!requirePlatformCapability(q, "staff:manage") /\ Office!WithApp(q, "staff.created", s)
  BY <1>1, TransactionBegins, WritersAreSuperadmins DEF Permitted, Writes, Office!StaffActions,
     Office!requirePlatformCapability, Office!Authorised, Office!At
<1>2. CASE /\ Office!UnderWay(q, {"staff.created"}) /\ platformRequest[q].target = s
           /\ Office!CreatePlatformStaff(s) /\ Office!Record(q) /\ Office!Answer(q)
           /\ UNCHANGED <<business, platformSession, shown>>
  <2>1. PICK c \in Office!Context : /\ c = platformRequest[q] /\ c.at = "begun" /\ c.action = "staff.created"
                                    /\ audit' = audit \cup {Entry(c)}
    BY <1>2, Enters
  <2>2. Entry(c).target \notin Bars /\ Entry(c).action # "staff.revoked"
    BY <1>2, <2>1 DEF Entry, PlatformAssumptions, Office!NamesAssumption
  <2>3. /\ platformStaff' \in [Staff -> {"none", "active", "revoked"}]
        /\ \A t \in Staff : platformStaff'[t] = "revoked" <=> platformStaff[t] = "revoked"
    BY <1>2 DEF Office!CreatePlatformStaff, PlatformInv, Office!TypeOK
  <2>4. Office!AuditTellsState'
    BY <1>2, <2>1, <2>2, <2>3, OtherEntry
  <2> QED BY <1>2, <2>3, <2>4, SessionsStay, Commits DEF Office!Answer, PlatformInv, Office!TypeOK
<1> QED BY <1>1, <1>2 DEF Office!CreateStaffAudited

LEMMA RevokesStaff ==
    ASSUME PlatformInv, PlatformAssumptions, NEW q \in Requests, NEW s \in Staff, Office!RevokeStaff(q, s)
    PROVE  PlatformInv'
<1>1. CASE Office!requirePlatformCapability(q, "staff:manage") /\ Office!WithApp(q, "staff.revoked", s)
  BY <1>1, TransactionBegins, WritersAreSuperadmins DEF Permitted, Writes, Office!StaffActions,
     Office!requirePlatformCapability, Office!Authorised, Office!At
<1>2. CASE /\ Office!UnderWay(q, {"staff.revoked"}) /\ platformRequest[q].target = s
           /\ Office!SetPlatformStaffStatus(s, "revoked")
           /\ Office!RevokeAllPlatformSessionsForStaff(s, platformRequest[q].had)
           /\ Office!Record(q) /\ Office!Answer(q)
           /\ UNCHANGED <<business, shown>>
  <2>1. PICK c \in Office!Context : /\ c = platformRequest[q] /\ Sound(c) /\ c.at = "begun"
                                    /\ c.action = "staff.revoked" /\ audit' = audit \cup {Entry(c)}
    BY <1>2, Enters
  <2>2. Entry(c).target = s /\ s \in Staff /\ Entry(c).action = "staff.revoked" /\ s \notin Bars
    BY <1>2, <2>1 DEF Entry, PlatformAssumptions, Office!NamesAssumption
  <2>3. /\ platformStaff' \in [Staff -> {"none", "active", "revoked"}] /\ platformStaff'[s] = "revoked"
        /\ \A t \in Staff \ {s} : platformStaff'[t] = platformStaff[t]
    BY <1>2 DEF Office!SetPlatformStaffStatus, PlatformInv, Office!TypeOK
  <2>4. Office!AuditTellsState'
    <3>1. \A b \in Bars : (\/ Office!About(b) = {} /\ business[b] = "active"
              \/ \E e \in Office!About(b) : Office!Last(e) /\ business[b] = Office!StatusAfter(e.action))'
      BY <1>2, <2>1, <2>2, StatusStays
    <3>2. ASSUME NEW t \in Staff
          PROVE  platformStaff'[t] = "revoked" <=> \E e \in Office!About(t)' : e.action = "staff.revoked"
      <4>1. CASE t = s
        <5>1. Entry(c) \in Office!About(s)'
          BY <2>1, <2>2 DEF Office!About
        <5> QED BY <2>2, <2>3, <4>1, <5>1
      <4>2. CASE t # s
        BY <2>1, <2>2, <2>3, <4>2, RevokedStays
      <4> QED BY <4>1, <4>2
    <3> QED BY <3>1, <3>2 DEF Office!AuditTellsState
  <2>5. platformSession' \in [Sessions -> Office!SessionRow \cup {None}] /\ SessionsKept
    <3>1. PICK made \in SUBSET (Office!SessionsOf(s) \ c.had) : Office!EndSessions(c.had \cup made)
      BY <1>2, <2>1 DEF Office!RevokeAllPlatformSessionsForStaff
    <3>2. \A x \in c.had \cup made : x \in Sessions /\ platformSession[x] # None
      BY <2>1, ContextIs DEF Sound, Office!SessionsOf
    <3>3. ASSUME NEW x \in Sessions
          PROVE  /\ platformSession'[x] \in Office!SessionRow \cup {None}
                 /\ platformSession[x] # None => /\ platformSession'[x] # None
                                                 /\ platformSession'[x].staff = platformSession[x].staff
      <4> DEFINE ended == [platformSession[x] EXCEPT !.live = FALSE]
      <4>1. platformSession[x] # None => ended \in Office!SessionRow /\ ended.staff = platformSession[x].staff
        BY DEF PlatformInv, Office!TypeOK, Office!SessionRow
      <4>2. platformSession'[x] = platformSession[x]
            \/ (platformSession[x] # None /\ platformSession'[x] = ended)
        BY <3>1, <3>2 DEF Office!EndSessions
      <4> HIDE DEF ended
      <4> QED BY <4>1, <4>2 DEF PlatformInv, Office!TypeOK, PlatformAssumptions, Office!NamesAssumption
    <3> QED BY <3>1, <3>3 DEF Office!EndSessions, SessionsKept
  <2>6. business' \in [Bars -> {"active", "suspended"}]
    BY <1>2 DEF PlatformInv, Office!TypeOK
  <2> QED BY <1>2, <2>3, <2>4, <2>5, <2>6, Commits DEF Office!Answer
<1> QED BY <1>1, <1>2 DEF Office!RevokeStaff

LEMMA RecordsView ==
    ASSUME PlatformInv, PlatformAssumptions, NEW q \in Requests, NEW b \in Bars,
           Office!RecordBusinessActivityViewed(q, b)
    PROVE  PlatformInv'
<1>1. CASE /\ Office!requirePlatformCapability(q, "businesses:read_activity")
           /\ Office!WithApp(q, "business.activity_viewed", b)
  BY <1>1, TransactionBegins DEF Permitted, Writes, Office!BusinessActions,
     Office!requirePlatformCapability, Office!Authorised, Office!At
<1>2. CASE /\ Office!UnderWay(q, {"business.activity_viewed"}) /\ platformRequest[q].target = b
           /\ Office!Record(q) /\ Office!MayRead(q, b)
           /\ UNCHANGED <<platformStaff, business, platformSession, shown>>
  <2>1. PICK c \in Office!Context : /\ c = platformRequest[q] /\ c.at = "begun"
                                    /\ c.action = "business.activity_viewed" /\ audit' = audit \cup {Entry(c)}
    BY <1>2, Enters
  <2>2. Entry(c).action = "business.activity_viewed" /\ Entry(c).target = b /\ Entry(c).actor = c.staff
    BY <1>2, <2>1 DEF Entry
  <2>3. Office!AuditTellsState'
    BY <1>2, <2>1, <2>2, OtherEntry
  <2> DEFINE d == [at |-> "recorded", staff |-> c.staff, business |-> b]
  <2>4. d \in Office!Context /\ d.at = "recorded" /\ d.staff = c.staff /\ d.business = b
    BY ContextIs DEF Office!Context
  <2>5. platformRequest' = [platformRequest EXCEPT ![q] = d]
    BY <1>2, <2>1 DEF Office!MayRead
  <2>6. Viewed(d.staff, d.business)'
    BY <2>1, <2>2 DEF Viewed
  <2> HIDE DEF d
  <2>7. Sound(d)'
    BY <2>4, <2>6 DEF Sound
  <2> QED BY <1>2, <2>3, <2>4, <2>5, <2>7, SessionsStay, Commits DEF PlatformInv, Office!TypeOK
<1> QED BY <1>1, <1>2 DEF Office!RecordBusinessActivityViewed

LEMMA ShowsActivity ==
    ASSUME PlatformInv, PlatformAssumptions, NEW q \in Requests, Office!getPlatformBusinessActivity(q)
    PROVE  PlatformInv'
<1>1. PICK c \in Office!Context : c = platformRequest[q] /\ Sound(c) /\ c.at = "recorded"
  BY SoundRequest DEF Office!getPlatformBusinessActivity, Office!At
<1>2. /\ shown' = shown \cup {<<c.staff, c.business>>} /\ platformRequest' = [platformRequest EXCEPT ![q] = None]
      /\ UNCHANGED <<platformStaff, business, platformSession, audit, clock>>
  BY <1>1 DEF Office!getPlatformBusinessActivity, Office!Answer
<1>3. Grown /\ clock' \in Nat /\ clock <= clock'
  BY <1>2 DEF Grown, SessionsKept, PlatformInv, Office!TypeOK, PlatformAssumptions, Office!BoundsAssumption
<1>4. RequestsInv' /\ platformRequest' \in [Requests -> Office!Context \cup {None}]
  BY <1>2, <1>3, OneRequest
<1>5. InTime' /\ Office!AuditTellsState' /\ Office!OnlySuperadminsWrite'
  BY <1>2, <1>3, LogStays
<1>6. Office!NothingShownUnrecorded'
  <2>1. Viewed(c.staff, c.business)
    BY <1>1 DEF Sound
  <2> QED BY <1>2, <2>1 DEF PlatformInv, Office!NothingShownUnrecorded, Viewed
<1>7. Office!TypeOK'
  BY <1>1, <1>2, <1>4, ContextIs DEF PlatformInv, Office!TypeOK
<1> QED BY <1>4, <1>5, <1>6, <1>7 DEF PlatformInv

LEMMA PlatformStutters == ASSUME PlatformInv, PlatformAssumptions, UNCHANGED Office!vars PROVE PlatformInv'
<1> USE DEF Office!vars
<1>1. Office!TypeOK' /\ Grown /\ clock' \in Nat /\ clock <= clock'
  BY DEF PlatformInv, Office!TypeOK, Grown, SessionsKept, PlatformAssumptions, Office!BoundsAssumption
<1>2. InTime' /\ Office!AuditTellsState' /\ Office!OnlySuperadminsWrite'
  BY <1>1, LogStays
<1> QED BY <1>1, <1>2, NoRequest, ShownStays DEF PlatformInv

LEMMA PlatformStep == ASSUME PlatformInv, PlatformAssumptions, [Office!Next]_Office!vars PROVE PlatformInv'
<1>1. ASSUME NEW s \in Staff, Office!CreateStaff(s) PROVE PlatformInv'
  BY <1>1, CreatesStaff
<1>2. ASSUME NEW q \in Requests, NEW x \in Sessions, Office!CreateSession(q, x) \/ Office!requirePlatformAuth(q, x)
      PROVE  PlatformInv'
  BY <1>2, CreatesSession, Authorises
<1>3. ASSUME NEW x \in Sessions, Office!Expire(x) PROVE PlatformInv'
  BY <1>3, SessionExpires
<1>4. ASSUME NEW q \in Requests, Office!platformLogout(q) \/ Office!platformMe(q) \/ Office!Refuse(q)
      PROVE  PlatformInv'
  BY <1>4, LogsOut, Refuses
<1>5. ASSUME NEW q \in Requests, NEW b \in Bars, Office!SuspendBusiness(q, b) \/ Office!ReactivateBusiness(q, b)
      PROVE  PlatformInv'
  BY <1>5, TransactionBegins, WritersAreSuperadmins DEF Office!SuspendBusiness, Office!ReactivateBusiness, Permitted,
     Office!BusinessActions, Office!requirePlatformCapability, Office!Authorised, Office!At
<1>6. ASSUME NEW q \in Requests, NEW s \in Staff,
             Office!CreateStaffAudited(q, s) \/ Office!RevokeStaff(q, s) \/ Office!Authenticate(q, s)
      PROVE  PlatformInv'
  BY <1>6, CreatesStaffAudited, RevokesStaff, Authenticates
<1>7. ASSUME NEW q \in Requests, NEW b \in Bars, Office!RecordBusinessActivityViewed(q, b) PROVE PlatformInv'
  BY <1>7, RecordsView
<1>8. ASSUME NEW q \in Requests,
             Office!getPlatformBusinessActivity(q) \/ Office!setBusinessStatus(q) \/ Office!RecordLogin(q)
      PROVE  PlatformInv'
  BY <1>8, ShowsActivity, SetsBusinessStatus, RecordsLogin
<1> QED BY <1>1, <1>2, <1>3, <1>4, <1>5, <1>6, <1>7, <1>8, PlatformStutters DEF Office!Next

\* Every request goes by what is there, every entry was begun before now and
\* tells what its transaction did (internal/platformadmin/service.go).
THEOREM PlatformInvariant == ASSUME PlatformAssumptions PROVE Office!Spec => []PlatformInv
<1>1. Office!Init => PlatformInv
  BY PlatformInit
<1>2. PlatformInv /\ [Office!Next]_Office!vars => PlatformInv'
  BY PlatformStep
<1> QED BY <1>1, <1>2, PTL DEF Office!Spec

\* A write and its entry are one transaction, so that an entry tells the status
\* of every business, and no entry that is newer began after that one was done;
\* an account is revoked just when an entry says so; each entry of a write names
\* a superadmin, and nothing is shown of a business that has no entry.
THEOREM LogTellsAll ==
    ASSUME PlatformAssumptions
    PROVE  Office!Spec => [](Office!AuditTellsState /\ Office!OnlySuperadminsWrite
                             /\ Office!NothingShownUnrecorded)
<1>1. PlatformInv => Office!AuditTellsState /\ Office!OnlySuperadminsWrite /\ Office!NothingShownUnrecorded
  BY DEF PlatformInv
<1> QED BY <1>1, PlatformInvariant, PTL

(***************************************************************************)
(* What has ended stays ended.                                             *)
(***************************************************************************)
EndedStay == \A x \in Sessions : platformSession[x] # None =>
                /\ platformSession'[x] # None /\ platformSession'[x].staff = platformSession[x].staff
                /\ ~platformSession[x].live => ~platformSession'[x].live

\* A step that is no revocation's commit only has to keep the ended ones.
LEMMA NoAccountEnds ==
    ASSUME EndedStay,
           \/ UNCHANGED platformStaff
           \/ \A r \in Requests : Office!UnderWay(r, {"staff.revoked"}) => platformRequest'[r] # None
    PROVE  Office!RevocationEndsSessions
<1>1. Office!EndedWithAccount = {}
  BY DEF Office!EndedWithAccount
<1> QED BY <1>1 DEF Office!RevocationEndsSessions, EndedStay

LEMMA SessionsUntouched == ASSUME UNCHANGED platformSession PROVE EndedStay
BY DEF EndedStay

LEMMA OneSessionGoesOn ==
    ASSUME PlatformInv, PlatformAssumptions, NEW x \in Sessions, NEW row \in Office!SessionRow,
           platformSession[x] # None =>
              row.staff = platformSession[x].staff /\ (~platformSession[x].live => ~row.live),
           platformSession' = [platformSession EXCEPT ![x] = row]
    PROVE  EndedStay
<1>1. row # None
  BY DEF PlatformAssumptions, Office!NamesAssumption
<1> QED BY <1>1 DEF PlatformInv, Office!TypeOK, EndedStay

LEMMA LeavingKeepsEnded ==
    ASSUME PlatformInv, PlatformAssumptions, NEW q \in Requests, Office!platformLogout(q) \/ Office!platformMe(q)
    PROVE  EndedStay
<1> DEFINE x == platformRequest[q].session
<1>1. x \in Sessions /\ platformSession[x] \in Office!SessionRow
  <2>1. platformRequest[q] \in Office!Context /\ Sound(platformRequest[q])
        /\ platformRequest[q].at = "authorised"
    BY SoundRequest DEF Office!platformLogout, Office!platformMe, Office!Authorised, Office!At
  <2> QED BY <2>1, ContextIs DEF Sound, PlatformInv, Office!TypeOK
<1>2. CASE Office!platformLogout(q)
  <2> DEFINE row == [platformSession[x] EXCEPT !.live = FALSE]
  <2>1. row \in Office!SessionRow /\ row.staff = platformSession[x].staff /\ ~row.live
    BY <1>1 DEF Office!SessionRow
  <2>2. platformSession' = [platformSession EXCEPT ![x] = row]
    BY <1>1, <1>2 DEF Office!platformLogout, Office!RevokePlatformSession, PlatformInv, Office!TypeOK
  <2> HIDE DEF row
  <2> QED BY <1>1, <2>1, <2>2, OneSessionGoesOn
<1>3. CASE Office!platformMe(q)
  <2> DEFINE row == [platformSession[x] EXCEPT !.csrf = @ + 1]
  <2>1. row \in Office!SessionRow /\ row.staff = platformSession[x].staff /\ row.live = platformSession[x].live
    BY <1>1, <1>3 DEF Office!SessionRow, Office!platformMe, Office!UpdatePlatformSessionCSRFTokenHash,
       PlatformAssumptions, Office!BoundsAssumption
  <2>2. platformSession' = [platformSession EXCEPT ![x] = row]
    BY <1>1, <1>3 DEF Office!platformMe, Office!UpdatePlatformSessionCSRFTokenHash, PlatformInv, Office!TypeOK
  <2> HIDE DEF row
  <2> QED BY <1>1, <2>1, <2>2, OneSessionGoesOn
<1> QED BY <1>2, <1>3

LEMMA SigningInKeepsEnded ==
    ASSUME PlatformInv, PlatformAssumptions, NEW q \in Requests, NEW x \in Sessions, Office!CreateSession(q, x)
    PROVE  EndedStay
<1> DEFINE row == [staff |-> platformRequest[q].staff, csrf |-> 0, live |-> TRUE]
<1>1. row \in Office!SessionRow
  BY SoundRequest, ContextIs DEF Office!CreateSession, Office!At, Office!SessionRow, PlatformAssumptions,
     Office!BoundsAssumption
<1>2. platformSession[x] = None /\ platformSession' = [platformSession EXCEPT ![x] = row]
  BY DEF Office!CreateSession, Office!CreatePlatformSession
<1> HIDE DEF row
<1> QED BY <1>1, <1>2, OneSessionGoesOn

LEMMA ExpiringKeepsEnded ==
    ASSUME PlatformInv, PlatformAssumptions, NEW x \in Sessions, Office!Expire(x) PROVE EndedStay
<1> DEFINE row == [platformSession[x] EXCEPT !.live = FALSE]
<1>1. row \in Office!SessionRow /\ row.staff = platformSession[x].staff /\ ~row.live
      /\ platformSession' = [platformSession EXCEPT ![x] = row]
  BY DEF Office!Expire, Office!GetActivePlatformSession, PlatformInv, Office!TypeOK, Office!SessionRow
<1> HIDE DEF row
<1> QED BY <1>1, OneSessionGoesOn

\* The sessions that are ended are the account's own, so that none comes back.
LEMMA RevokingEnds ==
    ASSUME PlatformInv, PlatformAssumptions, NEW q \in Requests, NEW s \in Staff, Office!RevokeStaff(q, s)
    PROVE  Office!RevocationEndsSessions
<1>1. CASE Office!requirePlatformCapability(q, "staff:manage") /\ Office!WithApp(q, "staff.revoked", s)
  BY <1>1, SessionsUntouched, NoAccountEnds DEF Office!WithApp
<1>2. CASE /\ Office!UnderWay(q, {"staff.revoked"})
           /\ Office!RevokeAllPlatformSessionsForStaff(s, platformRequest[q].had) /\ Office!Answer(q)
  <2>1. PICK c \in Office!Context : c = platformRequest[q] /\ c.at = "begun" /\ Sound(c)
    BY <1>2, SoundRequest DEF Office!UnderWay, Office!At
  <2>2. PICK ended \in SUBSET Sessions :
           /\ c.had \subseteq ended
           /\ \A x \in ended : platformSession[x] # None
           /\ platformSession' = [x \in Sessions |-> IF x \in ended THEN [platformSession[x] EXCEPT !.live = FALSE]
                                                     ELSE platformSession[x]]
    <3>1. PICK made \in SUBSET (Office!SessionsOf(s) \ c.had) : Office!EndSessions(c.had \cup made)
      BY <1>2, <2>1 DEF Office!RevokeAllPlatformSessionsForStaff
    <3>2. c.had \cup made \in SUBSET Sessions
      BY <2>1, ContextIs DEF Office!SessionsOf
    <3>3. \A x \in c.had \cup made : platformSession[x] # None
      BY <2>1 DEF Sound, Office!SessionsOf
    <3> QED BY <3>1, <3>2, <3>3 DEF Office!EndSessions
  <2>3. Office!EndedWithAccount \subseteq c.had
    BY <1>2, <2>1 DEF Office!EndedWithAccount, Office!Answer, Office!UnderWay, Office!At, PlatformInv, Office!TypeOK
  <2>4. ASSUME NEW x \in Sessions, platformSession[x] # None, ~platformSession[x].live \/ x \in ended
        PROVE  platformSession'[x] # None /\ ~platformSession'[x].live
               /\ platformSession'[x].staff = platformSession[x].staff
    <3>1. platformSession[x] \in Office!SessionRow
      BY <2>4 DEF PlatformInv, Office!TypeOK
    <3>2. [platformSession[x] EXCEPT !.live = FALSE] \in Office!SessionRow
      BY <3>1 DEF Office!SessionRow
    <3>3. CASE x \in ended
      BY <2>2, <3>1, <3>2, <3>3 DEF Office!SessionRow, PlatformAssumptions, Office!NamesAssumption
    <3>4. CASE x \notin ended
      BY <2>2, <2>4, <3>4
    <3> QED BY <3>3, <3>4
  <2> QED BY <2>2, <2>3, <2>4 DEF Office!RevocationEndsSessions
<1> QED BY <1>1, <1>2 DEF Office!RevokeStaff

\* Every session an account has when its revocation begins ends with it, and no
\* step under way brings an ended session back.
THEOREM RevokedStayOut == ASSUME PlatformAssumptions
                          PROVE  Office!Spec => [][Office!RevocationEndsSessions]_Office!vars
<1>1. ASSUME PlatformAssumptions, PlatformInv, Office!Next PROVE Office!RevocationEndsSessions
  <2>1. ASSUME NEW s \in Staff, Office!CreateStaff(s) PROVE Office!RevocationEndsSessions
    BY <2>1, SessionsUntouched, NoAccountEnds DEF Office!CreateStaff, Office!UnderWay, Office!At
  <2>2. ASSUME NEW q \in Requests, NEW s \in Staff, Office!CreateStaffAudited(q, s)
        PROVE  Office!RevocationEndsSessions
    <3>1. UNCHANGED platformSession
      BY <2>2 DEF Office!CreateStaffAudited, Office!WithApp
    <3>2. CASE UNCHANGED platformStaff
      BY <3>1, <3>2, SessionsUntouched, NoAccountEnds
    <3>3. CASE Office!UnderWay(q, {"staff.created"}) /\ Office!Answer(q)
      BY <1>1, <3>1, <3>3, SessionsUntouched, NoAccountEnds
         DEF Office!UnderWay, Office!At, Office!Answer, PlatformInv, Office!TypeOK
    <3> QED BY <2>2, <3>2, <3>3 DEF Office!CreateStaffAudited, Office!WithApp
  <2>3. ASSUME NEW q \in Requests, NEW s \in Staff, Office!RevokeStaff(q, s) PROVE Office!RevocationEndsSessions
    BY <1>1, <2>3, RevokingEnds
  <2>4. ASSUME NEW q \in Requests, NEW x \in Sessions, Office!CreateSession(q, x)
        PROVE  Office!RevocationEndsSessions
    BY <1>1, <2>4, SigningInKeepsEnded, NoAccountEnds DEF Office!CreateSession
  <2>5. ASSUME NEW q \in Requests, Office!platformLogout(q) \/ Office!platformMe(q)
        PROVE  Office!RevocationEndsSessions
    BY <1>1, <2>5, LeavingKeepsEnded, NoAccountEnds DEF Office!platformLogout, Office!platformMe
  <2>6. ASSUME NEW x \in Sessions, Office!Expire(x) PROVE Office!RevocationEndsSessions
    BY <1>1, <2>6, ExpiringKeepsEnded, NoAccountEnds DEF Office!Expire
  <2>7. ASSUME NEW q \in Requests,
               \/ \E s \in Staff : Office!Authenticate(q, s)
               \/ \E x \in Sessions : Office!requirePlatformAuth(q, x)
               \/ \E b \in Bars : \/ Office!SuspendBusiness(q, b) \/ Office!ReactivateBusiness(q, b)
                                  \/ Office!RecordBusinessActivityViewed(q, b)
               \/ Office!Refuse(q) \/ Office!getPlatformBusinessActivity(q) \/ Office!RecordLogin(q)
               \/ Office!setBusinessStatus(q)
        PROVE  Office!RevocationEndsSessions
    <3>1. UNCHANGED <<platformSession, platformStaff>>
      BY <2>7 DEF Office!Authenticate, Office!requirePlatformAuth, Office!SuspendBusiness,
         Office!ReactivateBusiness, Office!RecordBusinessActivityViewed, Office!Refuse,
         Office!getPlatformBusinessActivity, Office!RecordLogin, Office!setBusinessStatus, Office!WithApp
    <3> QED BY <3>1, SessionsUntouched, NoAccountEnds
  <2> QED BY <1>1, <2>1, <2>2, <2>3, <2>4, <2>5, <2>6, <2>7 DEF Office!Next
<1>2. PlatformAssumptions /\ PlatformInv /\ [Office!Next]_Office!vars => [Office!RevocationEndsSessions]_Office!vars
  BY <1>1
<1> QED BY <1>2, PlatformInvariant, PTL DEF Office!Spec

(***************************************************************************)
(* All of it together.                                                     *)
(***************************************************************************)
LEMMA MembersHold == Members!Assumptions
BY MembersAssumption DEF Members!Assumptions

LEMMA JoiningHolds == SignUpAssumptions
BY JoiningAssumption DEF SignUpAssumptions

LEMMA DoorsHold == Doors!Assumptions
BY DoorsAssumption DEF Doors!Assumptions

LEMMA OfficeHolds == PlatformAssumptions
BY OfficeAssumption DEF PlatformAssumptions

(* No phone or e-mail is ever on two accounts, and a phone on an account has  *)
(* received a message that its holder used (internal/identity).               *)
THEOREM IdentifiersAreProven == Members!Spec => []IdentifiersProven
<1>1. Members!Spec => []Members!IInv
  BY MembersHold, Members!AccountsInvariant
<1>2. Members!IInv => IdentifiersProven
  BY DEF Members!IInv, IdentifiersProven
<1> QED BY <1>1, <1>2, PTL

(* Whoever accepted an invitation is a member of its business, however its    *)
(* acceptance is cut off and taken up again (internal/invitations).           *)
THEOREM AcceptedAreMembers == Members!Spec => []AcceptedIsMember
<1>1. Members!Spec => []Members!IInv
  BY MembersHold, Members!AccountsInvariant
<1>2. Members!IInv => AcceptedIsMember
  BY DEF Members!IInv, AcceptedIsMember
<1> QED BY <1>1, <1>2, PTL

(* Every wrong code is counted once, for a new identifier of an account and   *)
(* for a new account, and an account has the password that was given with the *)
(* code that arrived (internal/verify, internal/signup).                      *)
THEOREM CodesAlwaysHold == Members!Spec /\ Joining!Spec => []CodesHold
<1>1. Members!Spec => []Members!WrongCodesCounted
  BY MembersHold, Members!WrongCodesAreCounted
<1>2. Joining!Spec => []SignUpInv /\ []Joining!WrongCodesCounted
  BY JoiningHolds, SignUpInvariant, WrongSignUpCodesAreCounted, PTL
<1>3. SignUpInv => Joining!TypeOK /\ Joining!PasswordOfTheCode
  BY DEF SignUpInv, AccountInv, GivenWith, Joining!PasswordOfTheCode
<1>4. /\ Members!WrongCodesCounted /\ SignUpInv /\ Joining!WrongCodesCounted
      => CodesHold
  BY <1>3 DEF CodesHold
<1> QED BY <1>1, <1>2, <1>4, PTL

(* A change is carried out for the person its tab shows, and with a token     *)
(* that was its session's when it was sent (internal/httpapi/middleware.go,   *)
(* web/src/lib/session.tsx).                                                  *)
THEOREM ChangesAreTheirOwn == Doors!Spec => []ActsAsItsUser
<1>1. Doors!Spec => []Doors!IInv /\ [](Doors!ActsAsItsUser /\ Doors!ReplacedTokenRefused)
  BY DoorsHold, Doors!AccessInvariant, Doors!ChangesAreTheirOwn, PTL
<1>2. Doors!IInv => Doors!TypeOK
  BY DEF Doors!IInv
<1>3. Doors!TypeOK /\ Doors!ActsAsItsUser /\ Doors!ReplacedTokenRefused => ActsAsItsUser
  BY DEF ActsAsItsUser
<1> QED BY <1>1, <1>2, <1>3, PTL

(* What is done in a business is done by a member whose role may do it,       *)
(* offline only within an enrolment, and from outside only superadmins write  *)
(* (internal/httpapi, internal/platformadmin).                                *)
THEOREM OnlyThoseWhoMay == Doors!Spec /\ Office!Spec => []DoneByThoseWhoMay
<1>1. Doors!Spec => [](Doors!DoneByThoseWhoMay /\ Doors!LeaseWithinEnrolment)
  BY DoorsHold, Doors!DoneWithinRoles
<1>2. Office!Spec => []PlatformInv
  BY OfficeHolds, PlatformInvariant
<1>3. Doors!DoneByThoseWhoMay /\ Doors!LeaseWithinEnrolment /\ PlatformInv => DoneByThoseWhoMay
  BY DEF DoneByThoseWhoMay, PlatformInv
<1> QED BY <1>1, <1>2, <1>3, PTL

(* The audit log tells the status of every business and who is revoked, and   *)
(* nothing is shown of a business that it does not record                     *)
(* (internal/platformadmin/service.go).                                       *)
THEOREM AuditAlwaysTells == Office!Spec => []AuditTellsAll
<1>1. Office!Spec => []PlatformInv
  BY OfficeHolds, PlatformInvariant
<1>2. PlatformInv => AuditTellsAll
  BY DEF PlatformInv, AuditTellsAll
<1> QED BY <1>1, <1>2, PTL

(* A part that takes no step keeps what is over. *)
LEMMA NothingRevived ==
    /\ UNCHANGED Members!vars => Members!ClosedIsFinal
    /\ UNCHANGED Joining!vars => Joining!VerifiedOnce
    /\ UNCHANGED Doors!vars => Doors!EndedForGood
    /\ UNCHANGED Office!vars => Office!RevocationEndsSessions
<1>1. UNCHANGED Members!vars => Members!ClosedIsFinal
  BY DEF Members!vars, Members!ClosedIsFinal
<1>2. UNCHANGED Joining!vars => Joining!VerifiedOnce
  BY DEF Joining!vars, Joining!VerifiedOnce
<1>3. UNCHANGED Doors!vars => Doors!EndedForGood
  BY DEF Doors!vars, Doors!EndedForGood, Doors!Ended, Doors!At
<1>4. UNCHANGED Office!vars => Office!RevocationEndsSessions
  BY DEF Office!vars, Office!RevocationEndsSessions, Office!EndedWithAccount
<1> QED BY <1>1, <1>2, <1>3, <1>4

(* What is over stays over: an invitation that was accepted or revoked, an    *)
(* account once made, a session that has ended, and those of a staff account  *)
(* that is revoked, whatever the other parts do meanwhile.                    *)
THEOREM NothingComesBack ==
    Members!Spec /\ Joining!Spec /\ Doors!Spec /\ Office!Spec => OverStaysOver
<1>1. Members!Spec => [][Members!ClosedIsFinal]_Members!vars
  BY MembersHold, Members!ClosedStays
<1>2. Joining!Spec => [][Joining!VerifiedOnce]_Joining!vars
  BY JoiningHolds, AccountsStayAsTheyAre
<1>3. Doors!Spec => [][Doors!EndedForGood]_Doors!vars
  BY DoorsHold, Doors!EndedSessionsStayEnded
<1>4. Office!Spec => [][Office!RevocationEndsSessions]_Office!vars
  BY OfficeHolds, RevokedStayOut
<1>5. /\ [Members!ClosedIsFinal]_Members!vars /\ [Joining!VerifiedOnce]_Joining!vars
      /\ [Doors!EndedForGood]_Doors!vars /\ [Office!RevocationEndsSessions]_Office!vars
      => [/\ Members!ClosedIsFinal /\ Joining!VerifiedOnce
          /\ Doors!EndedForGood /\ Office!RevocationEndsSessions
         ]_<<accountsVars, signUpVars, accessVars, platformVars>>
  BY NothingRevived
<1> QED BY <1>1, <1>2, <1>3, <1>4, <1>5, PTL DEF OverStaysOver
=============================================================================

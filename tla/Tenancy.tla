------------------------------ MODULE Tenancy ------------------------------
(* Transactions scoped to a user and a business (internal/store), over pooled *)
(* connections that are used again: the role and the settings app.user_id and *)
(* app.business_id are set for one transaction, and row-level security reads  *)
(* them. A custom setting that was never set on a connection is NULL; once a  *)
(* transaction has set it, it is the empty string on that connection for good.*)
EXTENDS Naturals, FiniteSets

CONSTANTS Connections,   \* the pool
          Requests,      \* bound: requests at a time
          Users, Businesses,
          Memberships,   \* pairs <<business, user>>
          MaxWrites      \* bound: how often a row is written

CONSTANTS Unset, Empty, Nil   \* a setting that is NULL, one that is '', and uuid.Nil
CONSTANTS Login, App          \* the role that connects, which row-level security does not bind, and jbm_app

(* Identifiers are UUIDs, so no setting that names nobody is one of them.     *)
ASSUME NamesAssumption ==
    /\ Login # App /\ Unset # Empty /\ Nil \notin {Unset, Empty}
    /\ {Unset, Empty, Nil} \intersect (Users \union Businesses) = {}
    /\ Memberships \subseteq Businesses \X Users

VARIABLES settings,    \* what each connection has set, outside of transactions
          local,       \* what its transaction has set
          request,
          rows         \* how often a business's rows of a tenant-owned table have been written,
                      \* and each row of business_memberships

vars == <<settings, local, request, rows>>

Fresh == [role |-> Login, user |-> Unset, business |-> Unset]
Free == [at |-> "free"]
NoAnswer == [of |-> "none", named |-> Nil, failed |-> FALSE, seen |-> {}]
Open(q) == request[q]
At(q, at) == request[q].at = at
Proceed(q, next) == request' = [request EXCEPT ![q] = next]
Busy == {Open(q).connection : q \in {r \in Requests : ~At(r, "free")}}

Init == /\ settings = [c \in Connections |-> Fresh]
        /\ local = [c \in Connections |-> Fresh]
        /\ request = [q \in Requests |-> Free]
        /\ rows = [x \in Businesses \union Memberships |-> 0]

(* A transaction begins on a connection of the pool. *)
withTx(q, steps, user, business) == \E c \in Connections :
    /\ At(q, "free") /\ c \notin Busy
    /\ local' = [local EXCEPT ![c] = settings[c]]
    /\ Proceed(q, [at |-> "role", connection |-> c, steps |-> steps, user |-> user, business |-> business,
                   answer |-> NoAnswer, wrote |-> {}])
    /\ UNCHANGED <<settings, rows>>

WithApp(q) == \E u \in Users \union {Nil} : withTx(q, {"user"}, u, Nil)
WithTenant(q) == \E u \in Users \union {Nil}, b \in Businesses : withTx(q, {"user", "business"}, u, b)

SetRole(q) == /\ At(q, "role")
              /\ local' = [local EXCEPT ![Open(q).connection].role = App]
              /\ Proceed(q, [Open(q) EXCEPT !.at = "user"])
              /\ UNCHANGED <<settings, rows>>

(* A slip: is_local is false, and the setting outlives the transaction. *)
set_config_for_good(c, name, value) == /\ settings' = [settings EXCEPT ![c][name] = value]
                                       /\ local' = [local EXCEPT ![c][name] = value]

(* set_config(name, value, true) *)
set_config(c, name, value) == /\ local' = [local EXCEPT ![c][name] = value]
                              /\ UNCHANGED settings

SetContext(q) ==
    \/ /\ At(q, "user")
       /\ set_config(Open(q).connection, "user", Open(q).user)
       /\ Proceed(q, [Open(q) EXCEPT !.at = IF "business" \in Open(q).steps THEN "business" ELSE "scoped"])
       /\ UNCHANGED rows
    \/ /\ At(q, "business")
       /\ set_config(Open(q).connection, "business", Open(q).business)
       /\ Proceed(q, [Open(q) EXCEPT !.at = "scoped"])
       /\ UNCHANGED rows

(* NULLIF(current_setting(name, true), ''), whose cast to uuid fails for ''.  *)
NullIf(value) == IF value = Empty THEN Unset ELSE value
CurrentSetting(c, name) == NullIf(local[c][name])
Castable(c, name) == CurrentSetting(c, name) # Empty

tenant_isolation(c, b) == local[c].role = Login \/ CurrentSetting(c, "business") = b
self_access(c, u) == local[c].role = Login \/ CurrentSetting(c, "user") = u

(* The policies on business_memberships, of which either one suffices, for    *)
(* writing too: the second has no WITH CHECK, and USING stands in for it.     *)
AccessToMembership(c, m) == tenant_isolation(c, m[1]) \/ self_access(c, m[2])

(* A statement that names business b, rightly or by mistake. *)
Select(q, b) == [of |-> "rows", named |-> b, failed |-> ~Castable(Open(q).connection, "business"),
                 seen |-> {x \in {b} : tenant_isolation(Open(q).connection, x)}]

SelectMemberships(q) ==
    LET c == Open(q).connection
    IN [of |-> "memberships", named |-> Nil, failed |-> ~Castable(c, "business") \/ ~Castable(c, "user"),
        seen |-> {m \in Memberships : AccessToMembership(c, m)}]

Read(q) == /\ At(q, "scoped")
           /\ \/ \E b \in Businesses : Proceed(q, [Open(q) EXCEPT !.answer = Select(q, b)])
              \/ Proceed(q, [Open(q) EXCEPT !.answer = SelectMemberships(q)])
           /\ UNCHANGED <<settings, local, rows>>

(* Bound: a transaction writes one row. *)
Write(q, x) == /\ Open(q).wrote = {}
               /\ Proceed(q, [Open(q) EXCEPT !.wrote = {x}])
               /\ UNCHANGED <<settings, local, rows>>

(* A slip: the policy has no WITH CHECK. *)
InsertAny(q) == /\ At(q, "scoped")
                /\ \E b \in Businesses : Write(q, b)

(* WITH CHECK refuses a row of another business. *)
Insert(q) == /\ At(q, "scoped")
             /\ \E b \in Businesses : tenant_isolation(Open(q).connection, b) /\ Write(q, b)

(* CreateMembership, or a later statement on the same row. *)
WriteMembership(q) == /\ At(q, "scoped")
                      /\ \E m \in Memberships : AccessToMembership(Open(q).connection, m) /\ Write(q, m)

(* What a connection is left with when its transaction ends. *)
Reverted(c) ==
    LET ended(name) == IF settings[c][name] = Unset /\ local[c][name] # Unset THEN Empty ELSE settings[c][name]
    IN [role |-> Login, user |-> ended("user"), business |-> ended("business")]

End(q, left) == /\ settings' = [settings EXCEPT ![Open(q).connection] = left]
                /\ local' = [local EXCEPT ![Open(q).connection] = left]
                /\ Proceed(q, Free)

Commit(q) == /\ At(q, "scoped")
             /\ \A x \in Open(q).wrote : rows[x] < MaxWrites
             /\ rows' = [x \in DOMAIN rows |-> IF x \in Open(q).wrote THEN rows[x] + 1 ELSE rows[x]]
             /\ End(q, Reverted(Open(q).connection))

(* A statement fails, anywhere. When the request was cancelled, the ROLLBACK  *)
(* fails too and the pool closes the connection and opens another.            *)
Rollback(q) == /\ ~At(q, "free")
               /\ \/ End(q, Reverted(Open(q).connection))
                  \/ End(q, Fresh)
               /\ UNCHANGED rows

Next == \E q \in Requests : \/ WithApp(q) \/ WithTenant(q) \/ SetRole(q) \/ SetContext(q)
                            \/ Read(q) \/ Insert(q) \/ WriteMembership(q) \/ Commit(q) \/ Rollback(q)

Spec == Init /\ [][Next]_vars

(* Properties *)

(* The memberships of a transaction: all in its business, and all of its user. *)
OwnMemberships(q) == {m \in Memberships : m[1] = Open(q).business \/ m[2] = Open(q).user}

(* Every statement sees all rows of its transaction's own business and user   *)
(* and no other, whatever the connection was used for before, and however     *)
(* that ended: "the row must be invisible under RLS".                         *)
SeesItsOwn == \A q \in Requests : At(q, "scoped") =>
    LET answer == Open(q).answer
    IN /\ ~answer.failed
       /\ answer.of = "rows" => answer.seen = {answer.named} \intersect {Open(q).business}
       /\ answer.of = "memberships" => answer.seen = OwnMemberships(q)

(* A business's rows change only when a transaction of that business commits, *)
(* and a membership only when one of its business or of its user does.        *)
ChangesItsOwn == [][\A x \in DOMAIN rows : rows'[x] # rows[x] =>
    \E q \in Requests : /\ At(q, "scoped") /\ At(q, "free")'
                        /\ x = Open(q).business \/ x \in OwnMemberships(q)]_vars

(* What the migration says its second policy is for, "handlers resolving      *)
(* 'which businesses am I a member of'", and the policy does not keep: that   *)
(* memberships are written in their business only.                            *)
WritesInItsBusiness == [][\A x \in DOMAIN rows : rows'[x] # rows[x] =>
    \E q \in Requests : /\ At(q, "scoped") /\ At(q, "free")'
                        /\ x = Open(q).business \/ (x \in Memberships /\ x[1] = Open(q).business)]_vars
=============================================================================

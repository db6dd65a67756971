--------------------------- MODULE TenantRegistry ---------------------------
(***************************************************************************)
(* What the administrator is promised about tenants and their users: every *)
(* change takes effect at once, together with the audit record that tells  *)
(* of it, and a tenant leaves with everything that refers to it.           *)
(*                                                                         *)
(* A record is [id, tenant_id, action, actor, meta]; meta is the row the   *)
(* record tells of, in a set ({} when it tells of none).                   *)
(***************************************************************************)
EXTENDS Integers

CONSTANTS Ids, Columns, Rows, Emails

VARIABLES tenants,   \* id -> row
          users,     \* <<tenant, email>> of every user
          trail      \* the audit records

vars == <<tenants, users, trail>>

Recorded(t, action, actor, meta) ==
  \E id \in Ids :
    /\ \A r \in trail : r.id # id
    /\ trail' = trail \cup {[id |-> id, tenant_id |-> t, action |-> action,
                             actor |-> actor, meta |-> meta]}

(* A new tenant; its record has its row.                                   *)
Create(t, row) ==
  /\ t \notin DOMAIN tenants
  /\ tenants' = [i \in DOMAIN tenants \cup {t} |-> IF i = t THEN row ELSE tenants[i]]
  /\ Recorded(t, "tenant.create", "system", {row})
  /\ UNCHANGED users

(* A change of one tenant: the record has the new value of every column    *)
(* that changes.  What it says of the others may be out of date.           *)
Change(t, told) ==
  /\ t \in DOMAIN tenants
  /\ \E changed \in SUBSET Columns :
       tenants' = [tenants EXCEPT ![t] =
         [c \in Columns |-> IF c \in changed THEN told[c] ELSE @[c]]]
  /\ Recorded(t, "tenant.update", "system", {told})
  /\ UNCHANGED users

(* A user nobody else has the email of, within the tenant.                 *)
Register(t, email) ==
  /\ t \in DOMAIN tenants
  /\ <<t, email>> \notin users
  /\ users' = users \cup {<<t, email>>}
  /\ Recorded(t, "user.register", email, {})
  /\ UNCHANGED tenants

(* A tenant leaves with its users and its records.                         *)
Remove(t) ==
  /\ t \in DOMAIN tenants
  /\ tenants' = [i \in DOMAIN tenants \ {t} |-> tenants[i]]
  /\ users' = {u \in users : u[1] # t}
  /\ trail' = {r \in trail : r.tenant_id # t}

Next ==
  \E t \in Ids :
    \/ \E row \in Rows : Create(t, row) \/ Change(t, row)
    \/ \E email \in Emails : Register(t, email)
    \/ Remove(t)

(* Some tenants, no users, and a record of each tenant as it is.           *)
Init ==
  /\ users = {}
  /\ \A t \in DOMAIN tenants : \E r \in trail : r.tenant_id = t /\ r.meta = {tenants[t]}

Spec == Init /\ [][Next]_vars

=============================================================================

----------------------------- MODULE TenantAdmin -----------------------------
(***************************************************************************)
(* The administrator's requests about tenants and their users: create,     *)
(* rename, delete and register, each with its audit record.                *)
(*                                                                         *)
(* The handlers are `def` and run on threads, so any of them run at the    *)
(* same time.  A session reads rows, works on the objects it read, and at  *)
(* its commit writes the columns whose value it changed (SQLAlchemy's unit *)
(* of work, autoflush off); other sessions commit in between.  Only a user *)
(* is inserted before the commit, by a flush, and holds its email in the   *)
(* unique index and its tenant FOR KEY SHARE.                              *)
(*                                                                         *)
(* What is read only (the two GETs) and requests turned away before they   *)
(* touch a row (401, 404, 422, 429) are not steps.  The tokens of a tenant *)
(* and the password of a user are left out.                                *)
(***************************************************************************)
EXTENDS Integers, FiniteSets

CONSTANTS
  Names, Plans,      \* values of the two columns of a tenant
  FirstTenant,       \* the row of the tenant the database starts with
  Creations,         \* bodies of POST tenants
  Patches,           \* bodies of PATCH tenants: functions from some columns
  Emails, Spellings, \* emails, and the ways to spell them in a request
  Normalized,        \* _normalize_email: [Spellings -> Emails]
  Threads,           \* the workers that run these requests
  MaxRequests        \* bound

Columns == {"name", "plan"}
Rows == [name : Names, plan : Plans]

ASSUME TenantBodiesAssumption ==
  /\ FirstTenant \in Rows /\ Creations \subseteq Rows
  /\ \A set \in Patches :
       /\ DOMAIN set \subseteq Columns
       /\ [c \in Columns |-> IF c \in DOMAIN set THEN set[c] ELSE FirstTenant[c]] \in Rows
  /\ Normalized \in [Spellings -> Emails]
  /\ Emails # {} /\ "system" \notin Emails
  /\ MaxRequests \in Nat

-----------------------------------------------------------------------------
VARIABLES
  tenants,     \* the tenants table: ids (of the requests that made them) to
               \* rows; 0 is the tenant the database starts with
  users,       \* the users table
  audit_logs,  \* the audit_logs table, ids likewise
  sessions,    \* what each thread is doing
  answered,    \* <<tenant, email>> of the registrations answered ok
  requests     \* counter for the bound; numbers the requests

tables == <<tenants, users, audit_logs>>
vars == <<tables, sessions, answered, requests>>

Ids == 0..MaxRequests

Users == [id : Ids, tenant_id : Ids, email : Emails]

AuditLogs ==
  [id : Ids, tenant_id : Ids, actor : Emails \cup {"system"},
   action : {"tenant.create", "tenant.update", "user.register"},
   meta : SUBSET Rows]   \* the row it tells of, if any

Sessions ==
  [pc : {"idle", "insert", "commit", "refresh"},
   op : {"create", "update", "delete", "register"},
   number : Ids,          \* of the request
   tenant : Ids,
   set : SUBSET Columns,  \* update: the columns the body names
   seen : Rows,           \* the tenant's row as it was loaded
   held : Rows,           \* and as the handler has set it
   email : Emails]        \* register

TypeOK ==
  /\ DOMAIN tenants \subseteq Ids
  /\ \A t \in DOMAIN tenants : tenants[t] \in Rows
  /\ users \subseteq Users
  /\ audit_logs \subseteq AuditLogs
  /\ sessions \in [Threads -> Sessions]
  /\ answered \subseteq Ids \X Emails
  /\ requests \in Ids

IdleSession ==
  [pc |-> "idle", op |-> "create", number |-> 0, tenant |-> 0, set |-> {},
   seen |-> FirstTenant, held |-> FirstTenant, email |-> CHOOSE e \in Emails : TRUE]

AuditRow(id, t, action, actor, meta) ==
  [id |-> id, tenant_id |-> t, action |-> action, actor |-> actor, meta |-> meta]

Init ==
  /\ tenants = [t \in {0} |-> FirstTenant]
  /\ users = {}
  /\ audit_logs = {AuditRow(0, 0, "tenant.create", "system", {FirstTenant})}
  /\ sessions = [w \in Threads |-> IdleSession]
  /\ answered = {}
  /\ requests = 0

Goto(w, session) == sessions' = [sessions EXCEPT ![w] = session]

(* A request arrives at an idle thread.                                    *)
Arrives(w) ==
  /\ sessions[w].pc = "idle"
  /\ requests < MaxRequests
  /\ requests' = requests + 1

(* ... and gets a session, with its number.                                *)
Request(w, session) ==
  Arrives(w) /\ Goto(w, [session EXCEPT !.number = requests + 1])

(* Variant: the audit record is built before the columns are set.          *)
AuditOfSeen(w, action, actor, meta) ==
  LET s == sessions[w] IN
  audit_logs' = audit_logs
    \cup {AuditRow(s.number, s.tenant, action, actor, IF meta = {} THEN {} ELSE {s.seen})}

(* write_audit_log, in the transaction of the change it tells of.          *)
WriteAuditLog(w, action, actor, meta) ==
  LET s == sessions[w] IN
  audit_logs' = audit_logs \cup {AuditRow(s.number, s.tenant, action, actor, meta)}

(* The exception handler, or the thread's end: rollback, 500.              *)
Fail(w) ==
  /\ Goto(w, IdleSession)
  /\ UNCHANGED <<tables, answered, requests>>

-----------------------------------------------------------------------------
(* create_tenant.                                                          *)

(* The flush inserts a row with a new uuid, invisible until the commit.    *)
CreateTenant(w) ==
  /\ \E row \in Creations :
       Request(w, [IdleSession EXCEPT !.pc = "commit", !.op = "create",
                                      !.tenant = requests + 1, !.held = row])
  /\ UNCHANGED <<tables, answered>>

(* After a commit the handler goes on to db.refresh, or the commit took    *)
(* effect and its reply was lost: an exception, 500.                       *)
AfterCommit(w) == \/ Goto(w, [sessions[w] EXCEPT !.pc = "refresh"])
                  \/ Goto(w, IdleSession)

CommitCreate(w) ==
  LET s == sessions[w] IN
  /\ s.pc = "commit" /\ s.op = "create"
  /\ tenants' = [t \in DOMAIN tenants \cup {s.tenant} |->
                   IF t = s.tenant THEN s.held ELSE tenants[t]]
  /\ WriteAuditLog(w, "tenant.create", "system", {s.held})
  /\ AfterCommit(w)
  /\ UNCHANGED <<users, answered, requests>>

-----------------------------------------------------------------------------
(* update_tenant.                                                          *)

UpdateTenant(w) ==
  /\ \E t \in DOMAIN tenants, set \in Patches :
       Request(w, [IdleSession EXCEPT
         !.pc = "commit", !.op = "update", !.tenant = t, !.set = DOMAIN set,
         !.seen = tenants[t],
         !.held = [c \in Columns |-> IF c \in DOMAIN set THEN set[c] ELSE tenants[t][c]]])
  /\ UNCHANGED <<tables, answered>>

(* Variant: the whole row is written back.                                 *)
WholeRow(w) == sessions[w].held

(* The row after the flush: only columns with a net change are written.    *)
FlushedRow(w) ==
  LET s == sessions[w] IN
  [c \in Columns |-> IF s.held[c] # s.seen[c] THEN s.held[c] ELSE tenants[s.tenant][c]]

(* The record has the row as the session holds it.  A tenant deleted since *)
(* fails the UPDATE, which finds no row, or the record's foreign key.      *)
CommitUpdate(w) ==
  LET s == sessions[w] IN
  /\ s.pc = "commit" /\ s.op = "update"
  /\ \/ /\ s.tenant \in DOMAIN tenants
        /\ tenants' = [tenants EXCEPT ![s.tenant] = FlushedRow(w)]
        /\ WriteAuditLog(w, "tenant.update", "system", {s.held})
        /\ AfterCommit(w)
        /\ UNCHANGED <<users, answered, requests>>
     \/ s.tenant \notin DOMAIN tenants /\ Fail(w)

(* db.refresh reads the row again for the answer: 500 when it is gone.     *)
Refresh(w) ==
  /\ sessions[w].pc = "refresh"
  /\ Goto(w, IdleSession)
  /\ UNCHANGED <<tables, answered, requests>>

-----------------------------------------------------------------------------
(* register.                                                               *)

Registered(t, email) == \E u \in users : u.tenant_id = t /\ u.email = email

(* A flushed user of an open transaction: in the unique index, its tenant  *)
(* locked FOR KEY SHARE.                                                   *)
Pending(w) == sessions[w].op = "register" /\ sessions[w].pc = "commit"

(* Variant: the email as it is spelled.                                    *)
SpelledAsIs(spelling) == spelling

NormalizeEmail(spelling) == Normalized[spelling]

(* The SELECT.  An email that is there already is answered like a success. *)
(* Otherwise the password is hashed, which takes its time.  (For a tenant  *)
(* that does not exist the insert would fail; that is not a step.)         *)
Register(w) ==
  \E t \in DOMAIN tenants, spelling \in Spellings :
    LET email == NormalizeEmail(spelling) IN
    /\ \/ /\ Registered(t, email)
          /\ Arrives(w) /\ UNCHANGED sessions
          /\ answered' = answered \cup {<<t, email>>}
       \/ /\ ~Registered(t, email)
          /\ Request(w, [IdleSession EXCEPT !.pc = "insert", !.op = "register",
                                            !.tenant = t, !.email = email])
          /\ UNCHANGED answered
    /\ UNCHANGED tables

InDoubt(w) ==
  \E v \in Threads \ {w} :
    /\ Pending(v)
    /\ sessions[v].tenant = sessions[w].tenant /\ sessions[v].email = sessions[w].email

(* Variant: no unique constraint behind the SELECT.                        *)
InsertUserUnchecked(w) ==
  LET s == sessions[w] IN
  /\ s.pc = "insert"
  /\ s.tenant \in DOMAIN tenants
  /\ Goto(w, [s EXCEPT !.pc = "commit"])
  /\ UNCHANGED <<tables, answered, requests>>

(* Variant: ON CONFLICT DO NOTHING that does not wait, answered ok.        *)
InsertUserSkipping(w) ==
  LET s == sessions[w] IN
  /\ s.pc = "insert"
  /\ s.tenant \in DOMAIN tenants
  /\ \/ /\ ~Registered(s.tenant, s.email) /\ ~InDoubt(w)
        /\ Goto(w, [s EXCEPT !.pc = "commit"])
        /\ UNCHANGED answered
     \/ /\ Registered(s.tenant, s.email) \/ InDoubt(w)
        /\ answered' = answered \cup {<<s.tenant, s.email>>}
        /\ Goto(w, IdleSession)
  /\ UNCHANGED <<tables, requests>>

(* The flush: waits for an open insert of the same email, then fails on    *)
(* the unique constraint, or on the foreign key, or holds both.            *)
InsertUser(w) ==
  LET s == sessions[w] IN
  /\ s.pc = "insert"
  /\ ~InDoubt(w)
  /\ \/ /\ s.tenant \in DOMAIN tenants /\ ~Registered(s.tenant, s.email)
        /\ Goto(w, [s EXCEPT !.pc = "commit"])
        /\ UNCHANGED <<tables, answered, requests>>
     \/ (s.tenant \notin DOMAIN tenants \/ Registered(s.tenant, s.email)) /\ Fail(w)

CommitRegister(w) ==
  LET s == sessions[w] IN
  /\ Pending(w)
  /\ users' = users \cup {[id |-> s.number, tenant_id |-> s.tenant, email |-> s.email]}
  /\ WriteAuditLog(w, "user.register", s.email, {})
  /\ answered' = answered \cup {<<s.tenant, s.email>>} \/ UNCHANGED answered
  /\ Goto(w, IdleSession)
  /\ UNCHANGED <<tenants, requests>>

-----------------------------------------------------------------------------
(* delete_tenant.                                                          *)

DeleteTenant(w) ==
  /\ \E t \in DOMAIN tenants :
       Request(w, [IdleSession EXCEPT !.pc = "commit", !.op = "delete", !.tenant = t])
  /\ UNCHANGED <<tables, answered>>

(* Variant: the DELETE does not wait for transactions that hold the row.   *)
CommitDeleteAtOnce(w) ==
  LET s == sessions[w] IN
  /\ s.pc = "commit" /\ s.op = "delete"
  /\ tenants' = [t \in DOMAIN tenants \ {s.tenant} |-> tenants[t]]
  /\ users' = {u \in users : u.tenant_id # s.tenant}
  /\ audit_logs' = {a \in audit_logs : a.tenant_id # s.tenant}
  /\ Goto(w, IdleSession)
  /\ UNCHANGED <<answered, requests>>

(* The record of the deletion refers to the tenant: it fails on its        *)
(* foreign key when somebody else has deleted it, and else is deleted by   *)
(* the cascade in the statement that follows it.                           *)
CommitDelete(w) ==
  LET s == sessions[w] IN
  /\ s.pc = "commit" /\ s.op = "delete"
  /\ \/ /\ s.tenant \in DOMAIN tenants
        /\ \A v \in Threads : Pending(v) => sessions[v].tenant # s.tenant
        /\ tenants' = [t \in DOMAIN tenants \ {s.tenant} |-> tenants[t]]
        /\ users' = {u \in users : u.tenant_id # s.tenant}
        /\ audit_logs' = {a \in audit_logs : a.tenant_id # s.tenant}
        /\ Goto(w, IdleSession)
        /\ UNCHANGED <<answered, requests>>
     \/ s.tenant \notin DOMAIN tenants /\ Fail(w)

-----------------------------------------------------------------------------
(* Any statement may fail, and the process may die.                        *)
DatabaseError(w) == sessions[w].pc # "idle" /\ Fail(w)

Next ==
  \E w \in Threads :
    \/ CreateTenant(w) \/ CommitCreate(w)
    \/ UpdateTenant(w) \/ CommitUpdate(w) \/ Refresh(w)
    \/ Register(w) \/ InsertUser(w) \/ CommitRegister(w)
    \/ DeleteTenant(w) \/ CommitDelete(w)
    \/ DatabaseError(w)

Spec == Init /\ [][Next]_vars

-----------------------------------------------------------------------------
(* Properties.                                                             *)

(* However registrations race, a tenant has one user to an email, and the  *)
(* audit log has one record of each user that is there and of no other.    *)
UsersOnRecord ==
  /\ \A u, v \in users : u.tenant_id = v.tenant_id /\ u.email = v.email => u = v
  /\ {[id |-> a.id, tenant_id |-> a.tenant_id, email |-> a.actor] :
        a \in {a \in audit_logs : a.action = "user.register"}} = users

(* Whoever was told "Registration processed" finds the user for as long as *)
(* the tenant exists: no answer rests on a transaction rolled back later.  *)
RegistrationsHold ==
  \A k \in answered : k[1] \in DOMAIN tenants => Registered(k[1], k[2])

(* No user and no audit record outlives its tenant, whatever is registered *)
(* or recorded while the tenant is being deleted.                          *)
NoOrphans ==
  /\ \A u \in users : u.tenant_id \in DOMAIN tenants
  /\ \A a \in audit_logs : a.tenant_id \in DOMAIN tenants

(* A PATCH changes only columns its body names: two of them that name      *)
(* different columns of a tenant both take effect, however they overlap.   *)
PatchesMerge ==
  [][\A t \in DOMAIN tenants \cap DOMAIN tenants', c \in Columns :
       tenants'[t][c] # tenants[t][c] =>
         \E w \in Threads :
           /\ sessions'[w] # sessions[w]
           /\ sessions[w].op = "update" /\ sessions[w].tenant = t
           /\ c \in sessions[w].set]_vars

(* Every value in the tenants table is in a record of that tenant.         *)
ValuesOnRecord ==
  \A t \in DOMAIN tenants, c \in Columns :
    \E a \in audit_logs :
      a.tenant_id = t /\ \E row \in a.meta : row[c] = tenants[t][c]

(* Every change takes effect at once and with its record.                  *)
Registry == INSTANCE TenantRegistry WITH
  users <- {<<u.tenant_id, u.email>> : u \in users}, trail <- audit_logs
ImplementsRegistry == Registry!Spec

-----------------------------------------------------------------------------
(* Why they hold: what open sessions know.                                 *)

(* Requests have numbers of their own, and what they wrote has theirs.     *)
NumbersInv ==
  /\ \A w \in Threads : sessions[w].pc = "idle" => sessions[w].number = 0
  /\ \A w \in Threads : sessions[w].pc # "idle" =>
       /\ sessions[w].number \in 1..requests
       /\ sessions[w].pc # "refresh" =>
            \A a \in audit_logs : a.id # sessions[w].number
       /\ sessions[w].op = "create" =>
            sessions[w].tenant = sessions[w].number
       /\ sessions[w].op = "create" /\ sessions[w].pc # "refresh" =>
            /\ sessions[w].tenant \notin DOMAIN tenants
            /\ \A k \in answered : k[1] # sessions[w].tenant
  /\ \A v, w \in Threads :
       v # w /\ sessions[v].pc # "idle" => sessions[v].number # sessions[w].number
  /\ \A a \in audit_logs : a.id <= requests
  /\ DOMAIN tenants \subseteq 0..requests
  /\ \A k \in answered : k[1] <= requests

(* A user that is flushed and not committed is of a tenant that exists,    *)
(* has an email no user of it has, and nobody else has flushed.            *)
PendingInv ==
  \A w \in Threads : Pending(w) =>
    /\ sessions[w].tenant \in DOMAIN tenants
    /\ ~Registered(sessions[w].tenant, sessions[w].email)
    /\ ~InDoubt(w)

(* An update holds what it has seen in every column its body does not      *)
(* name.                                                                   *)
HeldInv ==
  \A w \in Threads : sessions[w].op = "update" =>
    \A c \in Columns \ sessions[w].set : sessions[w].held[c] = sessions[w].seen[c]

AdminInv ==
  /\ NumbersInv /\ PendingInv /\ HeldInv
  /\ UsersOnRecord /\ RegistrationsHold /\ NoOrphans /\ ValuesOnRecord

=============================================================================

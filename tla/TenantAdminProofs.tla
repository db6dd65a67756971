-------------------------- MODULE TenantAdminProofs --------------------------
(***************************************************************************)
(* Theorems about TenantAdmin, for any names, plans, emails, bodies and    *)
(* any number of threads and requests: its invariants, and that it         *)
(* implements TenantRegistry and its updates merge.                        *)
(***************************************************************************)
EXTENDS TenantAdmin, TLAPS

-----------------------------------------------------------------------------
(* Types.                                                                  *)

(* A row made of the columns of other rows.                                *)
LEMMA RowType ==
  ASSUME NEW row, row = [c \in Columns |-> row[c]],
         row["name"] \in Names, row["plan"] \in Plans
  PROVE  row \in Rows
BY DEF Rows, Columns

LEMMA RowColumns ==
  ASSUME NEW row \in Rows
  PROVE  row = [c \in Columns |-> row[c]] /\ row["name"] \in Names /\ row["plan"] \in Plans
BY DEF Rows, Columns

LEMMA PatchedType ==
  ASSUME NEW row \in Rows, NEW set \in Patches
  PROVE  [c \in Columns |-> IF c \in DOMAIN set THEN set[c] ELSE row[c]] \in Rows
<1> DEFINE new   == [c \in Columns |-> IF c \in DOMAIN set THEN set[c] ELSE row[c]]
           first == [c \in Columns |-> IF c \in DOMAIN set THEN set[c] ELSE FirstTenant[c]]
<1>1. first \in Rows
  BY TenantBodiesAssumption
<1>2. \A c \in Columns : new[c] = first[c] \/ new[c] = row[c]
  OBVIOUS
<1>3. new = [c \in Columns |-> new[c]]
  OBVIOUS
<1> HIDE DEF new, first
<1>4. new["name"] \in Names /\ new["plan"] \in Plans
  BY <1>1, <1>2, RowColumns DEF Columns
<1>5. new \in Rows
  BY <1>3, <1>4, RowType
<1> QED
  BY <1>5 DEF new

LEMMA IdleType == IdleSession \in Sessions
<1>1. (CHOOSE e \in Emails : TRUE) \in Emails
  BY TenantBodiesAssumption
<1> QED
  BY <1>1, TenantBodiesAssumption DEF IdleSession, Sessions, Ids

LEMMA FlushedType ==
  ASSUME TypeOK, NEW w \in Threads, sessions[w].tenant \in DOMAIN tenants
  PROVE  FlushedRow(w) \in Rows
<1> DEFINE s == sessions[w]
           new == FlushedRow(w)
<1>1. s \in Sessions /\ tenants[s.tenant] \in Rows
  BY DEF TypeOK
<1>2. s.held \in Rows
  BY <1>1 DEF Sessions
<1>3. \A c \in Columns : new[c] = s.held[c] \/ new[c] = tenants[s.tenant][c]
  BY DEF FlushedRow
<1>4. new = [c \in Columns |-> new[c]]
  BY DEF FlushedRow
<1> HIDE DEF new
<1>5. new["name"] \in Names /\ new["plan"] \in Plans
  BY <1>1, <1>2, <1>3, RowColumns DEF Columns
<1>6. new \in Rows
  BY <1>4, <1>5, RowType
<1> QED
  BY <1>6 DEF new

LEMMA SetSession ==
  ASSUME TypeOK, NEW w \in Threads, NEW s \in Sessions, Goto(w, s)
  PROVE  /\ sessions' \in [Threads -> Sessions]
         /\ sessions'[w] = s
         /\ \A v \in Threads \ {w} : sessions'[v] = sessions[v]
BY DEF TypeOK, Goto

LEMMA ArrivesType ==
  ASSUME TypeOK, NEW w \in Threads, Arrives(w)
  PROVE  requests' = requests + 1 /\ requests' \in Ids /\ requests \in Nat
BY TenantBodiesAssumption DEF TypeOK, Arrives, Ids

(* A step that only moves a session: tables and answers stay.              *)
LEMMA QuietType ==
  ASSUME TypeOK, sessions' \in [Threads -> Sessions], requests' \in Ids,
         answered' \subseteq Ids \X Emails, UNCHANGED tables
  PROVE  TypeOK'
BY DEF TypeOK, tables

LEMMA FailType ==
  ASSUME TypeOK, NEW w \in Threads, Fail(w)
  PROVE  TypeOK'
<1>1. Goto(w, IdleSession)
  BY DEF Fail
<1>2. sessions' \in [Threads -> Sessions]
  BY <1>1, IdleType, SetSession
<1> QED
  BY <1>2, QuietType DEF Fail, TypeOK

(* A session that only moves on.                                           *)
LEMMA MovedType ==
  ASSUME TypeOK, NEW w \in Threads, NEW pc \in {"idle", "insert", "commit", "refresh"},
         Goto(w, [sessions[w] EXCEPT !.pc = pc])
  PROVE  sessions' \in [Threads -> Sessions]
<1>1. [sessions[w] EXCEPT !.pc = pc] \in Sessions
  BY DEF TypeOK, Sessions
<1> QED
  BY <1>1, SetSession

LEMMA AfterCommitType ==
  ASSUME TypeOK, NEW w \in Threads, AfterCommit(w)
  PROVE  sessions' \in [Threads -> Sessions]
BY IdleType, SetSession, MovedType DEF AfterCommit

LEMMA RecordType ==
  ASSUME TypeOK, NEW w \in Threads,
         NEW action \in {"tenant.create", "tenant.update", "user.register"},
         NEW actor \in Emails \cup {"system"}, NEW meta \in SUBSET Rows,
         WriteAuditLog(w, action, actor, meta)
  PROVE  audit_logs' \subseteq AuditLogs
<1>1. sessions[w].number \in Ids /\ sessions[w].tenant \in Ids
  BY DEF TypeOK, Sessions
<1>2. AuditRow(sessions[w].number, sessions[w].tenant, action, actor, meta) \in AuditLogs
  BY <1>1 DEF AuditRow, AuditLogs
<1> QED
  BY <1>2 DEF TypeOK, WriteAuditLog

LEMMA InitType == Init => TypeOK
<1> SUFFICES ASSUME Init PROVE TypeOK
  OBVIOUS
<1>1. 0 \in Ids /\ FirstTenant \in Rows
  BY TenantBodiesAssumption DEF Ids
<1>2. AuditRow(0, 0, "tenant.create", "system", {FirstTenant}) \in AuditLogs
  BY <1>1 DEF AuditRow, AuditLogs
<1>3. DOMAIN tenants \subseteq Ids /\ \A t \in DOMAIN tenants : tenants[t] \in Rows
  BY <1>1 DEF Init
<1> QED
  BY <1>1, <1>2, <1>3, IdleType DEF Init, TypeOK

LEMMA NextType == TypeOK /\ [Next]_vars => TypeOK'
<1> SUFFICES ASSUME TypeOK, [Next]_vars PROVE TypeOK'
  OBVIOUS
<1>1. CASE UNCHANGED vars
  BY <1>1 DEF vars, tables, TypeOK
<1>2. ASSUME NEW w \in Threads, CreateTenant(w) PROVE TypeOK'
  <2>1. PICK row \in Creations :
          Request(w, [IdleSession EXCEPT !.pc = "commit", !.op = "create",
                                         !.tenant = requests + 1, !.held = row])
    BY <1>2 DEF CreateTenant
  <2>2. requests + 1 \in Ids /\ row \in Rows
    BY <2>1, ArrivesType, TenantBodiesAssumption DEF Request
  <2> DEFINE s == [[IdleSession EXCEPT !.pc = "commit", !.op = "create",
                      !.tenant = requests + 1, !.held = row] EXCEPT !.number = requests + 1]
  <2>3. s \in Sessions
    BY <2>2, IdleType DEF Sessions
  <2>4. Goto(w, s) /\ Arrives(w)
    BY <2>1 DEF Request
  <2> HIDE DEF s
  <2>5. sessions' \in [Threads -> Sessions] /\ requests' \in Ids
    BY <2>3, <2>4, SetSession, ArrivesType
  <2> QED
    BY <1>2, <2>5, QuietType DEF CreateTenant, TypeOK
<1>3. ASSUME NEW w \in Threads, CommitCreate(w) PROVE TypeOK'
  <2>1. sessions[w] \in Sessions /\ sessions[w].held \in Rows /\ sessions[w].tenant \in Ids
    BY DEF TypeOK, Sessions
  <2>2. audit_logs' \subseteq AuditLogs
    BY <1>3, <2>1, RecordType DEF CommitCreate
  <2>3. sessions' \in [Threads -> Sessions]
    BY <1>3, AfterCommitType DEF CommitCreate
  <2>4. DOMAIN tenants' \subseteq Ids /\ \A t \in DOMAIN tenants' : tenants'[t] \in Rows
    BY <1>3, <2>1 DEF CommitCreate, TypeOK
  <2> QED
    BY <1>3, <2>2, <2>3, <2>4 DEF CommitCreate, TypeOK
<1>4. ASSUME NEW w \in Threads, UpdateTenant(w) PROVE TypeOK'
  <2>1. PICK t \in DOMAIN tenants, set \in Patches :
          Request(w, [IdleSession EXCEPT
            !.pc = "commit", !.op = "update", !.tenant = t, !.set = DOMAIN set,
            !.seen = tenants[t],
            !.held = [c \in Columns |-> IF c \in DOMAIN set THEN set[c] ELSE tenants[t][c]]])
    BY <1>4 DEF UpdateTenant
  <2> DEFINE held == [c \in Columns |-> IF c \in DOMAIN set THEN set[c] ELSE tenants[t][c]]
             s == [[IdleSession EXCEPT !.pc = "commit", !.op = "update", !.tenant = t,
                      !.set = DOMAIN set, !.seen = tenants[t], !.held = held]
                     EXCEPT !.number = requests + 1]
  <2>2. requests + 1 \in Ids /\ t \in Ids /\ tenants[t] \in Rows /\ DOMAIN set \subseteq Columns
    BY <2>1, ArrivesType, TenantBodiesAssumption DEF Request, TypeOK
  <2>3. held \in Rows
    BY <2>2, PatchedType
  <2>4. Goto(w, s) /\ Arrives(w)
    BY <2>1 DEF Request
  <2> HIDE DEF held
  <2>5. s \in Sessions
    BY <2>2, <2>3, IdleType DEF Sessions
  <2> HIDE DEF s
  <2>6. sessions' \in [Threads -> Sessions] /\ requests' \in Ids
    BY <2>4, <2>5, SetSession, ArrivesType
  <2> QED
    BY <1>4, <2>6, QuietType DEF UpdateTenant, TypeOK
<1>5. ASSUME NEW w \in Threads, CommitUpdate(w) PROVE TypeOK'
  <2>1. CASE sessions[w].tenant \notin DOMAIN tenants
    BY <1>5, <2>1, FailType DEF CommitUpdate
  <2>2. CASE sessions[w].tenant \in DOMAIN tenants
    <3>1. sessions[w] \in Sessions /\ sessions[w].held \in Rows
      BY DEF TypeOK, Sessions
    <3>2. FlushedRow(w) \in Rows
      BY <2>2, FlushedType
    <3>3. audit_logs' \subseteq AuditLogs
      BY <1>5, <2>2, <3>1, RecordType DEF CommitUpdate
    <3>4. sessions' \in [Threads -> Sessions]
      BY <1>5, <2>2, AfterCommitType DEF CommitUpdate
    <3>5. DOMAIN tenants' \subseteq Ids /\ \A t \in DOMAIN tenants' : tenants'[t] \in Rows
      BY <1>5, <2>2, <3>2 DEF CommitUpdate, TypeOK
    <3> QED
      BY <1>5, <2>2, <3>3, <3>4, <3>5 DEF CommitUpdate, TypeOK
  <2> QED
    BY <2>1, <2>2
<1>6. ASSUME NEW w \in Threads, Refresh(w) PROVE TypeOK'
  <2>1. sessions' \in [Threads -> Sessions]
    BY <1>6, IdleType, SetSession DEF Refresh
  <2> QED
    BY <1>6, <2>1, QuietType DEF Refresh, TypeOK
<1>7. ASSUME NEW w \in Threads, Register(w) PROVE TypeOK'
  <2>1. PICK t \in DOMAIN tenants, spelling \in Spellings :
          LET email == NormalizeEmail(spelling) IN
          /\ \/ /\ Registered(t, email)
                /\ Arrives(w) /\ UNCHANGED sessions
                /\ answered' = answered \cup {<<t, email>>}
             \/ /\ ~Registered(t, email)
                /\ Request(w, [IdleSession EXCEPT !.pc = "insert", !.op = "register",
                                                  !.tenant = t, !.email = email])
                /\ UNCHANGED answered
          /\ UNCHANGED tables
    BY <1>7 DEF Register
  <2> DEFINE email == NormalizeEmail(spelling)
             s == [[IdleSession EXCEPT !.pc = "insert", !.op = "register", !.tenant = t,
                                       !.email = email] EXCEPT !.number = requests + 1]
  <2>2. email \in Emails /\ t \in Ids
    BY TenantBodiesAssumption DEF NormalizeEmail, TypeOK
  <2>3. Arrives(w) /\ requests' \in Ids /\ requests + 1 \in Ids
    BY <2>1, ArrivesType DEF Request
  <2>4. s \in Sessions
    <3> HIDE DEF email
    <3> QED
      BY <2>2, <2>3, IdleType DEF Sessions
  <2>5. UNCHANGED sessions \/ Goto(w, s)
    BY <2>1 DEF Request
  <2> HIDE DEF s
  <2>6. sessions' \in [Threads -> Sessions]
    BY <2>4, <2>5, SetSession DEF TypeOK
  <2>7. answered' \subseteq Ids \X Emails
    BY <2>1, <2>2 DEF TypeOK
  <2> QED
    BY <2>1, <2>3, <2>6, <2>7, QuietType
<1>8. ASSUME NEW w \in Threads, InsertUser(w) PROVE TypeOK'
  <2>1. CASE Fail(w)
    BY <2>1, FailType
  <2>2. CASE Goto(w, [sessions[w] EXCEPT !.pc = "commit"]) /\ UNCHANGED <<tables, answered, requests>>
    BY <2>2, MovedType, QuietType DEF TypeOK
  <2> QED
    BY <1>8, <2>1, <2>2 DEF InsertUser
<1>9. ASSUME NEW w \in Threads, CommitRegister(w) PROVE TypeOK'
  <2>1. /\ sessions[w].email \in Emails /\ sessions[w].tenant \in Ids
        /\ sessions[w].number \in Ids
    BY DEF TypeOK, Sessions
  <2>2. audit_logs' \subseteq AuditLogs
    BY <1>9, <2>1, RecordType DEF CommitRegister
  <2>3. sessions' \in [Threads -> Sessions]
    BY <1>9, IdleType, SetSession DEF CommitRegister
  <2>4. users' \subseteq Users
    BY <1>9, <2>1 DEF CommitRegister, TypeOK, Users
  <2>5. answered' \subseteq Ids \X Emails
    BY <1>9, <2>1 DEF CommitRegister, TypeOK
  <2> QED
    BY <1>9, <2>2, <2>3, <2>4, <2>5 DEF CommitRegister, TypeOK
<1>10. ASSUME NEW w \in Threads, DeleteTenant(w) PROVE TypeOK'
  <2>1. PICK t \in DOMAIN tenants :
          Request(w, [IdleSession EXCEPT !.pc = "commit", !.op = "delete", !.tenant = t])
    BY <1>10 DEF DeleteTenant
  <2> DEFINE s == [[IdleSession EXCEPT !.pc = "commit", !.op = "delete", !.tenant = t]
                     EXCEPT !.number = requests + 1]
  <2>2. requests + 1 \in Ids /\ t \in Ids
    BY <2>1, ArrivesType DEF Request, TypeOK
  <2>3. s \in Sessions
    BY <2>2, IdleType DEF Sessions
  <2>4. Goto(w, s) /\ Arrives(w)
    BY <2>1 DEF Request
  <2> HIDE DEF s
  <2>5. sessions' \in [Threads -> Sessions] /\ requests' \in Ids
    BY <2>3, <2>4, SetSession, ArrivesType
  <2> QED
    BY <1>10, <2>5, QuietType DEF DeleteTenant, TypeOK
<1>11. ASSUME NEW w \in Threads, CommitDelete(w) PROVE TypeOK'
  <2>1. CASE Fail(w)
    BY <2>1, FailType
  <2>2. CASE ~Fail(w)
    <3>1. sessions' \in [Threads -> Sessions]
      BY <1>11, <2>2, IdleType, SetSession DEF CommitDelete
    <3> QED
      BY <1>11, <2>2, <3>1 DEF CommitDelete, TypeOK
  <2> QED
    BY <2>1, <2>2
<1>12. ASSUME NEW w \in Threads, DatabaseError(w) PROVE TypeOK'
  BY <1>12, FailType DEF DatabaseError
<1> QED
  BY <1>1, <1>2, <1>3, <1>4, <1>5, <1>6, <1>7, <1>8, <1>9, <1>10, <1>11, <1>12 DEF Next

(* Every variable has its type.                                            *)
THEOREM TypeCorrect == Spec => []TypeOK
BY InitType, NextType, PTL DEF Spec

-----------------------------------------------------------------------------
(* What one step does: who moves, and what may be new in the tables.       *)

(* A request goes on, or ends.                                             *)
GoesOn(w) ==
  /\ requests' = requests
  /\ \/ sessions'[w] = IdleSession
     \/ sessions[w].pc = "insert" /\ sessions'[w] = [sessions[w] EXCEPT !.pc = "commit"]
     \/ sessions[w].pc = "commit" /\ sessions'[w] = [sessions[w] EXCEPT !.pc = "refresh"]

(* A request arrives, and is answered at once or gets a session.           *)
Begins(w) ==
  /\ requests' = requests + 1 /\ sessions[w].pc = "idle"
  /\ \/ sessions'[w] = sessions[w]
     \/ /\ sessions'[w].number = requests + 1
        /\ sessions'[w].pc \in {"insert", "commit"}
        /\ sessions'[w].op = "create" => sessions'[w].tenant = requests + 1
        /\ sessions'[w].op = "register" => sessions'[w].pc = "insert"
        /\ sessions'[w].op = "update" =>
             \A c \in Columns \ sessions'[w].set : sessions'[w].held[c] = sessions'[w].seen[c]

Others(w) == \A v \in Threads \ {w} : sessions'[v] = sessions[v]

(* The columns of a session that moves on.                                 *)
LEMMA MovedOn ==
  ASSUME TypeOK, NEW w \in Threads, NEW pc, sessions'[w] = [sessions[w] EXCEPT !.pc = pc]
  PROVE  /\ sessions'[w].pc = pc /\ sessions'[w].number = sessions[w].number
         /\ sessions'[w].op = sessions[w].op /\ sessions'[w].tenant = sessions[w].tenant
         /\ sessions'[w].email = sessions[w].email /\ sessions'[w].set = sessions[w].set
         /\ sessions'[w].held = sessions[w].held /\ sessions'[w].seen = sessions[w].seen
BY DEF TypeOK, Sessions

LEMMA GotoOthers ==
  ASSUME TypeOK, NEW w \in Threads, NEW s, Goto(w, s)
  PROVE  sessions'[w] = s /\ Others(w)
BY DEF TypeOK, Goto, Others

LEMMA FailMoves ==
  ASSUME TypeOK, NEW w \in Threads, Fail(w)
  PROVE  GoesOn(w) /\ Others(w) /\ sessions'[w] = IdleSession
BY GotoOthers DEF Fail, GoesOn

LEMMA AfterCommitMoves ==
  ASSUME TypeOK, NEW w \in Threads, AfterCommit(w), sessions[w].pc = "commit", requests' = requests
  PROVE  /\ GoesOn(w) /\ Others(w)
         /\ sessions'[w] = IdleSession \/ sessions'[w] = [sessions[w] EXCEPT !.pc = "refresh"]
<1>1. CASE Goto(w, IdleSession)
  BY <1>1, GotoOthers DEF GoesOn
<1>2. CASE Goto(w, [sessions[w] EXCEPT !.pc = "refresh"])
  BY <1>2, GotoOthers DEF GoesOn
<1> QED
  BY <1>1, <1>2 DEF AfterCommit

LEMMA IdleFields == IdleSession.pc = "idle" /\ IdleSession.op = "create" /\ IdleSession.number = 0
BY DEF IdleSession

(* The session of a new request.                                           *)
LEMMA NewSession ==
  ASSUME TypeOK, NEW w \in Threads, NEW s \in Sessions, Request(w, s)
  PROVE  /\ requests' = requests + 1 /\ sessions[w].pc = "idle" /\ Others(w)
         /\ sessions'[w].number = requests + 1
         /\ sessions'[w].pc = s.pc /\ sessions'[w].op = s.op /\ sessions'[w].tenant = s.tenant
         /\ sessions'[w].set = s.set /\ sessions'[w].seen = s.seen
         /\ sessions'[w].held = s.held /\ sessions'[w].email = s.email
<1>1. sessions'[w] = [s EXCEPT !.number = requests + 1] /\ Others(w)
  BY GotoOthers DEF Request
<1> QED
  BY <1>1 DEF Request, Arrives, Sessions

(* The requests that begin.                                                *)
LEMMA BeginsCreate ==
  ASSUME TypeOK, NEW w \in Threads, CreateTenant(w)
  PROVE  Begins(w) /\ Others(w) /\ sessions'[w].op = "create"
<1>1. PICK row \in Creations :
        Request(w, [IdleSession EXCEPT !.pc = "commit", !.op = "create",
                                       !.tenant = requests + 1, !.held = row])
  BY DEF CreateTenant
<1> DEFINE s == [IdleSession EXCEPT !.pc = "commit", !.op = "create",
                                    !.tenant = requests + 1, !.held = row]
<1>2. requests + 1 \in Ids /\ row \in Rows
  BY <1>1, ArrivesType, TenantBodiesAssumption DEF Request
<1>3. s \in Sessions /\ s.op = "create" /\ s.pc = "commit" /\ s.tenant = requests + 1
  BY <1>2, IdleType DEF Sessions
<1>4. Request(w, s)
  BY <1>1
<1> HIDE DEF s
<1> QED
  BY <1>3, <1>4, NewSession DEF Begins

LEMMA BeginsDelete ==
  ASSUME TypeOK, NEW w \in Threads, DeleteTenant(w)
  PROVE  Begins(w) /\ Others(w) /\ sessions'[w].op = "delete"
<1>1. PICK t \in DOMAIN tenants :
        Request(w, [IdleSession EXCEPT !.pc = "commit", !.op = "delete", !.tenant = t])
  BY DEF DeleteTenant
<1> DEFINE s == [IdleSession EXCEPT !.pc = "commit", !.op = "delete", !.tenant = t]
<1>2. s \in Sessions /\ s.op = "delete" /\ s.pc = "commit"
  BY IdleType DEF Sessions, TypeOK
<1>3. Request(w, s)
  BY <1>1
<1> HIDE DEF s
<1> QED
  BY <1>2, <1>3, NewSession DEF Begins

LEMMA BeginsUpdate ==
  ASSUME TypeOK, NEW w \in Threads, UpdateTenant(w)
  PROVE  Begins(w) /\ Others(w) /\ sessions'[w].op = "update"
<1>1. PICK t \in DOMAIN tenants, set \in Patches :
        Request(w, [IdleSession EXCEPT
          !.pc = "commit", !.op = "update", !.tenant = t, !.set = DOMAIN set,
          !.seen = tenants[t],
          !.held = [c \in Columns |-> IF c \in DOMAIN set THEN set[c] ELSE tenants[t][c]]])
  BY DEF UpdateTenant
<1> DEFINE held == [c \in Columns |-> IF c \in DOMAIN set THEN set[c] ELSE tenants[t][c]]
           s == [IdleSession EXCEPT !.pc = "commit", !.op = "update", !.tenant = t,
                   !.set = DOMAIN set, !.seen = tenants[t], !.held = held]
<1>2. t \in Ids /\ tenants[t] \in Rows /\ DOMAIN set \subseteq Columns
  BY TenantBodiesAssumption DEF TypeOK
<1>3. held \in Rows
  BY <1>2, PatchedType
<1>4. \A c \in Columns \ DOMAIN set : held[c] = tenants[t][c]
  OBVIOUS
<1>5. Request(w, s)
  BY <1>1
<1> HIDE DEF held
<1>6. /\ s \in Sessions /\ s.op = "update" /\ s.pc = "commit"
      /\ s.set = DOMAIN set /\ s.held = held /\ s.seen = tenants[t]
  BY <1>2, <1>3, IdleType DEF Sessions
<1> HIDE DEF s
<1> QED
  BY <1>4, <1>5, <1>6, NewSession DEF Begins

LEMMA BeginsRegister ==
  ASSUME TypeOK, NEW w \in Threads, Register(w)
  PROVE  /\ Begins(w) /\ Others(w) /\ UNCHANGED tables
         /\ sessions'[w] = sessions[w] \/ sessions'[w].op = "register"
         /\ \A k \in answered' :
              k \in answered \/ (k[1] \in DOMAIN tenants /\ Registered(k[1], k[2]))
         /\ answered \subseteq answered'
<1>1. PICK t \in DOMAIN tenants, spelling \in Spellings :
        LET email == NormalizeEmail(spelling) IN
        /\ \/ /\ Registered(t, email)
              /\ Arrives(w) /\ UNCHANGED sessions
              /\ answered' = answered \cup {<<t, email>>}
           \/ /\ ~Registered(t, email)
              /\ Request(w, [IdleSession EXCEPT !.pc = "insert", !.op = "register",
                                                !.tenant = t, !.email = email])
              /\ UNCHANGED answered
        /\ UNCHANGED tables
  BY DEF Register
<1> DEFINE email == NormalizeEmail(spelling)
           s == [IdleSession EXCEPT !.pc = "insert", !.op = "register", !.tenant = t,
                                    !.email = email]
<1>2. email \in Emails /\ t \in Ids
  BY TenantBodiesAssumption DEF NormalizeEmail, TypeOK
<1>3. CASE /\ Registered(t, email) /\ Arrives(w) /\ UNCHANGED sessions
           /\ answered' = answered \cup {<<t, email>>}
  BY <1>1, <1>3 DEF Begins, Others, Arrives
<1>4. CASE Request(w, s) /\ UNCHANGED answered
  <2> HIDE DEF email
  <2>1. s \in Sessions /\ s.op = "register" /\ s.pc = "insert"
    BY <1>2, IdleType DEF Sessions
  <2>2. Request(w, s)
    BY <1>4
  <2> HIDE DEF s
  <2> QED
    BY <1>1, <1>4, <2>1, <2>2, NewSession DEF Begins
<1> QED
  BY <1>1, <1>3, <1>4

(* The requests that go on without a change of the tables.                 *)
Waits(w) == Refresh(w) \/ InsertUser(w) \/ DatabaseError(w) \/ Fail(w)

LEMMA WaitsMove ==
  ASSUME TypeOK, NEW w \in Threads, Waits(w)
  PROVE  /\ GoesOn(w) /\ Others(w) /\ UNCHANGED <<tables, answered>>
         /\ \/ sessions'[w] = IdleSession
            \/ /\ sessions[w].pc = "insert" /\ ~InDoubt(w)
               /\ sessions[w].tenant \in DOMAIN tenants
               /\ ~Registered(sessions[w].tenant, sessions[w].email)
               /\ sessions'[w] = [sessions[w] EXCEPT !.pc = "commit"]
<1>1. CASE Fail(w)
  BY <1>1, FailMoves DEF Fail
<1>2. CASE Refresh(w)
  BY <1>2, GotoOthers DEF Refresh, GoesOn
<1>3. CASE InsertUser(w) /\ ~Fail(w)
  BY <1>3, GotoOthers DEF InsertUser, GoesOn
<1> QED
  BY <1>1, <1>2, <1>3 DEF Waits, DatabaseError

(* A commit writes one record, with the number of the request, which ends  *)
(* or is left with its refresh.                                            *)
Writes(w) == CommitCreate(w) \/ (CommitUpdate(w) /\ ~Fail(w)) \/ CommitRegister(w)

LEMMA WritesMove ==
  ASSUME TypeOK, PendingInv, NEW w \in Threads, Writes(w)
  PROVE  /\ GoesOn(w) /\ Others(w) /\ sessions[w].pc = "commit"
         /\ sessions'[w] = IdleSession \/ sessions'[w] = [sessions[w] EXCEPT !.pc = "refresh"]
         /\ \E action, actor, meta : WriteAuditLog(w, action, actor, meta)
         /\ \A t \in DOMAIN tenants' :
              t \in DOMAIN tenants \/ (sessions[w].op = "create" /\ t = sessions[w].tenant)
         /\ \A t \in DOMAIN tenants : t \in DOMAIN tenants'
         /\ \A k \in answered' : k \in answered \/ k[1] \in DOMAIN tenants
<1>1. CASE CommitCreate(w)
  <2>1. sessions[w].pc = "commit" /\ requests' = requests /\ AfterCommit(w)
    BY <1>1 DEF CommitCreate
  <2> QED
    BY <1>1, <2>1, AfterCommitMoves DEF CommitCreate
<1>2. CASE CommitUpdate(w) /\ ~Fail(w)
  <2>1. sessions[w].pc = "commit" /\ requests' = requests /\ AfterCommit(w)
    BY <1>2 DEF CommitUpdate
  <2> QED
    BY <1>2, <2>1, AfterCommitMoves DEF CommitUpdate
<1>3. CASE CommitRegister(w)
  <2>1. Goto(w, IdleSession)
    BY <1>3 DEF CommitRegister
  <2>2. sessions[w].tenant \in DOMAIN tenants /\ sessions[w].pc = "commit"
    BY <1>3 DEF CommitRegister, PendingInv, Pending
  <2>3. \A k \in answered' : k \in answered \/ k[1] \in DOMAIN tenants
    BY <1>3, <2>2 DEF CommitRegister
  <2> QED
    BY <1>3, <2>1, <2>2, <2>3, GotoOthers DEF CommitRegister, GoesOn
<1> QED
  BY <1>1, <1>2, <1>3 DEF Writes

LEMMA RemovesMove ==
  ASSUME TypeOK, NEW w \in Threads, CommitDelete(w), ~Fail(w)
  PROVE  /\ GoesOn(w) /\ Others(w) /\ sessions'[w] = IdleSession /\ UNCHANGED answered
         /\ DOMAIN tenants' = DOMAIN tenants \ {sessions[w].tenant}
         /\ \A v \in Threads : Pending(v) => sessions[v].tenant # sessions[w].tenant
         /\ \A t \in DOMAIN tenants' : tenants'[t] = tenants[t]
         /\ users' = {u \in users : u.tenant_id # sessions[w].tenant}
         /\ audit_logs' = {a \in audit_logs : a.tenant_id # sessions[w].tenant}
BY GotoOthers DEF CommitDelete, GoesOn

(* Every step is of one of these kinds.                                    *)
LEMMA Kinds ==
  ASSUME TypeOK, Next
  PROVE  \E w \in Threads :
           \/ CreateTenant(w) \/ UpdateTenant(w) \/ DeleteTenant(w) \/ Register(w)
           \/ Waits(w) \/ Writes(w) \/ (CommitDelete(w) /\ ~Fail(w))
BY DEF Next, Waits, Writes

-----------------------------------------------------------------------------
(* The numbers of requests.                                                *)

LEMMA NumberOf ==
  ASSUME TypeOK, NumbersInv, NEW w \in Threads
  PROVE  requests \in Nat /\ sessions[w].number \in Nat /\ sessions[w].number <= requests
BY TenantBodiesAssumption DEF TypeOK, Sessions, Ids, NumbersInv

(* What NumbersInv says of one session.                                    *)
Numbered(w) ==
  /\ sessions[w].pc = "idle" => sessions[w].number = 0
  /\ sessions[w].pc # "idle" =>
       /\ sessions[w].number \in 1..requests
       /\ sessions[w].pc # "refresh" =>
            \A a \in audit_logs : a.id # sessions[w].number
       /\ sessions[w].op = "create" =>
            sessions[w].tenant = sessions[w].number
       /\ sessions[w].op = "create" /\ sessions[w].pc # "refresh" =>
            /\ sessions[w].tenant \notin DOMAIN tenants
            /\ \A k \in answered : k[1] # sessions[w].tenant

Distinct(v, w) == v # w /\ sessions[v].pc # "idle" => sessions[v].number # sessions[w].number

TablesNumbered ==
  /\ \A a \in audit_logs : a.id <= requests
  /\ DOMAIN tenants \subseteq 0..requests
  /\ \A k \in answered : k[1] <= requests

LEMMA NumbersParts ==
  NumbersInv <=> /\ \A w \in Threads : Numbered(w)
                 /\ \A v, w \in Threads : Distinct(v, w)
                 /\ TablesNumbered
BY DEF NumbersInv, Numbered, Distinct, TablesNumbered

LEMMA DistinctStep ==
  ASSUME TypeOK, NumbersInv, NEW w \in Threads, GoesOn(w) \/ Begins(w), Others(w)
  PROVE  \A u, v \in Threads : Distinct(u, v)'
<1> SUFFICES ASSUME NEW u \in Threads, NEW v \in Threads, u # v, sessions'[u].pc # "idle"
             PROVE  sessions'[u].number # sessions'[v].number
  BY DEF Distinct
<1>1. \A x \in Threads : /\ requests \in Nat /\ sessions[x].number \in Nat
                         /\ sessions[x].number <= requests
  BY NumberOf
<1>2. \A x, y \in Threads : Distinct(x, y)
  BY NumbersParts
<1>3. \A x \in Threads : sessions[x].pc = "idle" => sessions[x].number = 0
  BY DEF NumbersInv
<1>4. \A x \in Threads : sessions[x].pc # "idle" => sessions[x].number # 0
  BY <1>1 DEF NumbersInv
<1>5. CASE u # w /\ v # w
  BY <1>2, <1>5 DEF Others, Distinct
<1>6. CASE GoesOn(w) /\ (u = w \/ v = w)
  <2>1. CASE sessions'[w] = IdleSession
    BY <1>4, <1>6, <2>1, IdleFields DEF Others
  <2>2. CASE sessions'[w].number = sessions[w].number /\ sessions[w].pc # "idle"
    BY <1>2, <1>6, <2>2 DEF Others, Distinct
  <2> QED
    BY <1>6, <2>1, <2>2, MovedOn DEF GoesOn
<1>7. CASE Begins(w) /\ (u = w \/ v = w)
  <2>1. CASE sessions'[w] = sessions[w]
    BY <1>2, <1>7, <2>1 DEF Others, Distinct
  <2>2. CASE sessions'[w].number = requests + 1
    BY <1>1, <1>7, <2>2 DEF Others
  <2> QED
    BY <1>7, <2>1, <2>2 DEF Begins
<1> QED
  BY <1>5, <1>6, <1>7

(* Where a step leaves the session that it moves.                          *)
LEMMA NumberStep ==
  ASSUME TypeOK, NumbersInv, NEW w \in Threads, GoesOn(w) \/ Begins(w)
  PROVE  /\ sessions'[w].pc = "idle" => sessions'[w].number = 0
         /\ sessions'[w].pc # "idle" => sessions'[w].number \in 1..requests'
         /\ sessions'[w].pc # "idle" /\ sessions'[w].op = "create" =>
              sessions'[w].tenant = sessions'[w].number
         /\ requests' \in Nat /\ requests <= requests'
<1>1. requests \in Nat /\ Numbered(w)
  BY NumberOf, NumbersParts
<1>2. CASE sessions'[w] = IdleSession /\ requests' = requests
  BY <1>1, <1>2, IdleFields
<1>3. CASE /\ requests' = requests /\ sessions[w].pc \in {"insert", "commit"}
           /\ \E pc \in {"commit", "refresh"} : sessions'[w] = [sessions[w] EXCEPT !.pc = pc]
  BY <1>1, <1>3, MovedOn DEF Numbered
<1>4. CASE Begins(w) /\ sessions'[w] = sessions[w]
  BY <1>1, <1>4 DEF Begins, Numbered
<1>5. CASE Begins(w) /\ sessions'[w] # sessions[w]
  BY <1>1, <1>5 DEF Begins
<1> QED
  BY <1>2, <1>3, <1>4, <1>5 DEF GoesOn

LEMMA NumbersQuiet ==
  ASSUME TypeOK, NumbersInv, NEW w \in Threads, GoesOn(w) \/ Begins(w), Others(w),
         UNCHANGED <<tenants, audit_logs>>,
         \A k \in answered' : k \in answered \/ k[1] \in DOMAIN tenants
  PROVE  NumbersInv'
<1>1. \A u, v \in Threads : Distinct(u, v)'
  BY DistinctStep
<1>2. TablesNumbered /\ \A v \in Threads : Numbered(v)
  BY NumbersParts
<1>3. requests \in Nat /\ requests' \in Nat /\ requests <= requests'
  BY NumberOf, NumberStep
<1>4. TablesNumbered'
  <2>1. \A a \in audit_logs : a.id \in Nat
    BY DEF TypeOK, AuditLogs, Ids
  <2>2. \A k \in answered : k[1] \in Nat
    BY DEF TypeOK, Ids
  <2>3. \A t \in DOMAIN tenants : t \in Nat /\ t <= requests
    BY <1>2, <1>3 DEF TablesNumbered
  <2>4. \A k \in answered' : k[1] <= requests'
    BY <1>2, <1>3, <2>2, <2>3 DEF TablesNumbered
  <2> QED
    BY <1>2, <1>3, <2>1, <2>3, <2>4 DEF TablesNumbered
<1>5. ASSUME NEW v \in Threads PROVE Numbered(v)'
  <2>1. CASE v # w
    BY <1>2, <1>3, <2>1 DEF Numbered, Others
  <2>2. CASE v = w /\ sessions'[w] = IdleSession
    BY <2>2, IdleFields DEF Numbered
  <2>3. CASE v = w /\ sessions'[w] = sessions[w] /\ requests' = requests + 1
    BY <1>2, <1>3, <2>3 DEF Numbered
  <2>4. CASE v = w /\ GoesOn(w) /\ sessions'[w] # IdleSession
    <3>1. /\ sessions[w].pc \in {"insert", "commit"} /\ requests' = requests
          /\ sessions'[w].number = sessions[w].number /\ sessions'[w].op = sessions[w].op
          /\ sessions'[w].tenant = sessions[w].tenant /\ sessions'[w].pc # "idle"
      BY <2>4, MovedOn DEF GoesOn
    <3>2. Numbered(w)
      BY <1>2
    <3> QED
      BY <2>4, <3>1, <3>2 DEF Numbered
  <2>5. CASE v = w /\ Begins(w) /\ sessions'[w] # sessions[w]
    <3>1. /\ sessions'[w].number = requests + 1 /\ sessions'[w].pc \in {"insert", "commit"}
          /\ sessions'[w].op = "create" => sessions'[w].tenant = requests + 1
          /\ requests' = requests + 1
      BY <2>5 DEF Begins
    <3>2. \A a \in audit_logs' : a.id # requests + 1
      <4>1. \A a \in audit_logs : a.id \in Nat
        BY DEF TypeOK, AuditLogs, Ids
      <4> QED
        BY <1>2, <1>3, <4>1 DEF TablesNumbered
    <3>3. \A t \in DOMAIN tenants : t \in 0..requests
      BY <1>2 DEF TablesNumbered
    <3>4. \A k \in answered' : k[1] # requests + 1
      <4>1. \A k \in answered : k[1] \in Nat
        BY DEF TypeOK, Ids
      <4> QED
        BY <1>2, <1>3, <3>3, <4>1 DEF TablesNumbered
    <3> QED
      BY <1>3, <2>5, <3>1, <3>2, <3>3, <3>4 DEF Numbered
  <2> QED
    BY <2>1, <2>2, <2>3, <2>4, <2>5 DEF Begins
<1> QED
  BY <1>1, <1>4, <1>5 DEF NumbersInv, Numbered, Distinct, TablesNumbered

LEMMA NumbersWrites ==
  ASSUME TypeOK, NumbersInv, PendingInv, NEW w \in Threads, Writes(w)
  PROVE  NumbersInv'
<1>1. /\ GoesOn(w) /\ Others(w) /\ sessions[w].pc = "commit"
      /\ sessions'[w] = IdleSession \/ sessions'[w] = [sessions[w] EXCEPT !.pc = "refresh"]
      /\ \A t \in DOMAIN tenants' :
           t \in DOMAIN tenants \/ (sessions[w].op = "create" /\ t = sessions[w].tenant)
      /\ \A k \in answered' : k \in answered \/ k[1] \in DOMAIN tenants
  BY WritesMove
<1>2. \A a \in audit_logs' : a \in audit_logs \/ a.id = sessions[w].number
  <2>1. PICK action, actor, meta : WriteAuditLog(w, action, actor, meta)
    BY WritesMove
  <2> QED
    BY <2>1 DEF WriteAuditLog, AuditRow
<1>3. TablesNumbered /\ \A v \in Threads : Numbered(v)
  BY NumbersParts
<1>4. requests \in Nat /\ requests' = requests
  BY <1>1, NumberOf DEF GoesOn
<1>5. TablesNumbered'
  <2>1. /\ sessions[w].number \in 1..requests
        /\ sessions[w].op = "create" => sessions[w].tenant = sessions[w].number
    BY <1>1, <1>3 DEF Numbered
  <2>2. \A t \in DOMAIN tenants' : t \in 0..requests
    BY <1>1, <1>3, <1>4, <2>1 DEF TablesNumbered
  <2>3. \A k \in answered' : k[1] <= requests
    BY <1>1, <1>3, <1>4 DEF TablesNumbered
  <2> QED
    BY <1>2, <1>3, <1>4, <2>1, <2>2, <2>3 DEF TablesNumbered
<1>6. ASSUME NEW v \in Threads PROVE Numbered(v)'
  <2>1. CASE v # w
    <3>1. sessions'[v] = sessions[v] /\ Numbered(v) /\ Numbered(w) /\ Distinct(v, w)
      BY <1>1, <1>3, <2>1, NumbersParts DEF Others
    <3> QED
      BY <1>1, <1>2, <1>4, <2>1, <3>1 DEF Numbered, Distinct
  <2>2. CASE v = w /\ sessions'[w] = IdleSession
    BY <2>2, IdleFields DEF Numbered
  <2>3. CASE v = w /\ sessions'[w] = [sessions[w] EXCEPT !.pc = "refresh"]
    <3>1. /\ sessions'[w].pc = "refresh" /\ sessions'[w].number = sessions[w].number
          /\ sessions'[w].op = sessions[w].op /\ sessions'[w].tenant = sessions[w].tenant
      BY <2>3, MovedOn
    <3> QED
      BY <1>1, <1>3, <1>4, <2>3, <3>1 DEF Numbered
  <2> QED
    BY <1>1, <2>1, <2>2, <2>3
<1>7. \A u, v \in Threads : Distinct(u, v)'
  BY <1>1, DistinctStep
<1> QED
  BY <1>5, <1>6, <1>7 DEF NumbersInv, Numbered, Distinct, TablesNumbered

LEMMA NumbersRemoves ==
  ASSUME TypeOK, NumbersInv, NEW w \in Threads, CommitDelete(w), ~Fail(w)
  PROVE  NumbersInv'
<1>1. /\ GoesOn(w) /\ Others(w) /\ sessions'[w] = IdleSession /\ UNCHANGED answered
      /\ DOMAIN tenants' = DOMAIN tenants \ {sessions[w].tenant}
      /\ audit_logs' = {a \in audit_logs : a.tenant_id # sessions[w].tenant}
  BY RemovesMove
<1>2. TablesNumbered /\ (\A v \in Threads : Numbered(v)) /\ requests' = requests
  BY <1>1, IdleFields, NumbersParts DEF GoesOn
<1>3. TablesNumbered'
  BY <1>1, <1>2 DEF TablesNumbered
<1>4. ASSUME NEW v \in Threads PROVE Numbered(v)'
  BY <1>1, <1>2, IdleFields DEF Numbered, Others
<1>5. \A u, v \in Threads : Distinct(u, v)'
  BY <1>1, DistinctStep
<1> QED
  BY <1>3, <1>4, <1>5 DEF NumbersInv, Numbered, Distinct, TablesNumbered

LEMMA NumbersNext ==
  ASSUME TypeOK, NumbersInv, PendingInv, [Next]_vars
  PROVE  NumbersInv'
<1>1. CASE UNCHANGED vars
  BY <1>1 DEF vars, tables, NumbersInv
<1>2. CASE Next
  <2>1. PICK w \in Threads :
           \/ CreateTenant(w) \/ UpdateTenant(w) \/ DeleteTenant(w) \/ Register(w)
           \/ Waits(w) \/ Writes(w) \/ (CommitDelete(w) /\ ~Fail(w))
    BY <1>2, Kinds
  <2>2. CASE CreateTenant(w)
    BY <2>2, BeginsCreate, NumbersQuiet DEF CreateTenant, tables
  <2>3. CASE UpdateTenant(w)
    BY <2>3, BeginsUpdate, NumbersQuiet DEF UpdateTenant, tables
  <2>4. CASE DeleteTenant(w)
    BY <2>4, BeginsDelete, NumbersQuiet DEF DeleteTenant, tables
  <2>5. CASE Register(w)
    <3>1. /\ Begins(w) /\ Others(w) /\ UNCHANGED <<tenants, audit_logs>>
          /\ \A k \in answered' : k \in answered \/ k[1] \in DOMAIN tenants
      BY <2>5, BeginsRegister DEF tables
    <3> QED
      BY <3>1, NumbersQuiet
  <2>6. CASE Waits(w)
    BY <2>6, WaitsMove, NumbersQuiet DEF tables
  <2>7. CASE Writes(w)
    BY <2>7, NumbersWrites
  <2>8. CASE CommitDelete(w) /\ ~Fail(w)
    BY <2>8, NumbersRemoves
  <2> QED
    BY <2>1, <2>2, <2>3, <2>4, <2>5, <2>6, <2>7, <2>8
<1> QED
  BY <1>1, <1>2

-----------------------------------------------------------------------------
(* Users that are flushed and not committed, and the columns updates hold. *)

Same(v, w) ==
  sessions[v].tenant = sessions[w].tenant /\ sessions[v].email = sessions[w].email

LEMMA PendingKept ==
  ASSUME TypeOK, PendingInv, NEW w \in Threads, Others(w), ~Pending(w)',
         \A v \in Threads \ {w} : Pending(v) => sessions[v].tenant \in DOMAIN tenants',
         \A u \in users' : u \in users \/ (/\ Pending(w) /\ u.tenant_id = sessions[w].tenant
                                          /\ u.email = sessions[w].email)
  PROVE  PendingInv'
<1> SUFFICES ASSUME NEW v \in Threads, Pending(v)'
             PROVE  /\ sessions'[v].tenant \in DOMAIN tenants'
                    /\ ~Registered(sessions[v].tenant, sessions[v].email)'
                    /\ ~InDoubt(v)'
  BY DEF PendingInv
<1>1. v # w /\ sessions'[v] = sessions[v] /\ Pending(v)
  BY DEF Others, Pending
<1>2. ~Registered(sessions[v].tenant, sessions[v].email) /\ ~InDoubt(v)
  BY <1>1 DEF PendingInv
<1>3. ~(Pending(w) /\ Same(w, v))
  BY <1>1, <1>2 DEF InDoubt, Same
<1>4. ~Registered(sessions[v].tenant, sessions[v].email)'
  <2> SUFFICES ASSUME NEW u \in users', u.tenant_id = sessions[v].tenant, u.email = sessions[v].email
               PROVE  FALSE
    BY <1>1 DEF Registered
  <2> QED
    BY <1>2, <1>3 DEF Registered, Same
<1>5. ~InDoubt(v)'
  <2> SUFFICES ASSUME NEW u \in Threads \ {v}, Pending(u)', Same(u, v)'
               PROVE  FALSE
    BY DEF InDoubt, Same
  <2>1. u # w /\ sessions'[u] = sessions[u] /\ Pending(u)
    BY DEF Others, Pending
  <2> QED
    BY <1>1, <1>2, <2>1 DEF InDoubt, Same
<1> QED
  BY <1>1, <1>4, <1>5

LEMMA NotPending ==
  ASSUME TypeOK, NEW w \in Threads,
         \/ Begins(w)
         \/ sessions'[w] = IdleSession
         \/ sessions'[w] = [sessions[w] EXCEPT !.pc = "refresh"]
  PROVE  ~Pending(w)'
<1>1. CASE Begins(w)
  BY <1>1 DEF Begins, Pending
<1>2. CASE sessions'[w] = IdleSession
  BY <1>2, IdleFields DEF Pending
<1>3. CASE sessions'[w] = [sessions[w] EXCEPT !.pc = "refresh"]
  BY <1>3, MovedOn DEF Pending
<1> QED
  BY <1>1, <1>2, <1>3

LEMMA PendingInserts ==
  ASSUME TypeOK, PendingInv, NEW w \in Threads, Others(w), UNCHANGED tables,
         sessions[w].pc = "insert", ~InDoubt(w), sessions[w].tenant \in DOMAIN tenants,
         ~Registered(sessions[w].tenant, sessions[w].email),
         sessions'[w] = [sessions[w] EXCEPT !.pc = "commit"]
  PROVE  PendingInv'
<1> SUFFICES ASSUME NEW v \in Threads, Pending(v)'
             PROVE  /\ sessions'[v].tenant \in DOMAIN tenants'
                    /\ ~Registered(sessions[v].tenant, sessions[v].email)'
                    /\ ~InDoubt(v)'
  BY DEF PendingInv
<1>1. sessions'[w].tenant = sessions[w].tenant /\ sessions'[w].email = sessions[w].email
  BY MovedOn
<1>2. \A u \in Threads \ {w} : sessions'[u] = sessions[u] /\ (Pending(u)' <=> Pending(u))
  BY DEF Others, Pending
<1>3. \A u \in Threads : sessions'[u].tenant = sessions[u].tenant /\ sessions'[u].email = sessions[u].email
  BY <1>1, <1>2
<1>4. /\ sessions[v].tenant \in DOMAIN tenants
      /\ ~Registered(sessions[v].tenant, sessions[v].email)
  BY <1>2 DEF PendingInv
<1>5. ~InDoubt(v)'
  <2> SUFFICES ASSUME NEW u \in Threads \ {v}, Pending(u)', Same(u, v)'
               PROVE  FALSE
    BY DEF InDoubt, Same
  <2>1. Same(u, v)
    BY <1>3 DEF Same
  <2>2. CASE v = w
    BY <1>2, <2>1, <2>2 DEF InDoubt, Same
  <2>3. CASE v # w /\ u = w
    BY <1>2, <2>1, <2>3 DEF InDoubt, Same
  <2>4. CASE v # w /\ u # w
    BY <1>2, <2>1, <2>4 DEF InDoubt, Same, PendingInv
  <2> QED
    BY <2>2, <2>3, <2>4
<1> QED
  BY <1>3, <1>4, <1>5 DEF Registered, tables

LEMMA PendingNext ==
  ASSUME TypeOK, PendingInv, [Next]_vars
  PROVE  PendingInv'
<1>1. CASE UNCHANGED vars
  BY <1>1 DEF vars, tables, PendingInv, Pending, Registered, InDoubt
<1>2. CASE Next
  <2>1. PICK w \in Threads :
           \/ CreateTenant(w) \/ UpdateTenant(w) \/ DeleteTenant(w) \/ Register(w)
           \/ Waits(w) \/ Writes(w) \/ (CommitDelete(w) /\ ~Fail(w))
    BY <1>2, Kinds
  <2>2. \A v \in Threads : Pending(v) => sessions[v].tenant \in DOMAIN tenants
    BY DEF PendingInv
  <2>3. CASE CreateTenant(w) \/ UpdateTenant(w) \/ DeleteTenant(w) \/ Register(w)
    <3>1. Begins(w) /\ Others(w) /\ UNCHANGED tables
      BY <2>3, BeginsCreate, BeginsUpdate, BeginsDelete, BeginsRegister
         DEF CreateTenant, UpdateTenant, DeleteTenant
    <3> QED
      BY <2>2, <3>1, NotPending, PendingKept DEF tables
  <2>4. CASE Waits(w)
    <3>1. CASE sessions'[w] = IdleSession
      BY <2>2, <2>4, <3>1, WaitsMove, NotPending, PendingKept DEF tables
    <3>2. CASE sessions'[w] # IdleSession
      BY <2>4, <3>2, WaitsMove, PendingInserts
    <3> QED
      BY <3>1, <3>2
  <2>5. CASE Writes(w)
    <3>1. /\ Others(w) /\ \A t \in DOMAIN tenants : t \in DOMAIN tenants'
          /\ sessions'[w] = IdleSession \/ sessions'[w] = [sessions[w] EXCEPT !.pc = "refresh"]
      BY <2>5, WritesMove
    <3>2. \A u \in users' : u \in users \/ (/\ Pending(w) /\ u.tenant_id = sessions[w].tenant
                                            /\ u.email = sessions[w].email)
      BY <2>5 DEF Writes, CommitCreate, CommitUpdate, CommitRegister
    <3> QED
      BY <2>2, <3>1, <3>2, NotPending, PendingKept
  <2>6. CASE CommitDelete(w) /\ ~Fail(w)
    <3>1. /\ Others(w) /\ sessions'[w] = IdleSession
          /\ DOMAIN tenants' = DOMAIN tenants \ {sessions[w].tenant}
          /\ \A v \in Threads : Pending(v) => sessions[v].tenant # sessions[w].tenant
          /\ \A u \in users' : u \in users
      BY <2>6, RemovesMove
    <3> QED
      BY <2>2, <3>1, NotPending, PendingKept
  <2> QED
    BY <2>1, <2>3, <2>4, <2>5, <2>6
<1> QED
  BY <1>1, <1>2

LEMMA WritesGoOn ==
  ASSUME TypeOK, NEW w \in Threads, Writes(w)
  PROVE  GoesOn(w) /\ Others(w)
<1>1. CASE CommitCreate(w)
  BY <1>1, AfterCommitMoves DEF CommitCreate
<1>2. CASE CommitUpdate(w) /\ ~Fail(w)
  BY <1>2, AfterCommitMoves DEF CommitUpdate
<1>3. CASE CommitRegister(w)
  BY <1>3, GotoOthers DEF CommitRegister, GoesOn
<1> QED
  BY <1>1, <1>2, <1>3 DEF Writes

LEMMA SomeoneMoves ==
  ASSUME TypeOK, Next
  PROVE  \E w \in Threads : (GoesOn(w) \/ Begins(w)) /\ Others(w)
<1>1. PICK w \in Threads :
         \/ CreateTenant(w) \/ UpdateTenant(w) \/ DeleteTenant(w) \/ Register(w)
         \/ Waits(w) \/ Writes(w) \/ (CommitDelete(w) /\ ~Fail(w))
  BY Kinds
<1>2. CASE CreateTenant(w)
  BY <1>2, BeginsCreate
<1>3. CASE UpdateTenant(w)
  BY <1>3, BeginsUpdate
<1>4. CASE DeleteTenant(w)
  BY <1>4, BeginsDelete
<1>5. CASE Register(w)
  BY <1>5, BeginsRegister
<1>6. CASE Waits(w)
  BY <1>6, WaitsMove
<1>7. CASE Writes(w)
  BY <1>7, WritesGoOn
<1>8. CASE CommitDelete(w) /\ ~Fail(w)
  BY <1>8, RemovesMove
<1> QED
  BY <1>1, <1>2, <1>3, <1>4, <1>5, <1>6, <1>7, <1>8

LEMMA HeldNext ==
  ASSUME TypeOK, HeldInv, [Next]_vars
  PROVE  HeldInv'
<1>1. CASE UNCHANGED vars
  BY <1>1 DEF vars, tables, HeldInv
<1>2. ASSUME NEW w \in Threads, GoesOn(w) \/ Begins(w), Others(w)
      PROVE  HeldInv'
  <2> SUFFICES ASSUME NEW v \in Threads, sessions'[v].op = "update",
                      NEW c \in Columns \ sessions'[v].set
               PROVE  sessions'[v].held[c] = sessions'[v].seen[c]
    BY DEF HeldInv
  <2>1. CASE v # w
    BY <1>2, <2>1 DEF Others, HeldInv
  <2>2. CASE v = w /\ GoesOn(w)
    BY <2>2, IdleFields, MovedOn DEF GoesOn, HeldInv
  <2>3. CASE v = w /\ Begins(w)
    BY <2>3 DEF Begins, HeldInv
  <2> QED
    BY <1>2, <2>1, <2>2, <2>3
<1>3. CASE Next
  <2>1. PICK w \in Threads : (GoesOn(w) \/ Begins(w)) /\ Others(w)
    BY <1>3, SomeoneMoves
  <2> QED
    BY <1>2, <2>1
<1> QED
  BY <1>1, <1>3

-----------------------------------------------------------------------------
(* The properties, kind by kind of step.                                   *)

UserRecords ==
  {[id |-> a.id, tenant_id |-> a.tenant_id, email |-> a.actor] :
     a \in {a \in audit_logs : a.action = "user.register"}}

OneUserEach ==
  \A u, v \in users : u.tenant_id = v.tenant_id /\ u.email = v.email => u = v

Properties == UsersOnRecord /\ RegistrationsHold /\ NoOrphans /\ ValuesOnRecord

LEMMA PropertiesQuiet ==
  ASSUME Properties, UNCHANGED tables,
         \A k \in answered' : k \in answered \/ Registered(k[1], k[2])
  PROVE  Properties'
<1>1. tenants' = tenants /\ users' = users /\ audit_logs' = audit_logs
  BY DEF tables
<1>2. UsersOnRecord' /\ NoOrphans' /\ ValuesOnRecord'
  BY <1>1 DEF Properties, UsersOnRecord, NoOrphans, ValuesOnRecord
<1>3. RegistrationsHold'
  BY <1>1 DEF Properties, RegistrationsHold, Registered
<1> QED
  BY <1>2, <1>3 DEF Properties

(* A record that tells of no user leaves the users on record.              *)
LEMMA OtherRecord ==
  ASSUME UsersOnRecord, users' = users, NEW row,
         row.action # "user.register", audit_logs' = audit_logs \cup {row}
  PROVE  UsersOnRecord'
<1>1. {a \in audit_logs' : a.action = "user.register"} =
        {a \in audit_logs : a.action = "user.register"}
  OBVIOUS
<1> QED
  BY <1>1 DEF UsersOnRecord

LEMMA CreateKeeps ==
  ASSUME TypeOK, NumbersInv, Properties, NEW w \in Threads, CommitCreate(w)
  PROVE  Properties'
<1> DEFINE s == sessions[w]
           row == AuditRow(s.number, s.tenant, "tenant.create", "system", {s.held})
<1>1. /\ tenants' = [t \in DOMAIN tenants \cup {s.tenant} |->
                      IF t = s.tenant THEN s.held ELSE tenants[t]]
      /\ audit_logs' = audit_logs \cup {row} /\ users' = users /\ answered' = answered
  BY DEF CommitCreate, WriteAuditLog
<1>2. /\ row.action = "tenant.create" /\ row.tenant_id = s.tenant /\ row.meta = {s.held}
  BY DEF AuditRow
<1>3. s.tenant \notin DOMAIN tenants /\ \A k \in answered : k[1] # s.tenant
  BY DEF NumbersInv, CommitCreate
<1>4. /\ DOMAIN tenants' = DOMAIN tenants \cup {s.tenant}
      /\ \A t \in DOMAIN tenants : tenants'[t] = tenants[t]
      /\ tenants'[s.tenant] = s.held
  BY <1>1, <1>3
<1> HIDE DEF row, s
<1>5. UsersOnRecord'
  BY <1>1, <1>2, OtherRecord DEF Properties
<1>6. RegistrationsHold'
  BY <1>1, <1>3, <1>4 DEF Properties, RegistrationsHold, Registered
<1>7. NoOrphans'
  BY <1>1, <1>2, <1>4 DEF Properties, NoOrphans
<1>8. ValuesOnRecord'
  BY <1>1, <1>2, <1>4 DEF Properties, ValuesOnRecord
<1> QED
  BY <1>5, <1>6, <1>7, <1>8 DEF Properties

LEMMA UpdateKeeps ==
  ASSUME TypeOK, Properties, NEW w \in Threads, CommitUpdate(w), ~Fail(w)
  PROVE  Properties'
<1> DEFINE s == sessions[w]
           row == AuditRow(s.number, s.tenant, "tenant.update", "system", {s.held})
<1>1. /\ tenants' = [tenants EXCEPT ![s.tenant] = FlushedRow(w)] /\ s.tenant \in DOMAIN tenants
      /\ audit_logs' = audit_logs \cup {row} /\ users' = users /\ answered' = answered
  BY DEF CommitUpdate, WriteAuditLog
<1>2. /\ row.action = "tenant.update" /\ row.tenant_id = s.tenant /\ row.meta = {s.held}
  BY DEF AuditRow
<1>3. \A c \in Columns :
        FlushedRow(w)[c] = s.held[c] \/ FlushedRow(w)[c] = tenants[s.tenant][c]
  BY DEF FlushedRow
<1>4. /\ DOMAIN tenants' = DOMAIN tenants
      /\ \A t \in DOMAIN tenants \ {s.tenant} : tenants'[t] = tenants[t]
      /\ tenants'[s.tenant] = FlushedRow(w)
  BY <1>1
<1> HIDE DEF row, s
<1>5. UsersOnRecord'
  BY <1>1, <1>2, OtherRecord DEF Properties
<1>6. RegistrationsHold'
  BY <1>1, <1>4 DEF Properties, RegistrationsHold, Registered
<1>7. NoOrphans'
  BY <1>1, <1>2, <1>4 DEF Properties, NoOrphans
<1>8. ASSUME NEW t \in DOMAIN tenants, NEW c \in Columns
      PROVE  \E a \in audit_logs' :
               a.tenant_id = t /\ \E r \in a.meta : r[c] = tenants'[t][c]
  <2>1. CASE tenants'[t][c] = tenants[t][c]
    BY <1>1, <2>1 DEF Properties, ValuesOnRecord
  <2>2. CASE t = s.tenant /\ tenants'[t][c] = s.held[c]
    BY <1>1, <1>2, <2>2
  <2> QED
    BY <1>3, <1>4, <2>1, <2>2
<1>9. ValuesOnRecord'
  BY <1>4, <1>8 DEF ValuesOnRecord
<1> QED
  BY <1>5, <1>6, <1>7, <1>9 DEF Properties

LEMMA RegisterKeeps ==
  ASSUME TypeOK, PendingInv, Properties, NEW w \in Threads, CommitRegister(w)
  PROVE  Properties'
<1> DEFINE s == sessions[w]
           row == AuditRow(s.number, s.tenant, "user.register", s.email, {})
           user == [id |-> s.number, tenant_id |-> s.tenant, email |-> s.email]
<1>1. /\ users' = users \cup {user} /\ audit_logs' = audit_logs \cup {row}
      /\ tenants' = tenants
      /\ answered' = answered \/ answered' = answered \cup {<<s.tenant, s.email>>}
  BY DEF CommitRegister, WriteAuditLog
<1>2. /\ row.action = "user.register" /\ row.tenant_id = s.tenant /\ row.actor = s.email
      /\ row.id = s.number /\ user.tenant_id = s.tenant /\ user.email = s.email
  BY DEF AuditRow
<1>3. s.tenant \in DOMAIN tenants /\ ~Registered(s.tenant, s.email)
  BY DEF CommitRegister, PendingInv
<1>4. user = [id |-> row.id, tenant_id |-> row.tenant_id, email |-> row.actor]
  BY <1>2
<1> HIDE DEF row, user, s
<1>5. OneUserEach'
  BY <1>1, <1>2, <1>3 DEF Properties, UsersOnRecord, Registered, OneUserEach
<1>6. UserRecords' = users'
  <2>1. UserRecords = users
    BY DEF Properties, UsersOnRecord, UserRecords
  <2>2. {a \in audit_logs' : a.action = "user.register"} =
          {a \in audit_logs : a.action = "user.register"} \cup {row}
    BY <1>1, <1>2
  <2>3. UserRecords' = UserRecords \cup {user}
    BY <1>4, <2>2 DEF UserRecords
  <2> QED
    BY <1>1, <2>1, <2>3
<1>7. RegistrationsHold'
  <2>2. \A t, e : Registered(t, e) => Registered(t, e)'
    BY <1>1 DEF Registered
  <2> SUFFICES ASSUME NEW k \in answered', k[1] \in DOMAIN tenants' PROVE Registered(k[1], k[2])'
    BY DEF RegistrationsHold
  <2>3. CASE k \in answered
    BY <1>1, <2>2, <2>3 DEF Properties, RegistrationsHold
  <2>4. CASE k = <<s.tenant, s.email>>
    BY <1>1, <1>2, <2>4 DEF Registered
  <2> QED
    BY <1>1, <2>3, <2>4
<1>8. NoOrphans'
  BY <1>1, <1>2, <1>3 DEF Properties, NoOrphans
<1>9. ValuesOnRecord'
  BY <1>1 DEF Properties, ValuesOnRecord
<1> QED
  BY <1>5, <1>6, <1>7, <1>8, <1>9 DEF Properties, UsersOnRecord, OneUserEach, UserRecords

LEMMA RemoveKeeps ==
  ASSUME TypeOK, Properties, NEW w \in Threads, CommitDelete(w), ~Fail(w)
  PROVE  Properties'
<1> DEFINE t == sessions[w].tenant
<1>1. /\ DOMAIN tenants' = DOMAIN tenants \ {t} /\ answered' = answered
      /\ \A i \in DOMAIN tenants' : tenants'[i] = tenants[i]
      /\ users' = {u \in users : u.tenant_id # t}
      /\ audit_logs' = {a \in audit_logs : a.tenant_id # t}
  BY RemovesMove
<1> HIDE DEF t
<1>2. OneUserEach'
  BY <1>1 DEF Properties, UsersOnRecord, OneUserEach
<1>3. UserRecords' = users'
  <2> DEFINE told(a) == [id |-> a.id, tenant_id |-> a.tenant_id, email |-> a.actor]
  <2>1. UserRecords = users
    BY DEF Properties, UsersOnRecord, UserRecords
  <2>2. \A a : told(a).tenant_id = a.tenant_id
    OBVIOUS
  <2>3. UserRecords = {told(a) : a \in {a \in audit_logs : a.action = "user.register"}}
    BY DEF UserRecords
  <2>4. UserRecords' = {told(a) : a \in {a \in audit_logs' : a.action = "user.register"}}
    BY DEF UserRecords
  <2> HIDE DEF told
  <2>5. UserRecords' = {u \in UserRecords : u.tenant_id # t}
    BY <1>1, <2>2, <2>3, <2>4
  <2> QED
    BY <1>1, <2>1, <2>5
<1>4. RegistrationsHold'
  BY <1>1 DEF Properties, RegistrationsHold, Registered
<1>5. NoOrphans'
  BY <1>1 DEF Properties, NoOrphans
<1>6. ValuesOnRecord'
  BY <1>1 DEF Properties, ValuesOnRecord
<1> QED
  BY <1>2, <1>3, <1>4, <1>5, <1>6 DEF Properties, UsersOnRecord, OneUserEach, UserRecords

LEMMA PropertiesNext ==
  ASSUME TypeOK, NumbersInv, PendingInv, Properties, [Next]_vars
  PROVE  Properties'
<1>1. CASE UNCHANGED vars
  BY <1>1, PropertiesQuiet DEF vars
<1>2. CASE Next
  <2>1. PICK w \in Threads :
           \/ CreateTenant(w) \/ UpdateTenant(w) \/ DeleteTenant(w) \/ Register(w)
           \/ Waits(w) \/ Writes(w) \/ (CommitDelete(w) /\ ~Fail(w))
    BY <1>2, Kinds
  <2>2. CASE CreateTenant(w) \/ UpdateTenant(w) \/ DeleteTenant(w)
    BY <2>2, PropertiesQuiet DEF CreateTenant, UpdateTenant, DeleteTenant
  <2>3. CASE Register(w)
    BY <2>3, BeginsRegister, PropertiesQuiet
  <2>4. CASE Waits(w)
    BY <2>4, WaitsMove, PropertiesQuiet
  <2>5. CASE CommitCreate(w)
    BY <2>5, CreateKeeps
  <2>6. CASE CommitUpdate(w) /\ ~Fail(w)
    BY <2>6, UpdateKeeps
  <2>7. CASE CommitRegister(w)
    BY <2>7, RegisterKeeps
  <2>8. CASE CommitDelete(w) /\ ~Fail(w)
    BY <2>8, RemoveKeeps
  <2> QED
    BY <2>1, <2>2, <2>3, <2>4, <2>5, <2>6, <2>7, <2>8 DEF Writes
<1> QED
  BY <1>1, <1>2

LEMMA InitAdmin == Init => AdminInv
<1> SUFFICES ASSUME Init PROVE AdminInv
  OBVIOUS
<1> DEFINE first == AuditRow(0, 0, "tenant.create", "system", {FirstTenant})
<1>1. /\ first.id = 0 /\ first.tenant_id = 0 /\ first.meta = {FirstTenant}
      /\ first.action = "tenant.create"
  BY DEF AuditRow
<1>2. /\ tenants = [t \in {0} |-> FirstTenant] /\ users = {} /\ audit_logs = {first}
      /\ answered = {} /\ requests = 0
      /\ \A w \in Threads : sessions[w] = IdleSession
  BY DEF Init
<1> HIDE DEF first
<1>3. NumbersInv
  BY <1>1, <1>2, IdleFields DEF NumbersInv
<1>4. PendingInv /\ HeldInv
  BY <1>2, IdleFields DEF PendingInv, HeldInv, Pending
<1>5. UsersOnRecord /\ RegistrationsHold /\ NoOrphans
  BY <1>1, <1>2 DEF UsersOnRecord, RegistrationsHold, NoOrphans
<1>6. ValuesOnRecord
  BY <1>1, <1>2 DEF ValuesOnRecord
<1> QED
  BY <1>3, <1>4, <1>5, <1>6 DEF AdminInv

LEMMA Inductive == Spec => [](TypeOK /\ AdminInv)
<1>1. Init => TypeOK /\ AdminInv
  BY InitType, InitAdmin
<1>2. TypeOK /\ AdminInv /\ [Next]_vars => (TypeOK /\ AdminInv)'
  BY NextType, NumbersNext, PendingNext, HeldNext, PropertiesNext DEF AdminInv, Properties
<1> QED
  BY <1>1, <1>2, PTL DEF Spec

-----------------------------------------------------------------------------
(* However registrations of one email race in register, there is one user  *)
(* of it, with one record, and no record of a user that is not there.      *)
THEOREM UsersAreOnRecord == Spec => []UsersOnRecord
<1>1. TypeOK /\ AdminInv => UsersOnRecord
  BY DEF AdminInv
<1> QED
  BY <1>1, Inductive, PTL

(* Nobody is told by register that an email is processed which is not a    *)
(* user of the tenant, as long as the tenant is there.                     *)
THEOREM RegistrationsDoHold == Spec => []RegistrationsHold
<1>1. TypeOK /\ AdminInv => RegistrationsHold
  BY DEF AdminInv
<1> QED
  BY <1>1, Inductive, PTL

(* No user and no record is left of a tenant that delete_tenant removed.   *)
THEOREM NothingOrphaned == Spec => []NoOrphans
<1>1. TypeOK /\ AdminInv => NoOrphans
  BY DEF AdminInv
<1> QED
  BY <1>1, Inductive, PTL

(* Whatever value a column of a tenant has, a record of write_audit_log    *)
(* tells of it, though records are made of rows that may be out of date.   *)
THEOREM ValuesAreOnRecord == Spec => []ValuesOnRecord
<1>1. TypeOK /\ AdminInv => ValuesOnRecord
  BY DEF AdminInv
<1> QED
  BY <1>1, Inductive, PTL

-----------------------------------------------------------------------------
(* Commits are steps of the registry, and nothing else is.                 *)

LEMMA QuietStutters ==
  ASSUME UNCHANGED tables
  PROVE  UNCHANGED Registry!vars
BY DEF tables, Registry!vars

(* write_audit_log leaves a record with a number of its own.               *)
LEMMA RecordIsNew ==
  ASSUME TypeOK, NumbersInv, NEW w \in Threads, sessions[w].pc = "commit",
         NEW action, NEW actor, NEW meta, WriteAuditLog(w, action, actor, meta)
  PROVE  Registry!Recorded(sessions[w].tenant, action, actor, meta)
<1>1. sessions[w].number \in Ids
  BY DEF TypeOK, Sessions
<1>2. \A a \in audit_logs : a.id # sessions[w].number
  BY DEF NumbersInv
<1> QED
  BY <1>1, <1>2 DEF WriteAuditLog, AuditRow, Registry!Recorded

LEMMA CreateStep ==
  ASSUME TypeOK, NumbersInv, NEW w \in Threads, CommitCreate(w)
  PROVE  Registry!Next
<1> DEFINE s == sessions[w]
<1>1. s.tenant \in Ids /\ s.held \in Rows /\ s.pc = "commit" /\ s.op = "create"
  BY DEF TypeOK, Sessions, CommitCreate
<1>2. s.tenant \notin DOMAIN tenants
  BY <1>1 DEF NumbersInv
<1>3. Registry!Recorded(s.tenant, "tenant.create", "system", {s.held})
  BY <1>1, RecordIsNew DEF CommitCreate
<1>4. Registry!Create(s.tenant, s.held)
  BY <1>2, <1>3 DEF CommitCreate, Registry!Create
<1> QED
  BY <1>1, <1>4 DEF Registry!Next

LEMMA UpdateStep ==
  ASSUME TypeOK, NumbersInv, NEW w \in Threads, CommitUpdate(w), ~Fail(w)
  PROVE  Registry!Next
<1> DEFINE s == sessions[w]
           changed == {c \in Columns : s.held[c] # s.seen[c]}
<1>1. s.tenant \in Ids /\ s.held \in Rows /\ s.pc = "commit" /\ s.tenant \in DOMAIN tenants
  BY DEF TypeOK, Sessions, CommitUpdate
<1>2. Registry!Recorded(s.tenant, "tenant.update", "system", {s.held})
  BY <1>1, RecordIsNew DEF CommitUpdate
<1>3. FlushedRow(w) =
        [c \in Columns |-> IF c \in changed THEN s.held[c] ELSE tenants[s.tenant][c]]
  BY DEF FlushedRow
<1>4. tenants' = [tenants EXCEPT ![s.tenant] =
        [c \in Columns |-> IF c \in changed THEN s.held[c] ELSE @[c]]]
  BY <1>1, <1>3 DEF CommitUpdate
<1>5. changed \in SUBSET Columns /\ users' = users
  BY <1>1 DEF CommitUpdate
<1> HIDE DEF s, changed
<1>6. Registry!Change(s.tenant, s.held)
  BY <1>1, <1>2, <1>4, <1>5 DEF Registry!Change
<1> QED
  BY <1>1, <1>6 DEF Registry!Next

LEMMA RegisterStep ==
  ASSUME TypeOK, NumbersInv, PendingInv, NEW w \in Threads, CommitRegister(w)
  PROVE  Registry!Next
<1> DEFINE s == sessions[w]
           user == [id |-> s.number, tenant_id |-> s.tenant, email |-> s.email]
           known == {<<u.tenant_id, u.email>> : u \in users}
<1>1. PICK t \in Ids, email \in Emails : t = s.tenant /\ email = s.email
  BY DEF TypeOK, Sessions
<1>2. t \in DOMAIN tenants /\ ~Registered(t, email) /\ s.pc = "commit"
  BY <1>1 DEF PendingInv, CommitRegister, Pending
<1>3. Registry!Recorded(t, "user.register", email, {})
  BY <1>1, <1>2, RecordIsNew DEF CommitRegister
<1>4. <<t, email>> \notin known
  BY <1>2 DEF Registered
<1>5. known' = known \cup {<<t, email>>}
  <2>1. users' = users \cup {user}
    BY DEF CommitRegister
  <2>2. user.tenant_id = t /\ user.email = email
    BY <1>1
  <2> HIDE DEF user, s
  <2> QED
    BY <2>1, <2>2
<1>6. tenants' = tenants
  BY DEF CommitRegister
<1>7. Registry!Register(t, email)
  BY <1>2, <1>3, <1>4, <1>5, <1>6 DEF Registry!Register
<1> QED
  BY <1>7 DEF Registry!Next

LEMMA RemoveStep ==
  ASSUME TypeOK, NEW w \in Threads, CommitDelete(w), ~Fail(w)
  PROVE  Registry!Next
<1> DEFINE known == {<<u.tenant_id, u.email>> : u \in users}
<1>1. PICK t \in Ids : t = sessions[w].tenant
  BY DEF TypeOK, Sessions
<1>2. /\ t \in DOMAIN tenants
      /\ tenants' = [i \in DOMAIN tenants \ {t} |-> tenants[i]]
      /\ users' = {u \in users : u.tenant_id # t}
      /\ audit_logs' = {a \in audit_logs : a.tenant_id # t}
  BY <1>1 DEF CommitDelete
<1>3. known' = {k \in known : k[1] # t}
  BY <1>2
<1>4. Registry!Remove(t)
  BY <1>2, <1>3 DEF Registry!Remove
<1> QED
  BY <1>4 DEF Registry!Next

LEMMA StepsRefine ==
  ASSUME TypeOK, NumbersInv, PendingInv, [Next]_vars
  PROVE  [Registry!Next]_(Registry!vars)
<1>1. CASE UNCHANGED vars
  BY <1>1, QuietStutters DEF vars
<1>2. CASE Next
  <2>1. PICK w \in Threads :
           \/ CreateTenant(w) \/ UpdateTenant(w) \/ DeleteTenant(w) \/ Register(w)
           \/ Waits(w) \/ Writes(w) \/ (CommitDelete(w) /\ ~Fail(w))
    BY <1>2, Kinds
  <2>2. CASE CreateTenant(w) \/ UpdateTenant(w) \/ DeleteTenant(w) \/ Register(w) \/ Waits(w)
    <3>1. UNCHANGED tables
      BY <2>2, BeginsRegister, WaitsMove DEF CreateTenant, UpdateTenant, DeleteTenant
    <3> QED
      BY <3>1, QuietStutters
  <2>3. CASE Writes(w)
    BY <2>3, CreateStep, UpdateStep, RegisterStep DEF Writes
  <2>4. CASE CommitDelete(w) /\ ~Fail(w)
    BY <2>4, RemoveStep
  <2> QED
    BY <2>1, <2>2, <2>3, <2>4
<1> QED
  BY <1>1, <1>2

LEMMA InitRefines == Init => Registry!Init
<1> SUFFICES ASSUME Init PROVE Registry!Init
  OBVIOUS
<1> DEFINE first == AuditRow(0, 0, "tenant.create", "system", {FirstTenant})
<1>1. tenants = [t \in {0} |-> FirstTenant] /\ users = {} /\ audit_logs = {first}
  BY DEF Init
<1>2. first.tenant_id = 0 /\ first.meta = {FirstTenant}
  BY DEF AuditRow
<1> HIDE DEF first
<1>3. {<<u.tenant_id, u.email>> : u \in users} = {}
  BY <1>1
<1> QED
  BY <1>1, <1>2, <1>3 DEF Registry!Init

(* The requests of tenants.py and of register, each several statements and *)
(* a commit, do what one step of the registry does, with its record.       *)
THEOREM RegistryIsImplemented == Spec => ImplementsRegistry
<1>1. TypeOK /\ AdminInv /\ [Next]_vars => [Registry!Next]_(Registry!vars)
  BY StepsRefine DEF AdminInv
<1> QED
  BY <1>1, InitRefines, Inductive, PTL DEF Spec, ImplementsRegistry, Registry!Spec

-----------------------------------------------------------------------------
(* Two PATCHes of a tenant.                                                *)

ChangesNamed ==
  \A t \in DOMAIN tenants \cap DOMAIN tenants', c \in Columns :
    tenants'[t][c] # tenants[t][c] =>
      \E w \in Threads :
        /\ sessions'[w] # sessions[w]
        /\ sessions[w].op = "update" /\ sessions[w].tenant = t
        /\ c \in sessions[w].set

LEMMA UpdateChangesNamed ==
  ASSUME TypeOK, HeldInv, NEW w \in Threads, CommitUpdate(w), ~Fail(w)
  PROVE  ChangesNamed
<1> DEFINE s == sessions[w]
<1>1. /\ s.tenant \in DOMAIN tenants /\ s.op = "update" /\ s.pc = "commit"
      /\ tenants' = [tenants EXCEPT ![s.tenant] = FlushedRow(w)]
      /\ AfterCommit(w) /\ requests' = requests
  BY DEF CommitUpdate
<1>2. sessions'[w].pc # s.pc
  <2>1. sessions'[w] = IdleSession \/ sessions'[w] = [sessions[w] EXCEPT !.pc = "refresh"]
    BY <1>1, AfterCommitMoves
  <2> QED
    BY <1>1, <2>1, IdleFields, MovedOn
<1>3. ASSUME NEW t \in DOMAIN tenants, NEW c \in Columns, tenants'[t][c] # tenants[t][c]
      PROVE  t = s.tenant /\ c \in s.set
  <2>1. t = s.tenant /\ FlushedRow(w)[c] # tenants[t][c]
    BY <1>1, <1>3
  <2>2. s.held[c] # s.seen[c]
    BY <2>1 DEF FlushedRow
  <2> QED
    BY <1>1, <2>1, <2>2 DEF HeldInv
<1> QED
  BY <1>1, <1>2, <1>3 DEF ChangesNamed

LEMMA StepChangesNamed ==
  ASSUME TypeOK, NumbersInv, HeldInv, [Next]_vars
  PROVE  [ChangesNamed]_vars
<1>1. CASE UNCHANGED vars
  BY <1>1
<1>2. CASE Next
  <2>1. PICK w \in Threads :
           \/ CreateTenant(w) \/ UpdateTenant(w) \/ DeleteTenant(w) \/ Register(w)
           \/ Waits(w) \/ Writes(w) \/ (CommitDelete(w) /\ ~Fail(w))
    BY <1>2, Kinds
  <2>2. CASE CommitUpdate(w) /\ ~Fail(w)
    BY <2>2, UpdateChangesNamed
  <2>3. CASE CommitCreate(w)
    <3>1. \A t \in DOMAIN tenants : t # sessions[w].tenant
      BY <2>3 DEF CommitCreate, NumbersInv
    <3> QED
      BY <2>3, <3>1 DEF CommitCreate, ChangesNamed
  <2>4. CASE CommitDelete(w) /\ ~Fail(w)
    BY <2>4, RemovesMove DEF ChangesNamed
  <2>5. CASE tenants' = tenants
    BY <2>5 DEF ChangesNamed
  <2>6. CASE CreateTenant(w) \/ UpdateTenant(w) \/ DeleteTenant(w) \/ Register(w) \/ Waits(w)
    BY <2>5, <2>6, BeginsRegister, WaitsMove
       DEF CreateTenant, UpdateTenant, DeleteTenant, tables
  <2>7. CASE CommitRegister(w)
    BY <2>5, <2>7 DEF CommitRegister
  <2> QED
    BY <2>1, <2>2, <2>3, <2>4, <2>6, <2>7 DEF Writes
<1> QED
  BY <1>1, <1>2

(* A column of a tenant changes only by a request to update_tenant whose   *)
(* body names it, however many of them run at the same time.               *)
THEOREM UpdatesMerge == Spec => PatchesMerge
<1>1. TypeOK /\ AdminInv /\ [Next]_vars => [ChangesNamed]_vars
  BY StepChangesNamed DEF AdminInv
<1> QED
  BY <1>1, Inductive, PTL DEF Spec, PatchesMerge, ChangesNamed

=============================================================================

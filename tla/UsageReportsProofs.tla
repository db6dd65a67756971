-------------------------- MODULE UsageReportsProofs --------------------------
(***************************************************************************)
(* Theorems about UsageReports, for any payloads, statuses, length of a    *)
(* day and number of readers: what TenantAdmin promises is kept while      *)
(* reports are read and events stored, the numbers of a report agree, its  *)
(* breakdowns cover the totals read before them, and a day that is over    *)
(* is final.                                                               *)
(***************************************************************************)
EXTENDS UsageReports, TenantAdminProofs, FiniteSetTheorems

-----------------------------------------------------------------------------
(* For tenants and users, everything else is a step that takes a number or *)
(* none at all.                                                            *)

TakesNumber ==
  /\ requests < MaxRequests /\ requests' = requests + 1
  /\ UNCHANGED <<tables, sessions, answered>>

LEMMA AdminStepsOnly ==
  ASSUME [ReportsNext]_all_vars
  PROVE  [Next]_vars \/ TakesNumber
<1>1. CASE UNCHANGED all_vars
  BY <1>1 DEF all_vars
<1>2. CASE ReceiveEvent
  BY <1>2 DEF ReceiveEvent, TakesNumber
<1>3. CASE StampEvent \/ CommitEvent \/ FailEvent \/ Tick
  BY <1>3 DEF StampEvent, CommitEvent, FailEvent, Tick
<1>4. CASE \E w \in Threads : CreateContact(w) \/ PatchContact(w)
  BY <1>4 DEF CreateContact, PatchContact, Arrives, TakesNumber
<1>5. CASE \E w \in Readers : OpenReport(w) \/ OpenOverview(w)
  BY <1>5 DEF OpenReport, OpenOverview, StartReading, Arrives, TakesNumber
<1>6. CASE \E w \in Readers : RunStatement(w) \/ StopReading(w)
  BY <1>6 DEF RunStatement, StopReading
<1>7. CASE AdminStep
  BY <1>7 DEF AdminStep
<1> QED
  BY <1>1, <1>2, <1>3, <1>4, <1>5, <1>6, <1>7 DEF ReportsNext

LEMMA NumberTaken ==
  ASSUME TypeOK, AdminInv, TakesNumber
  PROVE  TypeOK' /\ AdminInv'
<1>1. requests \in Nat /\ requests' \in Ids
  BY TenantBodiesAssumption DEF TypeOK, Ids, TakesNumber
<1>2. TypeOK'
  BY <1>1 DEF TakesNumber, TypeOK, tables
<1>3. NumbersInv'
  <2>1. \A w \in Threads : sessions[w].number \in Nat
    BY DEF TypeOK, Sessions, Ids
  <2>2. sessions' = sessions /\ audit_logs' = audit_logs /\ tenants' = tenants
        /\ answered' = answered /\ requests' = requests + 1
    BY DEF TakesNumber, tables
  <2>3. NumbersInv
    BY DEF AdminInv
  <2>4. \A w \in Threads : Numbered(w)' /\ \A v \in Threads : Distinct(v, w)'
    BY <1>1, <2>1, <2>2, <2>3 DEF NumbersInv, Numbered, Distinct
  <2>5. TablesNumbered'
    <3>1. \A a \in audit_logs : a.id \in Nat
      BY DEF TypeOK, AuditLogs, Ids
    <3>2. \A k \in answered : k[1] \in Nat
      BY DEF TypeOK, Ids
    <3> QED
      BY <1>1, <2>2, <2>3, <3>1, <3>2 DEF NumbersInv, TablesNumbered
  <2> QED
    BY <2>4, <2>5 DEF NumbersInv, Numbered, Distinct, TablesNumbered
<1>4. PendingInv' /\ HeldInv'
  BY DEF TakesNumber, AdminInv, PendingInv, HeldInv, Pending, Registered, InDoubt, tables
<1>5. (UsersOnRecord /\ RegistrationsHold /\ NoOrphans /\ ValuesOnRecord)'
  BY DEF TakesNumber, AdminInv, UsersOnRecord, RegistrationsHold, NoOrphans, ValuesOnRecord,
         Registered, tables
<1> QED
  BY <1>2, <1>3, <1>4, <1>5 DEF AdminInv

LEMMA AdminInductive == ReportsSpec => [](TypeOK /\ AdminInv)
<1>1. ReportsInit => TypeOK /\ AdminInv
  BY InitType, InitAdmin DEF ReportsInit
<1>2. TypeOK /\ AdminInv /\ [ReportsNext]_all_vars => (TypeOK /\ AdminInv)'
  BY AdminStepsOnly, NumberTaken, NextType, NumbersNext, PendingNext, HeldNext, PropertiesNext
     DEF AdminInv, Properties
<1> QED
  BY <1>1, <1>2, PTL DEF ReportsSpec

(* The promises of TenantAdmin about users, answers, records and the       *)
(* cascade of a deletion hold beside the event loop and the readers.       *)
THEOREM AdminKept ==
  ReportsSpec => [](UsersOnRecord /\ RegistrationsHold /\ NoOrphans /\ ValuesOnRecord)
<1>1. TypeOK /\ AdminInv => UsersOnRecord /\ RegistrationsHold /\ NoOrphans /\ ValuesOnRecord
  BY DEF AdminInv
<1> QED
  BY <1>1, AdminInductive, PTL

(* The requests of tenants.py and of register are steps of the registry,   *)
(* and no event, contact, report or overview is.                           *)
THEOREM RegistryIsImplementedBeside == ReportsSpec => ImplementsRegistry
<1>1. TypeOK /\ AdminInv /\ [ReportsNext]_all_vars => [Registry!Next]_(Registry!vars)
  BY AdminStepsOnly, StepsRefine, QuietStutters DEF AdminInv, TakesNumber
<1>2. ReportsInit => Registry!Init
  BY InitRefines DEF ReportsInit
<1> QED
  BY <1>1, <1>2, AdminInductive, PTL DEF ReportsSpec, ImplementsRegistry, Registry!Spec

(* A column of a tenant changes only by a PATCH that names it, whatever    *)
(* the event loop and the readers do.                                      *)
THEOREM UpdatesMergeBeside == ReportsSpec => PatchesMerge
<1>1. TypeOK /\ AdminInv /\ [ReportsNext]_all_vars => [ChangesNamed]_vars
  <2> SUFFICES ASSUME TypeOK, AdminInv, [ReportsNext]_all_vars
               PROVE  [ChangesNamed]_vars
    OBVIOUS
  <2>1. CASE [Next]_vars
    BY <2>1, StepChangesNamed DEF AdminInv
  <2>2. CASE TakesNumber
    BY <2>2 DEF TakesNumber, tables, ChangesNamed
  <2> QED
    BY <2>1, <2>2, AdminStepsOnly
<1> QED
  BY <1>1, AdminInductive, PTL DEF ReportsSpec, PatchesMerge, ChangesNamed

-----------------------------------------------------------------------------
(* Types.                                                                  *)

LEMMA Consts ==
  /\ DayLength \in Nat \ {0, 1} /\ MaxTime \in Nat /\ MaxRequests \in Nat
  /\ Readers \subseteq Threads /\ Everyone \notin Ids /\ 0 \in Ids
BY ReportsAssumption, TenantBodiesAssumption DEF Ids

LEMMA DayOf ==
  ASSUME NEW at \in 0..MaxTime
  PROVE  at \div DayLength \in Days
<1>1. \A a, b, d \in Nat : d # 0 /\ a <= b => a \div d \in Nat /\ a \div d <= b \div d
  OBVIOUS
<1> QED
  BY <1>1, Consts DEF Days

LEMMA FunnelStrings == FunnelStatuses = {"new", "contacted", "engaged", "converted"}
BY DEF FunnelStatuses, STATUS_RANK

LEMMA RecordRow ==
  ASSUME NEW table \in Tables, NEW t \in Ids, NEW key \in Keys, NEW at \in 0..MaxTime,
         NEW tags \in SUBSET Tags, NEW status \in Statuses, NEW amount \in Nat,
         NEW contact \in {Null} \cup {p.contact : p \in Payloads}
  PROVE  /\ Record(table, t, key, at, tags, status, amount, contact) \in DataRows
         /\ Record(table, t, key, at, tags, status, amount, contact).table = table
         /\ Record(table, t, key, at, tags, status, amount, contact).tenant_id = t
         /\ Record(table, t, key, at, tags, status, amount, contact).key = key
         /\ Record(table, t, key, at, tags, status, amount, contact).at = at
         /\ Record(table, t, key, at, tags, status, amount, contact).tags = tags
BY DEF Record, DataRows

(* The rows of an open event.                                              *)
LEMMA StoredRows ==
  ASSUME ReportsTypeOK, event.pc # "idle", NEW row \in Stored(event)
  PROVE  /\ row \in DataRows /\ row.tenant_id = event.payload.tenant_id
         /\ row.table # "lead_events" => row.at = event.began
         /\ row.table = "contacts" => row.key \notin Ids
         /\ row.table = "message_logs" =>
              \A out \in {SmsOut, EmailOut} : out \subseteq row.tags => row.tags = out
<1> DEFINE p == event.payload
           R(table, key, at, tags, status, amount, contact) ==
             Record(table, p.tenant_id, key, at, tags, status, amount, contact)
           refs == {Null} \cup {q.contact : q \in Payloads}
<1>1. p \in Payloads /\ p = event.payload
  BY DEF ReportsTypeOK
<1>2. /\ p.tenant_id \in Ids /\ p.occurred_at \in 0..MaxTime /\ p.amount \in Nat
      /\ p.status \in FunnelStatuses
      /\ \A out \in {SmsOut, EmailOut} : out \subseteq p.medium => p.medium = out
      /\ p.contact \notin Ids
  BY <1>1, ReportsAssumption
<1>3. /\ p.contact \in Keys /\ p.campaign \in Keys /\ p.workflow \in Keys /\ p.message \in Keys
      /\ p.contact \in refs /\ Null \in refs
  BY <1>1 DEF Keys
<1>4. /\ event.began \in 0..MaxTime /\ event.number \in Keys /\ event.day \in Keys
  BY Consts DEF ReportsTypeOK, Keys
<1>5. \/ row = R("lead_events", event.number, p.occurred_at, {p.event_type}, "none", 0, Null)
      \/ row = R("contacts", p.contact, event.began, p.opt_outs, p.status, 0, Null)
      \/ row = R("campaign_stats", p.campaign, event.began, {}, "none", 0, Null)
      \/ row = R("workflow_stats", p.workflow, event.began, {}, "none", 0, Null)
      \/ row = R("message_logs", p.message, event.began, p.medium, p.message_status, 0, p.contact)
      \/ row = R("revenue_snapshots", event.day, event.began, {}, "none", p.amount, Null)
  BY DEF Stored
<1> HIDE DEF p, refs
<1>6. p.status \in Statuses
  BY <1>2 DEF Statuses
<1>7. p.message_status \in Statuses /\ {p.event_type} \in SUBSET Tags
  BY <1>1 DEF Statuses, Tags
<1>8. p.opt_outs \in SUBSET Tags /\ p.medium \in SUBSET Tags
  BY <1>1 DEF Tags
<1>9. {} \in SUBSET Tags /\ "none" \in Statuses /\ 0 \in Nat
  BY DEF Statuses
<1>10. CASE row = R("lead_events", event.number, p.occurred_at, {p.event_type}, "none", 0, Null)
  BY <1>1, <1>2, <1>3, <1>4, <1>7, <1>9, <1>10, RecordRow DEF Tables, refs
<1>11. CASE row = R("contacts", p.contact, event.began, p.opt_outs, p.status, 0, Null)
  BY <1>1, <1>2, <1>3, <1>4, <1>6, <1>8, <1>9, <1>11, RecordRow DEF Tables, refs
<1>12. CASE row = R("campaign_stats", p.campaign, event.began, {}, "none", 0, Null)
  BY <1>1, <1>2, <1>3, <1>4, <1>9, <1>12, RecordRow DEF Tables, refs
<1>13. CASE row = R("workflow_stats", p.workflow, event.began, {}, "none", 0, Null)
  BY <1>1, <1>2, <1>3, <1>4, <1>9, <1>13, RecordRow DEF Tables, refs
<1>14. CASE row = R("message_logs", p.message, event.began, p.medium, p.message_status, 0, p.contact)
  BY <1>1, <1>2, <1>3, <1>4, <1>7, <1>8, <1>9, <1>14, RecordRow DEF Tables, refs
<1>15. CASE row = R("revenue_snapshots", event.day, event.began, {}, "none", p.amount, Null)
  BY <1>1, <1>2, <1>3, <1>4, <1>9, <1>15, RecordRow DEF Tables, refs
<1> QED
  BY <1>5, <1>10, <1>11, <1>12, <1>13, <1>14, <1>15

LEMMA ForwardType ==
  ASSUME NEW old \in Statuses, NEW new \in Statuses
  PROVE  Forward(old, new) \in Statuses
BY DEF Forward

LEMMA UpdatedRow ==
  ASSUME NEW r \in DataRows, NEW new \in DataRows
  PROVE  /\ Updated(r, new) \in DataRows
         /\ Updated(r, new).table = r.table /\ Updated(r, new).tenant_id = r.tenant_id
         /\ Updated(r, new).key = r.key /\ Updated(r, new).at = r.at
         /\ r.table # "contacts" => Updated(r, new).tags = r.tags
<1> DEFINE status == IF r.table = "contacts" THEN Forward(r.status, new.status) ELSE new.status
           tags == IF r.table = "contacts" THEN r.tags \cup new.tags ELSE r.tags
           amount == r.amount + new.amount
<1>1. r.status \in Statuses /\ new.status \in Statuses /\ r.tags \in SUBSET Tags
      /\ new.tags \in SUBSET Tags /\ r.amount \in Nat /\ new.amount \in Nat
  BY DEF DataRows
<1>2. status \in Statuses
  BY <1>1, ForwardType
<1>3. tags \in SUBSET Tags
  BY <1>1
<1>4. amount \in Nat
  BY <1>1
<1>5. Updated(r, new) = [r EXCEPT !.status = status, !.tags = tags, !.amount = amount]
  BY DEF Updated
<1>6. r.table # "contacts" => tags = r.tags
  OBVIOUS
<1> HIDE DEF status, tags, amount
<1>7. [r EXCEPT !.status = status, !.tags = tags, !.amount = amount] \in DataRows
  BY <1>2, <1>3, <1>4 DEF DataRows
<1> QED
  BY <1>5, <1>6, <1>7 DEF DataRows

(* What Put leaves in a table: rows that were there or are new, with what  *)
(* identifies and dates them.                                              *)
LEMMA PutRows ==
  ASSUME NEW rows \in SUBSET DataRows, NEW news \in SUBSET DataRows, NEW row \in Put(rows, news)
  PROVE  /\ row \in DataRows
         /\ \/ row \in news /\ \A r \in rows : ~SameRow(r, row)
            \/ \E r \in rows :
                 /\ SameRow(r, row) /\ r.at = row.at
                 /\ r.table # "contacts" => r.tags = row.tags
                 /\ \/ row = r /\ \A new \in news : ~SameRow(r, new)
                    \/ \E new \in news : SameRow(r, new) /\ row = Updated(r, new)
<1>1. CASE row \in {r \in rows : \A new \in news : ~SameRow(r, new)}
  BY <1>1 DEF SameRow
<1>2. CASE row \in {Updated(p[1], p[2]) : p \in {p \in rows \X news : SameRow(p[1], p[2])}}
  <2>1. PICK r \in rows, new \in news : SameRow(r, new) /\ row = Updated(r, new)
    BY <1>2
  <2>2. SameRow(r, row) /\ r.at = row.at /\ (r.table # "contacts" => r.tags = row.tags)
    BY <2>1, UpdatedRow DEF SameRow
  <2> QED
    BY <2>1, <2>2, UpdatedRow
<1>3. CASE row \in {new \in news : \A r \in rows : ~SameRow(r, new)}
  BY <1>3
<1> QED
  BY <1>1, <1>2, <1>3 DEF Put

(* ... and it leaves each of them.                                         *)
LEMMA PutKeeps ==
  ASSUME NEW rows \in SUBSET DataRows, NEW news \in SUBSET DataRows, NEW r \in rows
  PROVE  \E row \in Put(rows, news) :
           /\ SameRow(row, r) /\ row.at = r.at
           /\ r.table # "contacts" => row.tags = r.tags
<1>1. CASE \A new \in news : ~SameRow(r, new)
  BY <1>1 DEF Put, SameRow
<1>2. CASE \E new \in news : SameRow(r, new)
  <2>1. PICK new \in news : SameRow(r, new)
    BY <1>2
  <2>2. <<r, new>> \in {p \in rows \X news : SameRow(p[1], p[2])}
    BY <2>1
  <2>3. Updated(r, new) \in Put(rows, news)
    BY <2>2 DEF Put
  <2> QED
    BY <2>3, UpdatedRow DEF SameRow
<1> QED
  BY <1>1, <1>2

(* The statements of a report and of an overview.                          *)
LEMMA ProgramsOf ==
  ASSUME NEW r
  PROVE  /\ r.kind = "none" => Program(r) = << >>
         /\ r.kind = "report" => Program(r) = UsageReport
         /\ r.kind = "overview" => Program(r) = Overview
BY DEF Program, Programs

LEMMA ProgramLength ==
  ASSUME NEW r, r.kind \in {"none", "report", "overview"}
  PROVE  /\ Len(Program(r)) = (IF r.kind = "none" THEN 0 ELSE IF r.kind = "report" THEN 11 ELSE 13)
         /\ DOMAIN Program(r) = 1..Len(Program(r))
<1>1. Len(<< >>) = 0 /\ DOMAIN << >> = 1..0
  OBVIOUS
<1>2. Len(UsageReport) = 11 /\ DOMAIN UsageReport = 1..11
  BY DEF UsageReport
<1>3. Len(Overview) = 13 /\ DOMAIN Overview = 1..13
  BY DEF Overview
<1> QED
  BY <1>1, <1>2, <1>3, ProgramsOf

LEMMA NamesOf ==
  ASSUME NEW r, r.kind \in {"report", "overview"}, NEW i \in DOMAIN Program(r)
  PROVE  Program(r)[i].name \in StatementNames
<1>1. r.kind \in DOMAIN Programs /\ Program(r) = Programs[r.kind]
  BY DEF Programs, Program
<1> QED
  BY <1>1 DEF StatementNames

(* The tables change under the readers: they are told, and go on.          *)
LEMMA WriteTold ==
  ASSUME ReportsTypeOK, NEW rows, Write(rows)
  PROVE  /\ data' = rows /\ reading' \in [Readers -> Readings]
         /\ \A w \in Readers :
              /\ reading'[w].kind = reading[w].kind /\ reading'[w].next = reading[w].next
              /\ reading'[w].tenant = reading[w].tenant /\ reading'[w].from = reading[w].from
              /\ reading'[w].to = reading[w].to /\ reading'[w].rows = reading[w].rows
              /\ reading'[w].kind # "none" => ~reading'[w].calm
<1>1. ASSUME NEW w \in Readers
      PROVE  LET r == IF reading[w].kind = "none" THEN reading[w]
                      ELSE [reading[w] EXCEPT !.calm = FALSE] IN
             /\ r \in Readings
             /\ r.kind = reading[w].kind /\ r.next = reading[w].next
             /\ r.tenant = reading[w].tenant /\ r.from = reading[w].from
             /\ r.to = reading[w].to /\ r.rows = reading[w].rows
             /\ r.kind # "none" => ~r.calm
  <2>1. reading[w] \in Readings
    BY DEF ReportsTypeOK
  <2> QED
    BY <2>1 DEF Readings
<1> QED
  BY <1>1 DEF Write

LEMMA SameProgram ==
  ASSUME NEW r, NEW s, r.kind = s.kind
  PROVE  Program(r) = Program(s)
BY DEF Program

(* A write of well-typed rows.                                             *)
LEMMA WriteType ==
  ASSUME ReportsTypeOK, NEW rows \in SUBSET DataRows, Write(rows)
  PROVE  /\ data' \subseteq DataRows /\ reading' \in [Readers -> Readings]
         /\ \A w \in Readers :
              /\ reading'[w].next \in 1..Len(Program(reading'[w])) + 1
              /\ reading'[w].kind = reading[w].kind
<1>1. \A w \in Readers : Program(reading'[w]) = Program(reading[w])
  BY WriteTold, SameProgram
<1> QED
  BY <1>1, WriteTold DEF ReportsTypeOK

LEMMA NotReadingType ==
  NotReading \in Readings /\ NotReading.kind = "none" /\ NotReading.next = 1
<1>1. 0 \in Days
  BY DayOf, Consts
<1>2. [n \in StatementNames |-> {}] \in [StatementNames -> SUBSET DataRows]
  OBVIOUS
<1> QED
  BY <1>1, <1>2, Consts DEF NotReading, Readings

(* What stays as it was keeps its type.                                    *)
LEMMA EventKept ==
  ASSUME ReportsTypeOK, now' \in 0..MaxTime, now <= now', event' = event
  PROVE  /\ event' \in [pc : {"idle", "insert", "commit"}, payload : Payloads \cup {Null},
                        number : Ids, began : 0..now', day : Days]
         /\ event'.pc # "idle" => event'.payload \in Payloads
<1>1. 0..now \subseteq 0..now'
  BY Consts DEF ReportsTypeOK
<1> QED
  BY <1>1 DEF ReportsTypeOK

LEMMA NoEventType ==
  ASSUME ReportsTypeOK
  PROVE  /\ NoEvent \in [pc : {"idle", "insert", "commit"}, payload : Payloads \cup {Null},
                         number : Ids, began : 0..now, day : Days]
         /\ NoEvent.pc = "idle"
<1>1. 0 \in 0..now /\ 0 \in Days
  BY DayOf, Consts DEF ReportsTypeOK
<1> QED
  BY <1>1, Consts DEF NoEvent

LEMMA EventTypes ==
  ASSUME ReportsTypeOK, TypeOK', ReceiveEvent \/ StampEvent \/ CommitEvent \/ FailEvent
  PROVE  ReportsTypeOK'
<1> DEFINE Events(n) == [pc : {"idle", "insert", "commit"}, payload : Payloads \cup {Null},
                         number : Ids, began : 0..n, day : Days]
<1>1. now \in 0..MaxTime /\ now' = now /\ sessions' = sessions
  BY DEF ReportsTypeOK, ReceiveEvent, StampEvent, CommitEvent, FailEvent, vars
<1>2. event' \in Events(now) /\ (event'.pc # "idle" => event'.payload \in Payloads)
  <2>1. CASE ReceiveEvent
    <3>1. requests + 1 \in Ids
      BY <2>1, TenantBodiesAssumption DEF ReceiveEvent, ReportsTypeOK, TypeOK, Ids
    <3>2. NoEvent \in Events(now) /\ now \in 0..now
      BY <1>1, NoEventType, Consts
    <3> QED
      BY <2>1, <3>1, <3>2 DEF ReceiveEvent
  <2>2. CASE StampEvent
    BY <1>1, <2>2, DayOf DEF StampEvent, ReportsTypeOK
  <2>3. CASE CommitEvent \/ FailEvent
    BY <2>3, NoEventType DEF CommitEvent, FailEvent
  <2> QED
    BY <2>1, <2>2, <2>3
<1>3. /\ data' \subseteq DataRows /\ reading' \in [Readers -> Readings]
      /\ \A w \in Readers : /\ reading'[w].next \in 1..Len(Program(reading'[w])) + 1
                            /\ reading'[w].kind = reading[w].kind
  <2>1. CASE ReceiveEvent \/ StampEvent
    BY <2>1 DEF ReceiveEvent, StampEvent, ReportsTypeOK
  <2>2. CASE CommitEvent
    <3>1. Stored(event) \subseteq DataRows /\ data \subseteq DataRows
      BY <2>2, StoredRows DEF CommitEvent, ReportsTypeOK
    <3>2. Put(data, Stored(event)) \subseteq DataRows
      BY <3>1, PutRows
    <3> QED
      BY <2>2, <3>2, WriteType DEF CommitEvent
  <2>3. CASE FailEvent
    <3>1. event.payload.tenant_id \in Ids /\ event.number \in Keys
      BY <2>3, ReportsAssumption DEF FailEvent, ReportsTypeOK, Keys
    <3>2. {} \in SUBSET Tags /\ "none" \in Statuses
      BY DEF Statuses
    <3>3. Record("failed_events", event.payload.tenant_id, event.number, now, {}, "none", 0, Null)
            \in DataRows
      BY <1>1, <3>1, <3>2, RecordRow DEF Tables
    <3> QED
      BY <2>3, <3>3, WriteType DEF FailEvent, ReportsTypeOK
  <2> QED
    BY <2>1, <2>2, <2>3
<1> QED
  BY <1>1, <1>2, <1>3 DEF ReportsTypeOK

LEMMA ContactTypes ==
  ASSUME ReportsTypeOK, TypeOK', NEW w \in Threads, CreateContact(w) \/ PatchContact(w)
  PROVE  ReportsTypeOK'
<1>1. /\ now \in 0..MaxTime /\ now' = now /\ sessions' = sessions /\ event' = event
      /\ requests + 1 \in Ids
  BY TenantBodiesAssumption
     DEF ReportsTypeOK, TypeOK, Ids, CreateContact, PatchContact, Arrives
<1>2. /\ data' \subseteq DataRows /\ reading' \in [Readers -> Readings]
      /\ \A v \in Readers : /\ reading'[v].next \in 1..Len(Program(reading'[v])) + 1
                            /\ reading'[v].kind = reading[v].kind
  <2>1. CASE CreateContact(w)
    <3>1. PICK t \in DOMAIN tenants, status \in ContactStatuses :
            Write(data \cup {Record("contacts", t, requests + 1, now, {}, status, 0, Null)})
      BY <2>1 DEF CreateContact
    <3>2. t \in Ids /\ requests + 1 \in Keys /\ status \in Statuses /\ {} \in SUBSET Tags
      BY <1>1 DEF ReportsTypeOK, TypeOK, Keys, Statuses
    <3>3. Record("contacts", t, requests + 1, now, {}, status, 0, Null) \in DataRows
      BY <1>1, <3>2, RecordRow DEF Tables
    <3> QED
      BY <3>1, <3>3, WriteType DEF ReportsTypeOK
  <2>2. CASE PatchContact(w)
    <3>1. PICK r \in data, status \in ContactStatuses :
            Write((data \ {r}) \cup {[r EXCEPT !.status = status]})
      BY <2>2 DEF PatchContact
    <3>2. status \in Statuses /\ r \in DataRows
      BY DEF Statuses, ReportsTypeOK
    <3>3. [r EXCEPT !.status = status] \in DataRows
      BY <3>2 DEF DataRows
    <3> QED
      BY <3>1, <3>3, WriteType DEF ReportsTypeOK
  <2> QED
    BY <2>1, <2>2
<1> QED
  BY <1>1, <1>2 DEF ReportsTypeOK

(* A reader that begins, goes on or stops.                                 *)
LEMMA ReadingTypes ==
  ASSUME ReportsTypeOK, TypeOK', NEW w \in Readers, NEW r \in Readings,
         r.next \in 1..Len(Program(r)) + 1, r.kind # "none" => sessions[w].pc = "idle",
         reading' = [reading EXCEPT ![w] = r], UNCHANGED <<sessions, data, now, event>>
  PROVE  ReportsTypeOK'
BY DEF ReportsTypeOK

LEMMA OpenTypes ==
  ASSUME ReportsTypeOK, TypeOK', NEW w \in Readers, OpenReport(w) \/ OpenOverview(w)
  PROVE  ReportsTypeOK'
<1>1. PICK r \in Readings :
        r.kind \in {"report", "overview"} /\ r.next = 1 /\ StartReading(w, r)
  <2>1. CASE OpenReport(w)
    <3>1. PICK t \in DOMAIN tenants, from \in Days, to \in Days :
            StartReading(w, [NotReading EXCEPT !.kind = "report", !.tenant = t,
                                               !.from = from, !.to = to])
      BY <2>1 DEF OpenReport
    <3>2. t \in Ids
      BY DEF ReportsTypeOK, TypeOK
    <3> QED
      BY <3>1, <3>2, NotReadingType DEF Readings
  <2>2. CASE OpenOverview(w)
    <3>1. PICK t \in DOMAIN tenants \cup {Everyone} :
            StartReading(w, [NotReading EXCEPT !.kind = "overview", !.tenant = t])
      BY <2>2 DEF OpenOverview
    <3>2. t \in Ids \cup {Everyone}
      BY DEF ReportsTypeOK, TypeOK
    <3> QED
      BY <3>1, <3>2, NotReadingType DEF Readings
  <2> QED
    BY <2>1, <2>2
<1>2. r.next \in 1..Len(Program(r)) + 1
  BY <1>1, ProgramLength
<1> QED
  BY <1>1, <1>2, ReadingTypes DEF StartReading, Arrives

(* What a statement finds.                                                 *)
Finds(r, st) == IF st.after # "none" /\ r.rows[st.after] = {} THEN {} ELSE Selected(r, st)

LEMMA FindsRows ==
  ASSUME ReportsTypeOK, NEW r, NEW st
  PROVE  /\ Finds(r, st) \subseteq data /\ Finds(r, st) \subseteq Selected(r, st)
         /\ Finds(r, st) \in SUBSET DataRows
         /\ \A row : row \in Selected(r, st) <=> row \in data /\ Asked(r, st, row)
BY DEF Finds, Selected, Asked, ReportsTypeOK

LEMMA StatementRuns ==
  ASSUME ReportsTypeOK, NEW w \in Readers, RunStatement(w)
  PROVE  LET r  == reading[w]
             s  == reading'[w]
             st == Program(r)[r.next] IN
         /\ r.kind \in {"report", "overview"} /\ r.next \in DOMAIN Program(r)
         /\ s \in Readings /\ s.next = r.next + 1
         /\ s.kind = r.kind /\ s.tenant = r.tenant /\ s.from = r.from /\ s.to = r.to
         /\ s.calm = r.calm
         /\ st.name \in StatementNames /\ s.rows[st.name] = Finds(r, st)
         /\ \A n \in StatementNames \ {st.name} : s.rows[n] = r.rows[n]
         /\ reading' = [reading EXCEPT ![w] = s]
<1> DEFINE r == reading[w]
           st == Program(r)[r.next]
           s == [r EXCEPT !.next = @ + 1, !.rows[st.name] = Finds(r, st)]
<1>1. /\ r \in Readings /\ r.next <= Len(Program(r)) /\ r.next \in 1..Len(Program(r)) + 1
      /\ reading' = [reading EXCEPT ![w] = s]
  BY DEF ReportsTypeOK, RunStatement, Finds
<1>2. r.kind \in {"report", "overview"} /\ r.next \in DOMAIN Program(r)
  BY <1>1, ProgramLength DEF Readings
<1>3. st.name \in StatementNames /\ Finds(r, st) \in SUBSET DataRows
  BY <1>2, NamesOf, FindsRows
<1>4. reading'[w] = s
  BY <1>1 DEF ReportsTypeOK
<1> DEFINE rows == [r.rows EXCEPT ![st.name] = Finds(r, st)]
<1>5. s \in Readings /\ s.rows = rows
  <2> HIDE DEF st
  <2>1. r.rows \in [StatementNames -> SUBSET DataRows] /\ r.next + 1 \in Nat
    BY <1>1 DEF Readings
  <2>2. rows \in [StatementNames -> SUBSET DataRows]
    BY <1>3, <2>1
  <2>3. s = [r EXCEPT !.next = r.next + 1, !.rows = rows]
    OBVIOUS
  <2> HIDE DEF rows
  <2> QED
    BY <1>1, <2>1, <2>2, <2>3 DEF Readings
<1> HIDE DEF st
<1>6. /\ s.rows[st.name] = Finds(r, st)
      /\ \A n \in StatementNames \ {st.name} : s.rows[n] = r.rows[n]
  BY <1>1, <1>3, <1>5 DEF Readings
<1>7. /\ s.next = r.next + 1 /\ s.kind = r.kind /\ s.tenant = r.tenant
      /\ s.from = r.from /\ s.to = r.to /\ s.calm = r.calm
  BY <1>1 DEF Readings
<1> HIDE DEF s
<1> QED
  BY <1>1, <1>2, <1>3, <1>4, <1>5, <1>6, <1>7 DEF st

LEMMA ReportsNextType ==
  ASSUME ReportsTypeOK, TypeOK', [ReportsNext]_all_vars
  PROVE  ReportsTypeOK'
<1>1. CASE UNCHANGED all_vars
  BY <1>1 DEF all_vars, report_vars, vars, ReportsTypeOK
<1>2. CASE ReceiveEvent \/ StampEvent \/ CommitEvent \/ FailEvent
  BY <1>2, EventTypes
<1>3. CASE \E w \in Threads : CreateContact(w) \/ PatchContact(w)
  BY <1>3, ContactTypes
<1>4. CASE \E w \in Readers : OpenReport(w) \/ OpenOverview(w)
  BY <1>4, OpenTypes
<1>5. ASSUME NEW w \in Readers, RunStatement(w) PROVE ReportsTypeOK'
  <2>1. /\ UNCHANGED <<sessions, data, now, event>> /\ reading[w].kind \in {"report", "overview"}
        /\ reading[w].next <= Len(Program(reading[w]))
    BY <1>5, StatementRuns DEF RunStatement, vars
  <2>2. reading'[w].next \in 1..Len(Program(reading'[w])) + 1
    <3>1. Program(reading'[w]) = Program(reading[w]) /\ reading'[w].next = reading[w].next + 1
      BY <1>5, StatementRuns, SameProgram
    <3>2. reading[w].next \in 1..Len(Program(reading[w])) + 1 /\ Len(Program(reading[w])) \in Nat
      BY <2>1, ProgramLength DEF ReportsTypeOK
    <3> QED
      BY <2>1, <3>1, <3>2
  <2> DEFINE s == reading'[w]
  <2>3. reading' = [reading EXCEPT ![w] = s] /\ s \in Readings
    BY <1>5, StatementRuns
  <2>4. sessions[w].pc = "idle" /\ s.next \in 1..Len(Program(s)) + 1
    BY <2>1, <2>2 DEF ReportsTypeOK
  <2> HIDE DEF s
  <2> QED
    BY <2>1, <2>3, <2>4, ReadingTypes
<1>6. ASSUME NEW w \in Readers, StopReading(w) PROVE ReportsTypeOK'
  <2>1. NotReading.next \in 1..Len(Program(NotReading)) + 1
    BY NotReadingType, ProgramLength
  <2> QED
    BY <1>6, <2>1, NotReadingType, ReadingTypes DEF StopReading, vars
<1>7. CASE AdminStep
  <2>1. now' = now /\ event' = event
    BY <1>7 DEF AdminStep
  <2>2. \A w \in Readers : reading[w].kind # "none" => sessions'[w].pc = "idle"
    BY <1>7, Consts DEF AdminStep, Reading, ReportsTypeOK
  <2>3. CASE UNCHANGED <<data, reading>>
    BY <2>1, <2>2, <2>3 DEF ReportsTypeOK
  <2>4. CASE Write({r \in data : r.tenant_id \in DOMAIN tenants'})
    <3>1. {r \in data : r.tenant_id \in DOMAIN tenants'} \in SUBSET DataRows
      BY DEF ReportsTypeOK
    <3> QED
      BY <2>1, <2>2, <2>4, <3>1, WriteType DEF ReportsTypeOK
  <2> QED
    BY <1>7, <2>3, <2>4 DEF AdminStep
<1>8. CASE Tick
  <2>1. now' \in 0..MaxTime /\ now <= now'
    BY <1>8, Consts DEF Tick, ReportsTypeOK
  <2> QED
    BY <1>8, <2>1, EventKept DEF Tick, vars, ReportsTypeOK
<1> QED
  BY <1>1, <1>2, <1>3, <1>4, <1>5, <1>6, <1>7, <1>8 DEF ReportsNext

(* The rows of the tables, the clock, the event loop's transaction and     *)
(* what the readers have found keep their types; only an idle thread reads.*)
THEOREM ReportsTypeCorrect == ReportsSpec => []ReportsTypeOK
<1>1. ReportsInit => ReportsTypeOK
  <2> SUFFICES ASSUME ReportsInit PROVE ReportsTypeOK
    OBVIOUS
  <2>1. 0 \in 0..MaxTime /\ 0 \in 0..0 /\ 0 \in Days
    BY DayOf, Consts
  <2>2. TypeOK
    BY InitType DEF ReportsInit
  <2>3. event \in [pc : {"idle", "insert", "commit"}, payload : Payloads \cup {Null},
                   number : Ids, began : 0..now, day : Days] /\ event.pc = "idle"
    BY <2>1, Consts DEF ReportsInit, NoEvent
  <2>4. \A w \in Readers : reading[w].next \in 1..Len(Program(reading[w])) + 1
    BY NotReadingType, ProgramLength DEF ReportsInit
  <2> QED
    BY <2>1, <2>2, <2>3, <2>4, NotReadingType DEF ReportsInit, ReportsTypeOK
<1>2. ReportsTypeOK /\ AdminInv /\ [ReportsNext]_all_vars => ReportsTypeOK'
  <2> SUFFICES ASSUME ReportsTypeOK, AdminInv, [ReportsNext]_all_vars PROVE ReportsTypeOK'
    OBVIOUS
  <2>1. TypeOK'
    BY AdminStepsOnly, NumberTaken, NextType DEF ReportsTypeOK
  <2> QED
    BY <2>1, ReportsNextType
<1> QED
  BY <1>1, <1>2, AdminInductive, PTL DEF ReportsSpec

-----------------------------------------------------------------------------
(* What one step does to the rows.                                         *)

(* A row is still the same one: its key and its date, and the tags of all  *)
(* but a contact, are what they were.                                      *)
Continues(d, r) == SameRow(d, r) /\ d.at = r.at /\ (r.table # "contacts" => d.tags = r.tags)

(* A row that appears is of the time, and its key is new.                  *)
Appears(d) ==
  /\ d.table \in {"contacts", "message_logs"} =>
       d.at = now \/ (event.pc # "idle" /\ d.at = event.began)
  /\ d.table = "contacts" => d.key \notin Ids \/ d.key = requests'
  /\ d.table = "message_logs" =>
       \A out \in {SmsOut, EmailOut} : out \subseteq d.tags => d.tags = out

RowsGoOn ==
  /\ \A r \in data : r.tenant_id \in DOMAIN tenants' => \E d \in data' : Continues(d, r)
  /\ \A d \in data' : Appears(d) \/ \E r \in data : Continues(d, r)

LEMMA RowContinues ==
  ASSUME NEW r
  PROVE  Continues(r, r)
BY DEF Continues, SameRow

LEMMA RowsCommit ==
  ASSUME ReportsTypeOK, CommitEvent
  PROVE  RowsGoOn
<1>1. /\ event.pc # "idle" /\ data' = Put(data, Stored(event))
      /\ data \in SUBSET DataRows /\ Stored(event) \in SUBSET DataRows
  BY StoredRows DEF CommitEvent, Write, ReportsTypeOK
<1>2. \A r \in data : \E d \in data' : Continues(d, r)
  BY <1>1, PutKeeps DEF Continues
<1>3. ASSUME NEW d \in data', ~\E r \in data : Continues(d, r)
      PROVE  Appears(d)
  <2>1. d \in Stored(event)
    <3>1. ASSUME NEW r \in data, SameRow(r, d), r.at = d.at, r.table # "contacts" => r.tags = d.tags
          PROVE  Continues(d, r)
      BY <3>1 DEF Continues, SameRow
    <3> QED
      BY <1>1, <1>3, <3>1, PutRows
  <2> QED
    BY <1>1, <2>1, StoredRows DEF Appears
<1> QED
  BY <1>2, <1>3 DEF RowsGoOn

LEMMA RowsFail ==
  ASSUME ReportsTypeOK, FailEvent
  PROVE  RowsGoOn
<1> DEFINE row == Record("failed_events", event.payload.tenant_id, event.number, now, {}, "none",
                         0, Null)
<1>1. data' = data \cup {row} /\ row.table = "failed_events"
  BY DEF FailEvent, Write, Record
<1> HIDE DEF row
<1> QED
  BY <1>1, RowContinues DEF RowsGoOn, Appears

LEMMA RowsContact ==
  ASSUME ReportsTypeOK, NEW w \in Threads, CreateContact(w) \/ PatchContact(w)
  PROVE  RowsGoOn
<1>1. CASE CreateContact(w)
  <2>1. PICK t \in DOMAIN tenants, status \in ContactStatuses :
          Write(data \cup {Record("contacts", t, requests + 1, now, {}, status, 0, Null)})
    BY <1>1 DEF CreateContact
  <2> DEFINE row == Record("contacts", t, requests + 1, now, {}, status, 0, Null)
  <2>2. row.table = "contacts" /\ row.key = requests + 1 /\ row.at = now
    BY DEF Record
  <2>3. data' = data \cup {row} /\ requests' = requests + 1
    BY <1>1, <2>1 DEF Write, CreateContact, Arrives
  <2> HIDE DEF row
  <2> QED
    BY <2>2, <2>3, RowContinues DEF RowsGoOn, Appears
<1>2. CASE PatchContact(w)
  <2>1. PICK r \in data, status \in ContactStatuses :
          /\ r.table = "contacts"
          /\ Write((data \ {r}) \cup {[r EXCEPT !.status = status]})
    BY <1>2 DEF PatchContact
  <2> DEFINE row == [r EXCEPT !.status = status]
  <2>2. Continues(row, r)
    BY <2>1 DEF ReportsTypeOK, DataRows, Continues, SameRow
  <2>3. data' = (data \ {r}) \cup {row}
    BY <2>1 DEF Write
  <2> HIDE DEF row
  <2> QED
    BY <2>2, <2>3, RowContinues DEF RowsGoOn
<1> QED
  BY <1>1, <1>2

LEMMA RowsStep ==
  ASSUME ReportsTypeOK, [ReportsNext]_all_vars
  PROVE  RowsGoOn
<1>1. CASE data' = data
  BY <1>1, RowContinues DEF RowsGoOn
<1>2. CASE UNCHANGED all_vars \/ ReceiveEvent \/ StampEvent \/ Tick
  BY <1>1, <1>2 DEF all_vars, report_vars, ReceiveEvent, StampEvent, Tick
<1>3. CASE \E w \in Readers : OpenReport(w) \/ OpenOverview(w) \/ RunStatement(w) \/ StopReading(w)
  BY <1>1, <1>3 DEF OpenReport, OpenOverview, StartReading, RunStatement, StopReading
<1>4. CASE CommitEvent \/ FailEvent
  BY <1>4, RowsCommit, RowsFail
<1>5. CASE \E w \in Threads : CreateContact(w) \/ PatchContact(w)
  BY <1>5, RowsContact
<1>6. CASE AdminStep
  <2>1. data' = data \/ data' = {r \in data : r.tenant_id \in DOMAIN tenants'}
    BY <1>6 DEF AdminStep, Write
  <2> QED
    BY <1>1, <2>1, RowContinues DEF RowsGoOn
<1> QED
  BY <1>2, <1>3, <1>4, <1>5, <1>6 DEF ReportsNext

DayIsFinal ==
  \A day \in Days, t \in DOMAIN tenants' : Over(day) => CreatedOn(day, t)' = CreatedOn(day, t)

(* Contacts and messages that a usage report counts for a day that is over *)
(* stay: no upsert changes a created_at, and whatever commits late is      *)
(* dated by a transaction that began after the day.                        *)
THEOREM ReportsDoSettle == ReportsSpec => ReportsSettle
<1>1. ASSUME ReportsTypeOK, [ReportsNext]_all_vars
      PROVE  DayIsFinal
  <2> SUFFICES ASSUME NEW day \in Days, NEW t \in DOMAIN tenants', Over(day)
               PROVE  CreatedOn(day, t)' = CreatedOn(day, t)
    BY DEF DayIsFinal
  <2> DEFINE counted(r) == /\ r.table \in {"contacts", "message_logs"}
                           /\ r.tenant_id = t /\ InPeriod(r.at, day, day)
  <2>1. \A d \in data' : counted(d) => ~Appears(d)
    <3>1. now \in Nat /\ event.began \in Nat /\ (day + 1) * DayLength \in Int
      BY <1>1, Consts DEF ReportsTypeOK, Days
    <3> QED
      BY <3>1 DEF Over, InPeriod, Appears
  <2>2. \A d, r : Continues(d, r) =>
          (counted(d) <=> counted(r)) /\ <<d.table, d.key>> = <<r.table, r.key>>
    BY DEF Continues, SameRow
  <2>3. CreatedOn(day, t) = {<<r.table, r.key>> : r \in {r \in data : counted(r)}}
    BY DEF CreatedOn
  <2>4. CreatedOn(day, t)' = {<<r.table, r.key>> : r \in {r \in data' : counted(r)}}
    BY DEF CreatedOn
  <2>5. RowsGoOn
    BY <1>1, RowsStep
  <2>6. ASSUME NEW r \in data, counted(r)
        PROVE  \E d \in data' : counted(d) /\ <<d.table, d.key>> = <<r.table, r.key>>
    BY <2>2, <2>5, <2>6 DEF RowsGoOn
  <2>7. ASSUME NEW d \in data', counted(d)
        PROVE  \E r \in data : counted(r) /\ <<r.table, r.key>> = <<d.table, d.key>>
    BY <2>1, <2>2, <2>5, <2>7 DEF RowsGoOn
  <2> HIDE DEF counted
  <2> QED
    BY <2>3, <2>4, <2>6, <2>7
<1>2. ReportsTypeOK /\ [ReportsNext]_all_vars => [DayIsFinal]_all_vars
  BY <1>1
<1> QED
  BY <1>2, ReportsTypeCorrect, PTL DEF ReportsSpec, ReportsSettle, DayIsFinal

-----------------------------------------------------------------------------
(* The rows stay finitely many, with keys.                                 *)

LEMMA PutFinite ==
  ASSUME NEW rows, NEW news, IsFiniteSet(rows), IsFiniteSet(news)
  PROVE  IsFiniteSet(Put(rows, news))
<1> DEFINE pairs   == {p \in rows \X news : SameRow(p[1], p[2])}
           updated == {Updated(p[1], p[2]) : p \in pairs}
           kept    == {r \in rows : \A new \in news : ~SameRow(r, new)}
           added   == {new \in news : \A r \in rows : ~SameRow(r, new)}
           f       == [p \in pairs |-> Updated(p[1], p[2])]
<1>1. IsFiniteSet(kept) /\ IsFiniteSet(added)
  <2>1. kept \in SUBSET rows /\ added \in SUBSET news
    OBVIOUS
  <2> QED
    BY <2>1, FS_Subset
<1>2. IsFiniteSet(pairs)
  <2>1. pairs \in SUBSET (rows \X news)
    OBVIOUS
  <2> QED
    BY <2>1, FS_Product, FS_Subset
<1>3. f \in Surjection(pairs, updated)
  BY DEF Surjection
<1>4. IsFiniteSet(updated)
  BY <1>2, <1>3, FS_Surjection
<1>5. Put(rows, news) = (kept \cup updated) \cup added
  BY DEF Put
<1> HIDE DEF kept, updated, added
<1> QED
  BY <1>1, <1>4, <1>5, FS_Union

LEMMA StoredFinite ==
  ASSUME NEW e
  PROVE  IsFiniteSet(Stored(e))
<1> DEFINE p == e.payload
           R(table, key, at, tags, status, amount, contact) ==
             Record(table, p.tenant_id, key, at, tags, status, amount, contact)
           a == R("lead_events", e.number, p.occurred_at, {p.event_type}, "none", 0, Null)
           b == R("contacts", p.contact, e.began, p.opt_outs, p.status, 0, Null)
           c == R("campaign_stats", p.campaign, e.began, {}, "none", 0, Null)
           d == R("workflow_stats", p.workflow, e.began, {}, "none", 0, Null)
           m == R("message_logs", p.message, e.began, p.medium, p.message_status, 0, p.contact)
           r == R("revenue_snapshots", e.day, e.began, {}, "none", p.amount, Null)
<1>1. Stored(e) \subseteq {a} \cup {b} \cup {c} \cup {d} \cup {m} \cup {r}
  BY DEF Stored
<1> HIDE DEF a, b, c, d, m, r
<1>2. IsFiniteSet({a} \cup {b} \cup {c} \cup {d} \cup {m} \cup {r})
  <2>1. IsFiniteSet({a} \cup {b})
    BY FS_Singleton, FS_Union
  <2>2. IsFiniteSet({a} \cup {b} \cup {c})
    BY <2>1, FS_Singleton, FS_AddElement
  <2>3. IsFiniteSet({a} \cup {b} \cup {c} \cup {d})
    BY <2>2, FS_AddElement
  <2>4. IsFiniteSet({a} \cup {b} \cup {c} \cup {d} \cup {m})
    BY <2>3, FS_AddElement
  <2> QED
    BY <2>4, FS_AddElement
<1> QED
  BY <1>1, <1>2, FS_Subset

(* An event has one row for a table.                                       *)
LEMMA StoredDistinct ==
  ASSUME NEW e, NEW x \in Stored(e), NEW y \in Stored(e), x.table = y.table
  PROVE  x = y
<1> DEFINE p == e.payload
           R(table, key, at, tags, status, amount, contact) ==
             Record(table, p.tenant_id, key, at, tags, status, amount, contact)
           a == R("lead_events", e.number, p.occurred_at, {p.event_type}, "none", 0, Null)
           b == R("contacts", p.contact, e.began, p.opt_outs, p.status, 0, Null)
           c == R("campaign_stats", p.campaign, e.began, {}, "none", 0, Null)
           d == R("workflow_stats", p.workflow, e.began, {}, "none", 0, Null)
           m == R("message_logs", p.message, e.began, p.medium, p.message_status, 0, p.contact)
           r == R("revenue_snapshots", e.day, e.began, {}, "none", p.amount, Null)
<1>1. Stored(e) \subseteq {a, b, c, d, m, r}
  BY DEF Stored
<1>2. /\ a.table = "lead_events" /\ b.table = "contacts" /\ c.table = "campaign_stats"
      /\ d.table = "workflow_stats" /\ m.table = "message_logs" /\ r.table = "revenue_snapshots"
  BY DEF Record
<1> HIDE DEF a, b, c, d, m, r
<1> QED
  BY <1>1, <1>2

(* Rows of some tables have keys.                                          *)
Keyed(rows) ==
  \A a, b \in rows : a.table \in {"contacts", "message_logs"} /\ SameRow(a, b) => a = b

LEMMA PutKeyed ==
  ASSUME NEW rows \in SUBSET DataRows, NEW news \in SUBSET DataRows, Keyed(rows),
         \A x, y \in news : x.table = y.table => x = y
  PROVE  Keyed(Put(rows, news))
<1> SUFFICES ASSUME NEW a \in Put(rows, news), NEW b \in Put(rows, news),
                    a.table \in {"contacts", "message_logs"}, SameRow(a, b)
             PROVE  a = b
  BY DEF Keyed
<1> DEFINE From(d, r) == /\ r \in rows /\ SameRow(r, d)
                         /\ \/ d = r /\ \A new \in news : ~SameRow(r, new)
                            \/ \E new \in news : SameRow(r, new) /\ d = Updated(r, new)
           Fresh(d) == d \in news /\ \A r \in rows : ~SameRow(r, d)
<1>1. (Fresh(a) \/ \E r : From(a, r)) /\ (Fresh(b) \/ \E r : From(b, r))
  BY PutRows
<1>2. CASE Fresh(a) \/ Fresh(b)
  <2>1. Fresh(a) /\ Fresh(b)
    BY <1>1, <1>2 DEF SameRow
  <2> QED
    BY <2>1 DEF SameRow
<1>3. ASSUME NEW r, From(a, r), NEW q, From(b, q)
      PROVE  a = b
  <2>1. SameRow(r, q) /\ r.table \in {"contacts", "message_logs"}
    BY <1>3 DEF SameRow
  <2>2. r = q
    BY <1>3, <2>1 DEF Keyed
  <2> QED
    BY <1>3, <2>2 DEF SameRow
<1> QED
  BY <1>1, <1>2, <1>3

(* Requests are counted up; a tenant that appears was being created, and   *)
(* no request is about to create one with an old number.                   *)
LEMMA TenantsComeAndGo ==
  ASSUME TypeOK, AdminInv, [Next]_vars \/ TakesNumber
  PROVE  /\ requests \in Nat /\ requests <= requests'
         /\ \A t \in DOMAIN tenants' : t \in DOMAIN tenants \/ Returns(t)
         /\ \A t \in 0..requests : Returns(t)' => Returns(t)
<1>1. requests \in Nat /\ NumbersInv
  BY TenantBodiesAssumption DEF TypeOK, Ids, AdminInv
<1>2. CASE UNCHANGED vars \/ TakesNumber
  BY <1>1, <1>2 DEF vars, tables, TakesNumber, Returns
<1>3. ASSUME Next PROVE /\ requests <= requests'
                        /\ \A t \in DOMAIN tenants' : t \in DOMAIN tenants \/ Returns(t)
                        /\ \A t \in 0..requests : Returns(t)' => Returns(t)
  <2>1. PICK w \in Threads :
          \/ CreateTenant(w) \/ UpdateTenant(w) \/ DeleteTenant(w) \/ Register(w)
          \/ Waits(w) \/ Writes(w) \/ (CommitDelete(w) /\ ~Fail(w))
    BY <1>3, Kinds
  <2>2. CASE CreateTenant(w) \/ UpdateTenant(w) \/ DeleteTenant(w) \/ Register(w)
    <3>1. Begins(w) /\ Others(w) /\ tenants' = tenants
      BY <2>2, BeginsCreate, BeginsUpdate, BeginsDelete, BeginsRegister
         DEF CreateTenant, UpdateTenant, DeleteTenant, tables
    <3>2. requests' = requests + 1
      BY <3>1 DEF Begins
    <3>3. \A t \in 0..requests : Returns(t)' => Returns(t)
      BY <1>1, <3>1 DEF Begins, Others, Returns
    <3>4. requests <= requests' /\ DOMAIN tenants' = DOMAIN tenants
      BY <1>1, <3>1, <3>2
    <3> QED
      BY <3>3, <3>4
  <2>3. CASE Waits(w)
    <3>1. GoesOn(w) /\ Others(w) /\ tenants' = tenants
      BY <2>3, WaitsMove DEF tables
    <3>2. sessions'[w] = IdleSession \/
            (sessions[w].pc = "insert" /\ sessions'[w] = [sessions[w] EXCEPT !.pc = "commit"])
      BY <2>3, WaitsMove
    <3>3. \A t : Returns(t)' => Returns(t)
      <4>1. sessions'[w].pc \in {"insert", "commit"} =>
              /\ sessions[w].pc = "insert" /\ sessions'[w].op = sessions[w].op
              /\ sessions'[w].tenant = sessions[w].tenant
        BY <3>2, IdleFields, MovedOn
      <4> QED
        BY <3>1, <4>1 DEF Others, Returns
    <3> QED
      BY <1>1, <3>1, <3>3 DEF GoesOn
  <2>4. CASE Writes(w)
    <3>1. /\ GoesOn(w) /\ Others(w) /\ sessions[w].pc = "commit"
          /\ sessions'[w] = IdleSession \/ sessions'[w] = [sessions[w] EXCEPT !.pc = "refresh"]
          /\ \A t \in DOMAIN tenants' :
               t \in DOMAIN tenants \/ (sessions[w].op = "create" /\ t = sessions[w].tenant)
      BY <2>4, WritesMove DEF AdminInv
    <3>2. sessions'[w].pc \notin {"insert", "commit"}
      BY <3>1, IdleFields, MovedOn
    <3> QED
      BY <1>1, <3>1, <3>2 DEF GoesOn, Others, Returns
  <2>5. CASE CommitDelete(w) /\ ~Fail(w)
    <3>1. /\ GoesOn(w) /\ Others(w) /\ sessions'[w] = IdleSession
          /\ DOMAIN tenants' = DOMAIN tenants \ {sessions[w].tenant}
      BY <2>5, RemovesMove
    <3> QED
      BY <1>1, <3>1, IdleFields DEF GoesOn, Others, Returns
  <2> QED
    BY <2>1, <2>2, <2>3, <2>4, <2>5
<1> QED
  BY <1>1, <1>2, <1>3

LEMMA RequestsGrow ==
  ASSUME TypeOK, AdminInv, TypeOK', [ReportsNext]_all_vars
  PROVE  requests \in Nat /\ requests' \in Nat /\ requests <= requests' /\ requests' \in Ids
BY AdminStepsOnly, TenantsComeAndGo, Consts DEF TypeOK, Ids

LEMMA RowsKeyed ==
  ASSUME ReportsTypeOK, RowsInv, TypeOK', [ReportsNext]_all_vars
  PROVE  IsFiniteSet(data') /\ Keyed(data')
<1>1. IsFiniteSet(data) /\ Keyed(data) /\ data \in SUBSET DataRows
  BY DEF RowsInv, Keyed, ReportsTypeOK
<1>2. CASE data' \subseteq data
  BY <1>1, <1>2, FS_Subset DEF Keyed
<1>3. CASE UNCHANGED all_vars \/ ReceiveEvent \/ StampEvent \/ Tick
  BY <1>2, <1>3 DEF all_vars, report_vars, ReceiveEvent, StampEvent, Tick
<1>4. CASE \E w \in Readers : OpenReport(w) \/ OpenOverview(w) \/ RunStatement(w) \/ StopReading(w)
  BY <1>2, <1>4 DEF OpenReport, OpenOverview, StartReading, RunStatement, StopReading
<1>5. CASE AdminStep
  BY <1>2, <1>5 DEF AdminStep, Write
<1>6. CASE CommitEvent
  <2>1. data' = Put(data, Stored(event)) /\ Stored(event) \in SUBSET DataRows
    BY <1>6, StoredRows DEF CommitEvent, Write
  <2> QED
    BY <1>1, <2>1, PutFinite, PutKeyed, StoredFinite, StoredDistinct
<1>7. CASE FailEvent
  <2> DEFINE row == Record("failed_events", event.payload.tenant_id, event.number, now, {}, "none",
                           0, Null)
  <2>1. data' = data \cup {row} /\ row.table = "failed_events"
    BY <1>7 DEF FailEvent, Write, Record
  <2> HIDE DEF row
  <2>2. IsFiniteSet(data')
    BY <1>1, <2>1, FS_AddElement
  <2>3. Keyed(data')
    BY <1>1, <2>1 DEF Keyed, SameRow
  <2> QED
    BY <2>2, <2>3
<1>8. ASSUME NEW w \in Threads, CreateContact(w)
      PROVE  IsFiniteSet(data') /\ Keyed(data')
  <2>1. PICK t \in DOMAIN tenants, status \in ContactStatuses :
          Write(data \cup {Record("contacts", t, requests + 1, now, {}, status, 0, Null)})
    BY <1>8 DEF CreateContact
  <2> DEFINE row == Record("contacts", t, requests + 1, now, {}, status, 0, Null)
  <2>2. row.table = "contacts" /\ row.key = requests + 1
    BY DEF Record
  <2>3. data' = data \cup {row} /\ requests' = requests + 1
    BY <1>8, <2>1 DEF Write, CreateContact, Arrives
  <2>4. requests + 1 \in Ids /\ requests \in Nat
    BY <2>3, Consts DEF TypeOK, ReportsTypeOK, Ids
  <2> HIDE DEF row
  <2>5. IsFiniteSet(data')
    BY <1>1, <2>3, FS_AddElement
  <2>6. \A r \in data : r.table = "contacts" => r.key # row.key
    BY <2>2, <2>4 DEF RowsInv
  <2>7. Keyed(data')
    BY <1>1, <2>2, <2>3, <2>6 DEF Keyed, SameRow
  <2> QED
    BY <2>5, <2>7
<1>9. ASSUME NEW w \in Threads, PatchContact(w)
      PROVE  IsFiniteSet(data') /\ Keyed(data')
  <2>1. PICK r \in data, status \in ContactStatuses :
          /\ r.table = "contacts"
          /\ Write((data \ {r}) \cup {[r EXCEPT !.status = status]})
    BY <1>9 DEF PatchContact
  <2> DEFINE row == [r EXCEPT !.status = status]
  <2>2. SameRow(row, r)
    BY <2>1 DEF ReportsTypeOK, DataRows, SameRow
  <2>3. data' = (data \ {r}) \cup {row}
    BY <2>1 DEF Write
  <2> HIDE DEF row
  <2>4. IsFiniteSet(data')
    BY <1>1, <2>3, FS_AddElement, FS_RemoveElement
  <2>5. Keyed(data')
    BY <1>1, <2>1, <2>2, <2>3 DEF Keyed, SameRow
  <2> QED
    BY <2>4, <2>5
<1> QED
  BY <1>3, <1>4, <1>5, <1>6, <1>7, <1>8, <1>9 DEF ReportsNext

LEMMA RowsNext ==
  ASSUME ReportsTypeOK, AdminInv, RowsInv, TypeOK', [ReportsNext]_all_vars
  PROVE  RowsInv'
<1>1. RowsGoOn /\ IsFiniteSet(data') /\ Keyed(data')
  BY RowsStep, RowsKeyed
<1>2. requests \in Nat /\ requests' \in Nat /\ requests <= requests'
  BY RequestsGrow DEF ReportsTypeOK
<1>3. ASSUME NEW d \in data', d.table = "contacts", d.key \in Ids
      PROVE  d.key <= requests'
  <2>1. CASE Appears(d)
    BY <1>2, <1>3, <2>1 DEF Appears
  <2>2. CASE \E r \in data : Continues(d, r)
    <3>1. PICK r \in data : r.table = "contacts" /\ r.key = d.key
      BY <1>3, <2>2 DEF Continues, SameRow
    <3>2. r.key <= requests /\ r.key \in Nat
      BY <1>3, <3>1, Consts DEF RowsInv, Ids
    <3> QED
      BY <1>2, <3>1, <3>2
  <2> QED
    BY <1>1, <2>1, <2>2 DEF RowsGoOn
<1>4. ASSUME NEW d \in data', NEW out \in {SmsOut, EmailOut}, d.table = "message_logs",
             out \subseteq d.tags
      PROVE  d.tags = out
  <2>1. CASE Appears(d)
    BY <1>4, <2>1 DEF Appears
  <2>2. CASE \E r \in data : Continues(d, r)
    <3>1. PICK r \in data : r.table = "message_logs" /\ r.tags = d.tags
      BY <1>4, <2>2 DEF Continues, SameRow
    <3> QED
      BY <1>4, <3>1 DEF RowsInv
  <2> QED
    BY <1>1, <2>1, <2>2 DEF RowsGoOn
<1> QED
  BY <1>1, <1>3, <1>4 DEF RowsInv, Keyed

LEMMA RowsInductive == ReportsSpec => []RowsInv
<1>1. ReportsInit => RowsInv
  BY FS_EmptySet DEF ReportsInit, RowsInv
<1>2. ReportsTypeOK /\ AdminInv /\ RowsInv /\ ReportsTypeOK' /\ [ReportsNext]_all_vars => RowsInv'
  BY RowsNext DEF ReportsTypeOK
<1> QED
  BY <1>1, <1>2, AdminInductive, ReportsTypeCorrect, PTL DEF ReportsSpec

-----------------------------------------------------------------------------
(* The statements of a program: all have names of their own, and one that  *)
(* is run only after another asks for the same rows.                       *)

LEMMA ReportNames ==
  /\ UsageReport[1].name = "message_breakdown" /\ UsageReport[2].name = "sms_status_breakdown"
  /\ UsageReport[3].name = "sms_daily" /\ UsageReport[4].name = "email_daily"
  /\ UsageReport[5].name = "sms_unique_contacts" /\ UsageReport[6].name = "email_unique_contacts"
  /\ UsageReport[7].name = "total_events" /\ UsageReport[8].name = "new_leads"
  /\ UsageReport[9].name = "total_revenue" /\ UsageReport[10].name = "new_contacts"
  /\ UsageReport[11].name = "sms_messages"
BY DEF UsageReport, Statement

LEMMA OverviewNames ==
  /\ Overview[1].name = "total_campaigns" /\ Overview[2].name = "total_workflows"
  /\ Overview[3].name = "total_lead_events" /\ Overview[4].name = "total_revenue"
  /\ Overview[5].name = "last_revenue" /\ Overview[6].name = "last_event"
  /\ Overview[7].name = "total_contacts" /\ Overview[8].name = "contact_status_breakdown"
  /\ Overview[9].name = "total_opted_out_sms" /\ Overview[10].name = "total_opted_out_email"
  /\ Overview[11].name = "total_messages" /\ Overview[12].name = "message_status_breakdown"
  /\ Overview[13].name = "total_failed_events"
BY DEF Overview, Statement, OnlyAfter

LEMMA NamesDiffer ==
  ASSUME NEW r, r.kind \in {"report", "overview"},
         NEW i \in DOMAIN Program(r), NEW j \in DOMAIN Program(r), i # j
  PROVE  Program(r)[i].name # Program(r)[j].name
<1>1. CASE r.kind = "report"
  <2>1. Program(r) = UsageReport /\ i \in 1..11 /\ j \in 1..11
    BY <1>1, ProgramsOf, ProgramLength
  <2> QED
    BY <2>1, ReportNames
<1>2. CASE r.kind = "overview"
  <2>1. Program(r) = Overview /\ i \in 1..13 /\ j \in 1..13
    BY <1>2, ProgramsOf, ProgramLength
  <2> QED
    BY <2>1, OverviewNames
<1> QED
  BY <1>1, <1>2

LEMMA AfterOf ==
  ASSUME NEW r, r.kind \in {"report", "overview"}, NEW i \in DOMAIN Program(r)
  PROVE  LET st == Program(r)[i] IN
         \/ st.after = "none"
         \/ \E j \in 1..(i - 1) :
              LET other == Program(r)[j] IN
              /\ st.after = other.name /\ st.table = other.table
              /\ st.tags = other.tags /\ st.timed = other.timed
<1>1. CASE r.kind = "report"
  <2>1. Program(r) = UsageReport /\ i \in 1..11
    BY <1>1, ProgramsOf, ProgramLength
  <2> QED
    BY <2>1 DEF UsageReport, Statement
<1>2. CASE r.kind = "overview"
  <2>1. Program(r) = Overview /\ i \in 1..13
    BY <1>2, ProgramsOf, ProgramLength
  <2>2. \A k \in (1..13) \ {8, 12} : Overview[k].after = "none"
    BY DEF Overview, Statement
  <2>3. /\ Overview[8].after = Overview[7].name /\ Overview[8].table = Overview[7].table
        /\ Overview[8].tags = Overview[7].tags /\ Overview[8].timed = Overview[7].timed
    BY DEF Overview, Statement, OnlyAfter
  <2>4. /\ Overview[12].after = Overview[11].name /\ Overview[12].table = Overview[11].table
        /\ Overview[12].tags = Overview[11].tags /\ Overview[12].timed = Overview[11].timed
    BY DEF Overview, Statement, OnlyAfter
  <2> QED
    BY <2>1, <2>2, <2>3, <2>4
<1> QED
  BY <1>1, <1>2

-----------------------------------------------------------------------------
(* What the readers know.                                                  *)

Told(w) ==
  /\ reading'[w].kind = reading[w].kind /\ reading'[w].next = reading[w].next
  /\ reading'[w].tenant = reading[w].tenant /\ reading'[w].from = reading[w].from
  /\ reading'[w].to = reading[w].to /\ reading'[w].rows = reading[w].rows
  /\ reading[w].kind # "none" /\ reading'[w].calm => reading[w].calm /\ data' = data

(* A row that is there is there after the step, unless its tenant is not.  *)
LEMMA StillThereNext ==
  ASSUME RowsGoOn, NEW row, StillThere(row), row.tenant_id \in DOMAIN tenants'
  PROVE  StillThere(row)'
<1>1. PICK d \in data : /\ SameRow(d, row) /\ d.at = row.at
                        /\ row.table = "message_logs" => d.tags = row.tags
  BY DEF StillThere
<1>2. PICK e \in data' : Continues(e, d)
  BY <1>1 DEF RowsGoOn, SameRow
<1> QED
  BY <1>1, <1>2 DEF Continues, SameRow, StillThere

(* A step of others.                                                       *)
LEMMA ReaderKept ==
  ASSUME ReportsTypeOK, AdminInv, TypeOK', [ReportsNext]_all_vars,
         NEW w \in Readers, ReaderInv(reading[w]), Told(w)
  PROVE  ReaderInv(reading[w])'
<1>1. PICK r, s : r = reading[w] /\ s = reading'[w]
  OBVIOUS
<1> SUFFICES ASSUME r.kind # "none"
             PROVE  /\ FindsAsked(s)
                    /\ s.calm => SeesAll(s)'
                    /\ s.tenant # Everyone => s.tenant \in 0..requests' /\ ~Returns(s.tenant)'
                    /\ s.tenant \in DOMAIN tenants' =>
                         /\ \A i \in DOMAIN Program(s) :
                              \A row \in s.rows[Program(s)[i].name] : StillThere(row)'
                         /\ FindsAgain(s)
  BY <1>1 DEF ReaderInv, Told, SeesAll, Returns, StillThere, Selected
<1>2. /\ Program(s) = Program(r) /\ s.next = r.next /\ s.tenant = r.tenant /\ s.from = r.from
      /\ s.to = r.to /\ s.rows = r.rows /\ (s.calm => r.calm /\ data' = data)
  BY <1>1, SameProgram DEF Told
<1>3. /\ FindsAsked(r) /\ (r.calm => SeesAll(r))
      /\ r.tenant # Everyone => r.tenant \in 0..requests /\ ~Returns(r.tenant)
      /\ r.tenant \in DOMAIN tenants =>
           /\ \A i \in DOMAIN Program(r) :
                \A row \in r.rows[Program(r)[i].name] : StillThere(row)
           /\ FindsAgain(r)
  BY <1>1 DEF ReaderInv
<1>4. r.tenant \in DOMAIN tenants' => r.tenant \in DOMAIN tenants /\ r.tenant # Everyone
  <2>1. SUFFICES ASSUME r.tenant \in DOMAIN tenants'
                 PROVE  r.tenant \in DOMAIN tenants /\ r.tenant # Everyone
    OBVIOUS
  <2>2. r.tenant # Everyone
    BY <2>1, Consts DEF TypeOK
  <2> QED
    BY <1>3, <2>1, <2>2, AdminStepsOnly, TenantsComeAndGo DEF ReportsTypeOK
<1>5. requests \in Nat /\ requests' \in Nat /\ requests <= requests'
  BY RequestsGrow DEF ReportsTypeOK
<1>6. FindsAsked(s)
  BY <1>2, <1>3 DEF FindsAsked, Asked
<1>7. s.calm => SeesAll(s)'
  <2>1. \A st : s.calm => Selected(s, st)' = Selected(r, st)
    BY <1>2 DEF Selected
  <2> QED
    BY <1>2, <1>3, <2>1 DEF SeesAll
<1>8. s.tenant # Everyone => s.tenant \in 0..requests' /\ ~Returns(s.tenant)'
  <2>1. SUFFICES ASSUME s.tenant # Everyone
                 PROVE  s.tenant \in 0..requests' /\ ~Returns(s.tenant)'
    OBVIOUS
  <2>2. s.tenant \in 0..requests /\ ~Returns(s.tenant)
    BY <1>2, <1>3, <2>1
  <2>3. \A t \in 0..requests : Returns(t)' => Returns(t)
    BY AdminStepsOnly, TenantsComeAndGo DEF ReportsTypeOK
  <2> QED
    BY <1>5, <2>2, <2>3
<1>9. ASSUME s.tenant \in DOMAIN tenants', NEW i \in DOMAIN Program(s),
             NEW row \in s.rows[Program(s)[i].name]
      PROVE  StillThere(row)'
  <2>1. Asked(r, Program(r)[i], row) /\ StillThere(row)
    BY <1>2, <1>3, <1>4, <1>9 DEF FindsAsked
  <2>2. row.tenant_id = r.tenant
    BY <1>2, <1>4, <1>9, <2>1 DEF Asked
  <2> QED
    BY <1>2, <1>9, <2>1, <2>2, RowsStep, StillThereNext
<1>10. s.tenant \in DOMAIN tenants' => FindsAgain(s)
  <2>1. FindsAgain(r) => FindsAgain(s)
    BY <1>2 DEF FindsAgain
  <2> QED
    BY <1>2, <1>3, <1>4, <2>1
<1> QED
  BY <1>6, <1>7, <1>8, <1>9, <1>10

(* A reader that runs a statement.                                         *)
LEMMA ReaderRuns ==
  ASSUME ReportsTypeOK, RowsInv, NEW w \in Readers, RunStatement(w), ReaderInv(reading[w])
  PROVE  ReaderInv(reading'[w])
<1>1. PICK r, s : r = reading[w] /\ s = reading'[w]
  OBVIOUS
<1>2. PICK st : st = Program(r)[r.next]
  OBVIOUS
<1>3. /\ r.kind \in {"report", "overview"} /\ r.next \in DOMAIN Program(r)
      /\ s.next = r.next + 1 /\ Program(s) = Program(r) /\ s.kind = r.kind
      /\ s.tenant = r.tenant /\ s.from = r.from /\ s.to = r.to /\ s.calm = r.calm
      /\ st.name \in StatementNames /\ s.rows[st.name] = Finds(r, st)
      /\ \A n \in StatementNames \ {st.name} : s.rows[n] = r.rows[n]
  BY <1>1, <1>2, StatementRuns, SameProgram
<1>4. /\ FindsAsked(r) /\ (r.calm => SeesAll(r))
      /\ r.tenant # Everyone => r.tenant \in 0..requests /\ ~Returns(r.tenant)
      /\ r.tenant \in DOMAIN tenants =>
           /\ \A i \in DOMAIN Program(r) :
                \A row \in r.rows[Program(r)[i].name] : StillThere(row)
           /\ FindsAgain(r)
  BY <1>1, <1>3 DEF ReaderInv
<1>5. \A i \in DOMAIN Program(r) :
        i # r.next => s.rows[Program(r)[i].name] = r.rows[Program(r)[i].name]
  BY <1>2, <1>3, NamesOf, NamesDiffer
<1>6. r.next \in Nat /\ DOMAIN Program(r) = 1..Len(Program(r)) /\ Len(Program(r)) \in Nat
  BY <1>3, ProgramLength
<1>7. \A row : row \in Finds(r, st) => row \in data /\ Asked(r, st, row)
  BY FindsRows
<1>8. \A c, row : Asked(s, c, row) <=> Asked(r, c, row)
  BY <1>3 DEF Asked
<1>9. FindsAsked(s)
  <2> SUFFICES ASSUME NEW i \in DOMAIN Program(r)
               PROVE  LET c == Program(r)[i]
                          found == s.rows[c.name] IN
                      /\ IsFiniteSet(found)
                      /\ \A row \in found : Asked(r, c, row)
                      /\ \A a, b \in found :
                           a.table \in {"contacts", "message_logs"} /\ SameRow(a, b) => a = b
    BY <1>3, <1>8 DEF FindsAsked
  <2>1. CASE i = r.next
    <3>1. IsFiniteSet(Finds(r, st))
      BY <1>7, FS_Subset DEF RowsInv
    <3> QED
      BY <1>2, <1>3, <1>7, <2>1, <3>1 DEF RowsInv
  <2>2. CASE i # r.next
    BY <1>4, <1>5, <2>2 DEF FindsAsked
  <2> QED
    BY <2>1, <2>2
<1>10. s.calm => SeesAll(s)
  <2>1. \A c : Selected(s, c) = Selected(r, c)
    BY <1>3 DEF Selected
  <2> SUFFICES ASSUME r.calm, NEW i \in 1..r.next
               PROVE  s.rows[Program(r)[i].name] = Selected(r, Program(r)[i])
    BY <1>3, <1>6, <2>1 DEF SeesAll
  <2>2. CASE i # r.next
    <3>1. i \in 1..(r.next - 1) /\ i \in DOMAIN Program(r)
      BY <1>3, <1>6, <2>2
    <3> QED
      BY <1>4, <1>5, <2>2, <3>1 DEF SeesAll
  <2>3. CASE i = r.next
    <3>1. CASE st.after = "none"
      BY <1>2, <1>3, <2>3, <3>1 DEF Finds
    <3>2. CASE st.after # "none"
      <4>1. PICK j \in 1..(r.next - 1) :
              /\ st.after = Program(r)[j].name /\ st.table = Program(r)[j].table
              /\ st.tags = Program(r)[j].tags /\ st.timed = Program(r)[j].timed
        BY <1>2, <1>3, <3>2, AfterOf
      <4>2. r.rows[st.after] = Selected(r, Program(r)[j])
        BY <1>4, <4>1 DEF SeesAll
      <4>3. Selected(r, Program(r)[j]) = Selected(r, st)
        BY <4>1 DEF Selected
      <4> QED
        BY <1>2, <1>3, <2>3, <4>2, <4>3 DEF Finds
    <3> QED
      BY <3>1, <3>2
  <2> QED
    BY <2>2, <2>3
<1>11. ASSUME s.tenant \in DOMAIN tenants, NEW i \in DOMAIN Program(s),
              NEW row \in s.rows[Program(s)[i].name]
       PROVE  StillThere(row)
  <2>1. CASE i = r.next
    <3>1. row \in data
      BY <1>2, <1>3, <1>7, <1>11, <2>1
    <3> QED
      BY <3>1 DEF StillThere, SameRow
  <2>2. CASE i # r.next
    BY <1>3, <1>4, <1>5, <1>11, <2>2
  <2> QED
    BY <2>1, <2>2
<1>12. ASSUME s.tenant \in DOMAIN tenants
       PROVE  FindsAgain(s)
  <2> SUFFICES ASSUME NEW i \in 1..r.next, NEW j \in 1..r.next, i < j,
                      Program(r)[i].table = Program(r)[j].table,
                      Program(r)[i].timed = Program(r)[j].timed,
                      Program(r)[j].table = "message_logs" \/ Program(r)[j].tags = {},
                      Program(r)[j].after \in {"none", Program(r)[i].name},
                      NEW row \in s.rows[Program(r)[i].name],
                      Program(r)[j].tags \subseteq row.tags
               PROVE  \E again \in s.rows[Program(r)[j].name] : SameRow(again, row)
    BY <1>3, <1>6 DEF FindsAgain
  <2>1. i \in 1..(r.next - 1) /\ i \in DOMAIN Program(r) /\ j \in DOMAIN Program(r)
    BY <1>3, <1>6
  <2>2. row \in r.rows[Program(r)[i].name]
    BY <1>5, <2>1
  <2>3. CASE j # r.next
    <3>1. j \in 1..(r.next - 1)
      BY <1>6, <2>3
    <3>2. \E again \in r.rows[Program(r)[j].name] : SameRow(again, row)
      BY <1>3, <1>4, <1>12, <2>1, <2>2, <3>1 DEF FindsAgain
    <3> QED
      BY <1>5, <2>1, <2>3, <3>2
  <2>4. CASE j = r.next
    <3>1. Asked(r, Program(r)[i], row) /\ StillThere(row)
      BY <1>3, <1>4, <1>12, <2>1, <2>2 DEF FindsAsked
    <3>2. PICK d \in data : /\ SameRow(d, row) /\ d.at = row.at
                            /\ row.table = "message_logs" => d.tags = row.tags
      BY <3>1 DEF StillThere
    <3>3. d \in Selected(r, st)
      BY <1>2, <2>4, <3>1, <3>2 DEF Selected, Asked, SameRow
    <3>4. Finds(r, st) = Selected(r, st)
      BY <1>2, <2>2, <2>4 DEF Finds
    <3> QED
      BY <1>2, <1>3, <2>4, <3>2, <3>3, <3>4
  <2> QED
    BY <2>3, <2>4
<1>13. ReaderInv(s)
  BY <1>3, <1>4, <1>9, <1>10, <1>11, <1>12 DEF ReaderInv
<1> QED
  BY <1>1, <1>13

(* A reader that begins knows of a tenant that is there.                   *)
LEMMA ReaderBegins ==
  ASSUME ReportsTypeOK, AdminInv, TypeOK', NEW w \in Readers, OpenReport(w) \/ OpenOverview(w)
  PROVE  ReaderInv(reading[w])'
<1>1. NotReading \in Readings /\ NotReading.next = 1
      /\ NotReading.rows = [n \in StatementNames |-> {}]
  BY NotReadingType DEF NotReading
<1>2. PICK s \in Readings :
        /\ StartReading(w, s) /\ s.kind \in {"report", "overview"} /\ s.next = 1
        /\ s.tenant \in DOMAIN tenants \cup {Everyone} /\ s.rows = [n \in StatementNames |-> {}]
  <2>1. DOMAIN tenants \subseteq Ids
    BY DEF ReportsTypeOK, TypeOK
  <2>2. CASE OpenReport(w)
    <3>1. PICK t \in DOMAIN tenants, from \in Days, to \in Days :
            StartReading(w, [NotReading EXCEPT !.kind = "report", !.tenant = t,
                                               !.from = from, !.to = to])
      BY <2>2 DEF OpenReport
    <3>2. PICK s : s = [NotReading EXCEPT !.kind = "report", !.tenant = t,
                                          !.from = from, !.to = to]
      OBVIOUS
    <3>3. s \in Readings /\ s.kind = "report" /\ s.next = 1 /\ s.tenant = t
          /\ s.rows = NotReading.rows
      BY <1>1, <2>1, <3>2 DEF Readings
    <3> QED
      BY <1>1, <3>1, <3>2, <3>3
  <2>3. CASE OpenOverview(w)
    <3>1. PICK t \in DOMAIN tenants \cup {Everyone} :
            StartReading(w, [NotReading EXCEPT !.kind = "overview", !.tenant = t])
      BY <2>3 DEF OpenOverview
    <3>2. PICK s : s = [NotReading EXCEPT !.kind = "overview", !.tenant = t]
      OBVIOUS
    <3>3. s \in Readings /\ s.kind = "overview" /\ s.next = 1 /\ s.tenant = t
          /\ s.rows = NotReading.rows
      BY <1>1, <2>1, <3>2 DEF Readings
    <3> QED
      BY <1>1, <3>1, <3>2, <3>3
  <2> QED
    BY <2>2, <2>3
<1>4. \A i \in DOMAIN Program(s) : s.rows[Program(s)[i].name] = {}
  BY <1>2, NamesOf
<1>5. FindsAsked(s)
  BY <1>4, FS_EmptySet DEF FindsAsked
<1>6. SeesAll(s)' /\ FindsAgain(s)
  BY <1>2 DEF SeesAll, FindsAgain
<1>7. reading'[w] = s /\ sessions' = sessions /\ requests' = requests + 1
  BY <1>2 DEF StartReading, ReportsTypeOK, Arrives
<1>8. s.tenant # Everyone => s.tenant \in 0..requests' /\ ~Returns(s.tenant)'
  <2>1. SUFFICES ASSUME s.tenant # Everyone
                 PROVE  s.tenant \in 0..requests' /\ ~Returns(s.tenant)'
    OBVIOUS
  <2>2. s.tenant \in DOMAIN tenants /\ requests \in Nat /\ s.tenant \in 0..requests
    BY <1>2, <2>1, Consts DEF AdminInv, NumbersInv, ReportsTypeOK, TypeOK, Ids
  <2>3. ~Returns(s.tenant)
    BY <2>2 DEF AdminInv, NumbersInv, Returns
  <2> QED
    BY <1>7, <2>2, <2>3 DEF Returns
<1>9. ReaderInv(s)'
  BY <1>2, <1>4, <1>5, <1>6, <1>8 DEF ReaderInv
<1> QED
  BY <1>7, <1>9

LEMMA ReadersNext ==
  ASSUME ReportsTypeOK, AdminInv, RowsInv, ReadersInv, TypeOK', [ReportsNext]_all_vars
  PROVE  ReadersInv'
<1> SUFFICES ASSUME NEW w \in Readers PROVE ReaderInv(reading[w])'
  BY DEF ReadersInv
<1>1. ReaderInv(reading[w])
  BY DEF ReadersInv
<1>2. CASE Told(w)
  BY <1>1, <1>2, ReaderKept
<1>3. CASE reading' = reading /\ data' = data
  BY <1>2, <1>3 DEF Told
<1>4. ASSUME NEW rows, Write(rows) PROVE ReaderInv(reading[w])'
  BY <1>2, <1>4, WriteTold DEF Told
<1>5. CASE UNCHANGED all_vars \/ ReceiveEvent \/ StampEvent \/ Tick
  BY <1>3, <1>5 DEF all_vars, report_vars, ReceiveEvent, StampEvent, Tick
<1>6. CASE CommitEvent \/ FailEvent \/ AdminStep
  BY <1>3, <1>4, <1>6 DEF CommitEvent, FailEvent, AdminStep
<1>7. CASE \E v \in Threads : CreateContact(v) \/ PatchContact(v)
  BY <1>4, <1>7 DEF CreateContact, PatchContact
<1>8. ASSUME NEW v \in Readers, v # w,
             OpenReport(v) \/ OpenOverview(v) \/ RunStatement(v) \/ StopReading(v)
      PROVE  ReaderInv(reading[w])'
  <2>1. data' = data /\ reading'[w] = reading[w]
    <3>1. CASE OpenReport(v) \/ OpenOverview(v)
      BY <1>8, <3>1 DEF OpenReport, OpenOverview, StartReading, ReportsTypeOK
    <3>2. CASE RunStatement(v)
      BY <1>8, <3>2 DEF RunStatement, ReportsTypeOK
    <3>3. CASE StopReading(v)
      BY <1>8, <3>3 DEF StopReading, ReportsTypeOK
    <3> QED
      BY <1>8, <3>1, <3>2, <3>3
  <2> QED
    BY <1>2, <2>1 DEF Told
<1>9. CASE OpenReport(w) \/ OpenOverview(w)
  BY <1>9, ReaderBegins
<1>10. CASE RunStatement(w)
  <2>1. data' = data /\ tenants' = tenants /\ sessions' = sessions /\ requests' = requests
        /\ ReaderInv(reading'[w])
    BY <1>1, <1>10, ReaderRuns DEF RunStatement, vars, tables
  <2>2. ASSUME NEW s, ReaderInv(s)
        PROVE  ReaderInv(s)'
    <3>1. /\ SeesAll(s)' = SeesAll(s) /\ \A t : Returns(t)' = Returns(t)
          /\ \A row : StillThere(row)' = StillThere(row)
      BY <2>1 DEF SeesAll, Returns, StillThere, Selected
    <3> QED
      BY <2>1, <2>2, <3>1 DEF ReaderInv
  <2> QED
    BY <2>1, <2>2, SMTT(20)
<1>11. CASE StopReading(w)
  <2>1. reading'[w].kind = "none"
    BY <1>11, NotReadingType DEF StopReading, ReportsTypeOK
  <2> QED
    BY <2>1 DEF ReaderInv
<1> QED
  BY <1>5, <1>6, <1>7, <1>8, <1>9, <1>10, <1>11 DEF ReportsNext

LEMMA ReadersInductive == ReportsSpec => []ReadersInv
<1>1. ReportsInit => ReadersInv
  BY NotReadingType DEF ReportsInit, ReadersInv, ReaderInv
<1>2. /\ ReportsTypeOK /\ AdminInv /\ RowsInv /\ ReadersInv /\ ReportsTypeOK'
      /\ [ReportsNext]_all_vars
      => ReadersInv'
  BY ReadersNext DEF ReportsTypeOK
<1> QED
  BY <1>1, <1>2, AdminInductive, ReportsTypeCorrect, RowsInductive, PTL DEF ReportsSpec

-----------------------------------------------------------------------------
(* Counting.                                                               *)

LEMMA Disjoint ==
  ASSUME NEW S, NEW T, IsFiniteSet(S), IsFiniteSet(T), S \cap T = {}
  PROVE  IsFiniteSet(S \cup T) /\ Cardinality(S \cup T) = Cardinality(S) + Cardinality(T)
<1>1. Cardinality(S \cap T) = 0
  BY FS_EmptySet
<1>2. Cardinality(S) \in Nat /\ Cardinality(T) \in Nat
  BY FS_CardinalityType
<1>3. /\ IsFiniteSet(S \cup T)
      /\ Cardinality(S \cup T) = Cardinality(S) + Cardinality(T) - Cardinality(S \cap T)
  BY FS_Union
<1> QED
  BY <1>1, <1>2, <1>3

(* Every contact has one status, so the breakdown adds up.                 *)
LEMMA BreakdownTotals ==
  ASSUME NEW rows, IsFiniteSet(rows)
  PROVE  Total(StatusBreakdown(rows)) = Cardinality(rows)
<1> DEFINE Of(s)  == {r \in rows : r.status = s}
           others == {r \in rows : r.status \notin FunnelStatuses}
           b      == StatusBreakdown(rows)
<1>1. /\ b["new"] = Cardinality(Of("new")) /\ b["contacted"] = Cardinality(Of("contacted"))
      /\ b["engaged"] = Cardinality(Of("engaged")) /\ b["converted"] = Cardinality(Of("converted"))
      /\ b["other"] = Cardinality(others)
  <2> DEFINE D(s) == {r \in rows : IF s = "other" THEN r.status \notin FunnelStatuses
                                                  ELSE r.status = s}
  <2>1. \A s \in FunnelStatuses \cup {"other"} : b[s] = Cardinality(D(s))
    BY DEF StatusBreakdown
  <2>2. /\ D("new") = Of("new") /\ D("contacted") = Of("contacted") /\ D("engaged") = Of("engaged")
        /\ D("converted") = Of("converted") /\ D("other") = others
    OBVIOUS
  <2>3. {"new", "contacted", "engaged", "converted", "other"} \subseteq FunnelStatuses \cup {"other"}
    BY FunnelStrings
  <2> HIDE DEF D, Of, others, b
  <2> QED
    BY <2>1, <2>2, <2>3
<1>2. IsFiniteSet(others) /\ \A s : IsFiniteSet(Of(s))
  <2>1. others \in SUBSET rows /\ \A s : Of(s) \in SUBSET rows
    OBVIOUS
  <2> HIDE DEF Of, others
  <2> QED
    BY <2>1, FS_Subset
<1> DEFINE two   == Of("new") \cup Of("contacted")
           three == two \cup Of("engaged")
           four  == three \cup Of("converted")
<1>3. /\ Of("new") \cap Of("contacted") = {} /\ two \cap Of("engaged") = {}
      /\ three \cap Of("converted") = {} /\ four \cap others = {}
  BY FunnelStrings
<1>4. rows = four \cup others
  BY FunnelStrings
<1> HIDE DEF Of, others
<1>5. IsFiniteSet(two) /\ Cardinality(two) = Cardinality(Of("new")) + Cardinality(Of("contacted"))
  BY <1>2, <1>3, Disjoint
<1> HIDE DEF two
<1>6. IsFiniteSet(three) /\ Cardinality(three) = Cardinality(two) + Cardinality(Of("engaged"))
  BY <1>2, <1>3, <1>5, Disjoint
<1> HIDE DEF three
<1>7. IsFiniteSet(four) /\ Cardinality(four) = Cardinality(three) + Cardinality(Of("converted"))
  BY <1>2, <1>3, <1>6, Disjoint
<1> HIDE DEF four
<1>8. Cardinality(rows) = Cardinality(four) + Cardinality(others)
  BY <1>2, <1>3, <1>4, <1>7, Disjoint
<1> HIDE DEF b
<1>9. Total(b) = Cardinality(rows)
  BY <1>1, <1>5, <1>6, <1>7, <1>8 DEF Total
<1> QED
  BY <1>9 DEF b

LEMMA ContactsOfRows ==
  ASSUME NEW rows, IsFiniteSet(rows)
  PROVE  UniqueContacts(rows) <= Cardinality(rows)
<1> DEFINE f == [r \in rows |-> r.contact]
<1>1. f \in Surjection(rows, {r.contact : r \in rows})
  BY DEF Surjection
<1> QED
  BY <1>1, FS_Surjection DEF UniqueContacts

(* Rows that are all found again, each with its key.                       *)
LEMMA FoundAgain ==
  ASSUME NEW S, NEW T, IsFiniteSet(T),
         \A a, b \in S : SameRow(a, b) => a = b,
         \A a \in S : \E again \in T : SameRow(again, a)
  PROVE  Cardinality(S) <= Cardinality(T)
<1> DEFINE f == [a \in S |-> CHOOSE again \in T : SameRow(again, a)]
<1>1. \A a \in S : f[a] \in T /\ SameRow(f[a], a)
  OBVIOUS
<1>2. f \in [S -> T]
  BY <1>1
<1> HIDE DEF f
<1>3. \A a, b \in S : f[a] = f[b] => a = b
  <2> SUFFICES ASSUME NEW a \in S, NEW b \in S, f[a] = f[b] PROVE a = b
    OBVIOUS
  <2>1. SameRow(a, b)
    BY <1>1 DEF SameRow
  <2> QED
    BY <2>1
<1>4. f \in Injection(S, T)
  BY <1>2, <1>3 DEF Injection, IsInjective
<1> QED
  BY <1>4, FS_Injection

-----------------------------------------------------------------------------
(* What the statements ask for.                                            *)

LEMMA ReportStatements ==
  /\ \A i \in {1, 2, 3, 4, 5, 6, 11} :
       UsageReport[i].table = "message_logs" /\ UsageReport[i].timed = TRUE
  /\ UsageReport[1].tags = {} /\ UsageReport[2].tags = SmsOut /\ UsageReport[3].tags = SmsOut
  /\ UsageReport[4].tags = EmailOut /\ UsageReport[5].tags = SmsOut
  /\ UsageReport[6].tags = EmailOut /\ UsageReport[11].tags = SmsOut
  /\ UsageReport[7].table = "lead_events" /\ UsageReport[8].table = "lead_events"
  /\ UsageReport[7].timed = TRUE /\ UsageReport[8].timed = TRUE /\ UsageReport[7].tags = {}
  /\ UsageReport[2].after = "none" /\ UsageReport[11].after = "none"
BY DEF UsageReport, Statement

LEMMA OverviewStatements ==
  /\ \A i \in {7, 8, 9, 10} : Overview[i].table = "contacts" /\ Overview[i].timed = FALSE
  /\ \A i \in {11, 12} : Overview[i].table = "message_logs" /\ Overview[i].timed = FALSE
  /\ \A i \in {7, 8, 11, 12} : Overview[i].tags = {}
  /\ Overview[8].after = Overview[7].name /\ Overview[12].after = Overview[11].name
BY DEF Overview, Statement, OnlyAfter

(* A reader that has its answer.                                           *)
LEMMA Answered ==
  ASSUME ReportsTypeOK, ReadersInv, NEW kind \in {"report", "overview"}, NEW r \in Answers(kind)
  PROVE  /\ r.kind = kind /\ FindsAsked(r)
         /\ r.calm => \A i \in DOMAIN Program(r) :
                        r.rows[Program(r)[i].name] = Selected(r, Program(r)[i])
         /\ r.tenant \in DOMAIN tenants => FindsAgain(r)
         /\ DOMAIN Program(r) = 1..(r.next - 1)
         /\ kind = "report" => Program(r) = UsageReport /\ DOMAIN Program(r) = 1..11
         /\ kind = "overview" => Program(r) = Overview /\ DOMAIN Program(r) = 1..13
<1>1. PICK w \in Readers : r = reading[w] /\ r.kind = kind /\ r.next > Len(Program(r))
  BY DEF Answers
<1>2. r.next \in 1..Len(Program(r)) + 1 /\ Len(Program(r)) \in Nat
      /\ DOMAIN Program(r) = 1..Len(Program(r))
  BY <1>1, ProgramLength DEF ReportsTypeOK
<1>3. DOMAIN Program(r) = 1..(r.next - 1)
  BY <1>1, <1>2
<1>4. ReaderInv(r)
  BY <1>1 DEF ReadersInv
<1>5. /\ FindsAsked(r) /\ (r.calm => SeesAll(r))
      /\ r.tenant \in DOMAIN tenants => FindsAgain(r)
  BY <1>1, <1>4 DEF ReaderInv
<1>6. r.calm => \A i \in DOMAIN Program(r) :
                  r.rows[Program(r)[i].name] = Selected(r, Program(r)[i])
  BY <1>3, <1>5 DEF SeesAll
<1>7. kind = "report" => Program(r) = UsageReport /\ DOMAIN Program(r) = 1..11
  BY <1>1, ProgramsOf, ProgramLength
<1>8. kind = "overview" => Program(r) = Overview /\ DOMAIN Program(r) = 1..13
  BY <1>1, ProgramsOf, ProgramLength
<1> QED
  BY <1>1, <1>3, <1>5, <1>6, <1>7, <1>8

(* Messages of a group are those that have its tags.                       *)
LEMMA GroupOf ==
  ASSUME RowsInv, NEW r, NEW all, NEW some, NEW out \in {SmsOut, EmailOut},
         all.table = "message_logs", some.table = "message_logs", all.timed, some.timed,
         all.tags = {}, some.tags = out
  PROVE  MessageBreakdown(Selected(r, all))[out] = Cardinality(Selected(r, some))
<1>1. {x \in Selected(r, all) : x.tags = out} = Selected(r, some)
  BY DEF Selected, RowsInv
<1>2. \A rows : MessageBreakdown(rows)[out] = Cardinality({x \in rows : x.tags = out})
  BY DEF MessageBreakdown
<1> QED
  BY <1>1, <1>2

LEMMA ReportAgrees ==
  ASSUME ReportsTypeOK, RowsInv, ReadersInv, NEW r \in Answers("report"), r.calm
  PROVE  LET messages == MessageBreakdown(r.rows["message_breakdown"]) IN
         /\ messages[SmsOut] = Cardinality(r.rows["sms_status_breakdown"])
         /\ messages[SmsOut] = Cardinality(r.rows["sms_daily"])
         /\ messages[SmsOut] = Cardinality(r.rows["sms_messages"])
         /\ messages[EmailOut] = Cardinality(r.rows["email_daily"])
         /\ UniqueContacts(r.rows["sms_unique_contacts"]) <= messages[SmsOut]
         /\ UniqueContacts(r.rows["email_unique_contacts"]) <= messages[EmailOut]
         /\ Cardinality(r.rows["new_leads"]) <= Cardinality(r.rows["total_events"])
<1>1. \A i \in 1..11 : r.rows[UsageReport[i].name] = Selected(r, UsageReport[i])
  BY Answered
<1>2. /\ r.rows["message_breakdown"] = Selected(r, UsageReport[1])
      /\ r.rows["sms_status_breakdown"] = Selected(r, UsageReport[2])
      /\ r.rows["sms_daily"] = Selected(r, UsageReport[3])
      /\ r.rows["email_daily"] = Selected(r, UsageReport[4])
      /\ r.rows["sms_unique_contacts"] = Selected(r, UsageReport[5])
      /\ r.rows["email_unique_contacts"] = Selected(r, UsageReport[6])
      /\ r.rows["total_events"] = Selected(r, UsageReport[7])
      /\ r.rows["new_leads"] = Selected(r, UsageReport[8])
      /\ r.rows["sms_messages"] = Selected(r, UsageReport[11])
  BY <1>1, ReportNames
<1>3. \A st : IsFiniteSet(Selected(r, st))
  <2>1. \A st : Selected(r, st) \in SUBSET data
    BY DEF Selected
  <2> QED
    BY <2>1, FS_Subset DEF RowsInv
<1> DEFINE messages == MessageBreakdown(Selected(r, UsageReport[1]))
<1>4. /\ \A i \in {2, 3, 5, 11} : messages[SmsOut] = Cardinality(Selected(r, UsageReport[i]))
      /\ \A i \in {4, 6} : messages[EmailOut] = Cardinality(Selected(r, UsageReport[i]))
  BY GroupOf, ReportStatements
<1>5. Selected(r, UsageReport[8]) \in SUBSET Selected(r, UsageReport[7])
  BY ReportStatements DEF Selected
<1>6. Cardinality(Selected(r, UsageReport[8])) <= Cardinality(Selected(r, UsageReport[7]))
  BY <1>3, <1>5, FS_Subset
<1>7. /\ UniqueContacts(Selected(r, UsageReport[5])) <= messages[SmsOut]
      /\ UniqueContacts(Selected(r, UsageReport[6])) <= messages[EmailOut]
  BY <1>3, <1>4, ContactsOfRows
<1> HIDE DEF messages
<1>8. messages = MessageBreakdown(r.rows["message_breakdown"])
  BY <1>2 DEF messages
<1> QED
  BY <1>2, <1>4, <1>6, <1>7, <1>8

LEMMA OverviewAgrees ==
  ASSUME ReportsTypeOK, RowsInv, ReadersInv, NEW r \in Answers("overview"), r.calm
  PROVE  /\ Total(StatusBreakdown(r.rows["contact_status_breakdown"]))
              = Cardinality(r.rows["total_contacts"])
         /\ Cardinality(r.rows["message_status_breakdown"]) = Cardinality(r.rows["total_messages"])
         /\ r.rows["total_opted_out_sms"] \cup r.rows["total_opted_out_email"]
              \subseteq r.rows["total_contacts"]
<1>1. \A i \in 1..13 : r.rows[Overview[i].name] = Selected(r, Overview[i])
  BY Answered
<1>2. /\ r.rows["total_contacts"] = Selected(r, Overview[7])
      /\ r.rows["contact_status_breakdown"] = Selected(r, Overview[8])
      /\ r.rows["total_opted_out_sms"] = Selected(r, Overview[9])
      /\ r.rows["total_opted_out_email"] = Selected(r, Overview[10])
      /\ r.rows["total_messages"] = Selected(r, Overview[11])
      /\ r.rows["message_status_breakdown"] = Selected(r, Overview[12])
  BY <1>1, OverviewNames
<1>3. /\ Selected(r, Overview[8]) = Selected(r, Overview[7])
      /\ Selected(r, Overview[12]) = Selected(r, Overview[11])
  BY OverviewStatements DEF Selected
<1>4. Selected(r, Overview[9]) \cup Selected(r, Overview[10]) \subseteq Selected(r, Overview[7])
  BY OverviewStatements DEF Selected
<1>5. IsFiniteSet(Selected(r, Overview[7]))
  <2>1. Selected(r, Overview[7]) \in SUBSET data
    BY DEF Selected
  <2> QED
    BY <2>1, FS_Subset DEF RowsInv
<1> QED
  BY <1>2, <1>3, <1>4, <1>5, BreakdownTotals

(* The numbers of a usage report, and of an overview, agree with each      *)
(* other when nothing was committed since its first statement: each        *)
(* statement has then seen the same rows.                                  *)
THEOREM NumbersDoAgree == ReportsSpec => []NumbersAgree
<1>1. ReportsTypeOK /\ RowsInv /\ ReadersInv => NumbersAgree
  BY ReportAgrees, OverviewAgrees DEF NumbersAgree
<1> QED
  BY <1>1, ReportsTypeCorrect, RowsInductive, ReadersInductive, PTL

LEMMA AskedOf ==
  ASSUME NEW r, FindsAsked(r), NEW i \in DOMAIN Program(r),
         Program(r)[i].table \in {"contacts", "message_logs"}
  PROVE  /\ IsFiniteSet(r.rows[Program(r)[i].name])
         /\ \A row \in r.rows[Program(r)[i].name] : Program(r)[i].tags \subseteq row.tags
         /\ \A a, b \in r.rows[Program(r)[i].name] : SameRow(a, b) => a = b
<1>1. PICK st : st = Program(r)[i]
  OBVIOUS
<1>2. LET found == r.rows[st.name] IN
      /\ IsFiniteSet(found)
      /\ \A row \in found : Asked(r, st, row)
      /\ \A a, b \in found : a.table \in {"contacts", "message_logs"} /\ SameRow(a, b) => a = b
  BY <1>1 DEF FindsAsked
<1> QED
  BY <1>1, <1>2 DEF Asked

LEMMA AgainOf ==
  ASSUME NEW r, FindsAgain(r), NEW i \in 1..(r.next - 1), NEW j \in 1..(r.next - 1), i < j,
         NEW earlier, NEW later, earlier = Program(r)[i], later = Program(r)[j],
         earlier.table = later.table, earlier.timed = later.timed,
         later.table = "message_logs" \/ later.tags = {}, later.after \in {"none", earlier.name}
  PROVE  \A row \in r.rows[earlier.name] : later.tags \subseteq row.tags =>
           \E again \in r.rows[later.name] : SameRow(again, row)
BY DEF FindsAgain

LEMMA OverviewCovers ==
  ASSUME ReportsTypeOK, ReadersInv, NEW r \in Answers("overview"), r.tenant \in DOMAIN tenants
  PROVE  /\ Cardinality(r.rows["total_contacts"])
              <= Total(StatusBreakdown(r.rows["contact_status_breakdown"]))
         /\ Cardinality(r.rows["total_messages"])
              <= Cardinality(r.rows["message_status_breakdown"])
<1>1. /\ Program(r) = Overview /\ DOMAIN Overview = 1..13 /\ 1..13 = 1..(r.next - 1)
      /\ FindsAsked(r) /\ FindsAgain(r)
  BY Answered
<1>2. \A i \in {7, 8, 11, 12} :
        /\ IsFiniteSet(r.rows[Overview[i].name])
        /\ \A a, b \in r.rows[Overview[i].name] : SameRow(a, b) => a = b
  <2>1. \A i \in {7, 8, 11, 12} :
          i \in DOMAIN Program(r) /\ Program(r)[i].table \in {"contacts", "message_logs"}
    BY <1>1, OverviewStatements
  <2>2. \A i \in {7, 8, 11, 12} : Overview[i] = Program(r)[i]
    BY <1>1
  <2> QED
    BY <1>1, <2>1, <2>2, AskedOf
<1>3. /\ \A row \in r.rows[Overview[7].name] :
           \E again \in r.rows[Overview[8].name] : SameRow(again, row)
      /\ \A row \in r.rows[Overview[11].name] :
           \E again \in r.rows[Overview[12].name] : SameRow(again, row)
  <2>1. {7, 8, 11, 12} \subseteq 1..(r.next - 1)
    BY <1>1
  <2>2. FindsAgain(r) /\ \A i \in {7, 8, 11, 12} : Overview[i] = Program(r)[i]
    BY <1>1
  <2>3. /\ Overview[7].table = Overview[8].table /\ Overview[7].timed = Overview[8].timed
        /\ Overview[8].tags = {} /\ Overview[8].after \in {"none", Overview[7].name}
    BY OverviewStatements
  <2>4. /\ Overview[11].table = Overview[12].table /\ Overview[11].timed = Overview[12].timed
        /\ Overview[12].tags = {} /\ Overview[12].after \in {"none", Overview[11].name}
    BY OverviewStatements
  <2>5. \A row \in r.rows[Overview[7].name] : Overview[8].tags \subseteq row.tags =>
          \E again \in r.rows[Overview[8].name] : SameRow(again, row)
    BY <2>1, <2>2, <2>3, AgainOf
  <2>6. \A row \in r.rows[Overview[11].name] : Overview[12].tags \subseteq row.tags =>
          \E again \in r.rows[Overview[12].name] : SameRow(again, row)
    BY <2>1, <2>2, <2>4, AgainOf
  <2> QED
    BY <2>3, <2>4, <2>5, <2>6
<1>4. /\ Cardinality(r.rows[Overview[7].name]) <= Cardinality(r.rows[Overview[8].name])
      /\ Cardinality(r.rows[Overview[11].name]) <= Cardinality(r.rows[Overview[12].name])
  BY <1>2, <1>3, FoundAgain
<1> QED
  BY <1>2, <1>4, BreakdownTotals, OverviewNames

LEMMA ReportCovers ==
  ASSUME ReportsTypeOK, ReadersInv, NEW r \in Answers("report"), r.tenant \in DOMAIN tenants
  PROVE  /\ MessageBreakdown(r.rows["message_breakdown"])[SmsOut]
              <= Cardinality(r.rows["sms_status_breakdown"])
         /\ Cardinality(r.rows["sms_daily"]) <= Cardinality(r.rows["sms_messages"])
<1>1. /\ Program(r) = UsageReport /\ DOMAIN UsageReport = 1..11
      /\ FindsAsked(r) /\ FindsAgain(r) /\ 1..11 = 1..(r.next - 1)
  BY Answered
<1>2. \A i \in {1, 2, 3, 11} :
        /\ IsFiniteSet(r.rows[UsageReport[i].name])
        /\ \A row \in r.rows[UsageReport[i].name] : UsageReport[i].tags \subseteq row.tags
        /\ \A a, b \in r.rows[UsageReport[i].name] : SameRow(a, b) => a = b
  <2>1. \A i \in {1, 2, 3, 11} :
          i \in DOMAIN Program(r) /\ Program(r)[i].table \in {"contacts", "message_logs"}
    BY <1>1, ReportStatements
  <2>2. \A i \in {1, 2, 3, 11} : UsageReport[i] = Program(r)[i]
    BY <1>1
  <2> QED
    BY <1>1, <2>1, <2>2, AskedOf
<1> DEFINE sms == {row \in r.rows[UsageReport[1].name] : row.tags = SmsOut}
<1>3. /\ \A row \in sms : \E again \in r.rows[UsageReport[2].name] : SameRow(again, row)
      /\ \A row \in r.rows[UsageReport[3].name] :
           \E again \in r.rows[UsageReport[11].name] : SameRow(again, row)
  <2>1. {1, 2, 3, 11} \subseteq 1..(r.next - 1)
    BY <1>1
  <2>2. FindsAgain(r) /\ \A i \in {1, 2, 3, 11} : UsageReport[i] = Program(r)[i]
    BY <1>1
  <2>3. /\ UsageReport[1].table = UsageReport[2].table /\ UsageReport[1].timed = UsageReport[2].timed
        /\ UsageReport[2].table = "message_logs" /\ UsageReport[2].tags = SmsOut
        /\ UsageReport[2].after \in {"none", UsageReport[1].name}
    BY ReportStatements
  <2>4. /\ UsageReport[3].table = UsageReport[11].table /\ UsageReport[3].timed = UsageReport[11].timed
        /\ UsageReport[11].table = "message_logs" /\ UsageReport[11].tags = SmsOut
        /\ UsageReport[11].after \in {"none", UsageReport[3].name} /\ UsageReport[3].tags = SmsOut
    BY ReportStatements
  <2>5. \A row \in r.rows[UsageReport[1].name] : UsageReport[2].tags \subseteq row.tags =>
          \E again \in r.rows[UsageReport[2].name] : SameRow(again, row)
    BY <2>1, <2>2, <2>3, AgainOf
  <2>6. \A row \in r.rows[UsageReport[3].name] : UsageReport[11].tags \subseteq row.tags =>
          \E again \in r.rows[UsageReport[11].name] : SameRow(again, row)
    BY <2>1, <2>2, <2>4, AgainOf
  <2> QED
    BY <1>2, <2>3, <2>4, <2>5, <2>6
<1>4. /\ Cardinality(sms) <= Cardinality(r.rows[UsageReport[2].name])
      /\ Cardinality(r.rows[UsageReport[3].name]) <= Cardinality(r.rows[UsageReport[11].name])
  BY <1>2, <1>3, FoundAgain
<1>5. MessageBreakdown(r.rows[UsageReport[1].name])[SmsOut] = Cardinality(sms)
  BY DEF MessageBreakdown
<1> QED
  BY <1>4, <1>5, ReportNames

(* What a total has counted is found again by the breakdown read after it, *)
(* whatever was committed in between, as long as the tenant is there: rows *)
(* leave only with their tenant, and keep their keys, dates and channels.  *)
THEOREM BreakdownsDoCoverTotals == ReportsSpec => []BreakdownsCoverTotals
<1>1. ReportsTypeOK /\ ReadersInv => BreakdownsCoverTotals
  BY OverviewCovers, ReportCovers DEF BreakdownsCoverTotals
<1> QED
  BY <1>1, ReportsTypeCorrect, ReadersInductive, PTL

=============================================================================

---------------------------- MODULE UsageReports ----------------------------
(***************************************************************************)
(* The numbers the service reports: the usage report of a period, and the  *)
(* overview of a tenant (for the administrator, or on its dashboard) or of *)
(* all of them.  Each is several statements, READ COMMITTED, so each sees  *)
(* what is committed when it runs; meanwhile the event loop stores events, *)
(* contacts are created and patched, tenants are renamed and deleted       *)
(* (TenantAdmin), and a day ends.                                          *)
(*                                                                         *)
(* Time is counted in ticks, DayLength of them to a day; the last tick of  *)
(* a day is the fraction of a second after 23:59:59.                       *)
(***************************************************************************)
EXTENDS TenantAdmin, LeadEventTypes, Sequences

CONSTANTS
  Payloads,          \* webhook bodies
  ContactStatuses,   \* what POST and PATCH of contacts may say
  Null, Everyone,    \* none; the overview of all tenants
  Readers,           \* the threads that serve reports and overviews
  DayLength, MaxTime \* bounds

Tables == {"lead_events", "contacts", "message_logs", "revenue_snapshots",
           "campaign_stats", "workflow_stats", "failed_events"}

(* A row of one of them: what the statements filter, group and add by.     *)
(* Tags are the event's type, the channels a contact has opted out of, or  *)
(* the channel and direction of a message.                                 *)
Record(table, t, key, at, tags, status, amount, contact) ==
  [table |-> table, tenant_id |-> t, key |-> key, at |-> at, tags |-> tags,
   status |-> status, amount |-> amount, contact |-> contact]

SmsOut   == {"sms", "outbound"}
EmailOut == {"email", "outbound"}

ASSUME ReportsAssumption ==
  /\ DayLength \in Nat \ {0, 1} /\ MaxTime \in Nat
  /\ Everyone \notin Ids /\ Readers \subseteq Threads
  /\ \A p \in Payloads :
       /\ p.tenant_id \in Ids /\ p.occurred_at \in 0..MaxTime /\ p.amount \in Nat
       /\ p.status \in FunnelStatuses
       (* A message has one channel and one direction.                     *)
       /\ \A out \in {SmsOut, EmailOut} : out \subseteq p.medium => p.medium = out
       (* Contacts that no event made have the number of their request.    *)
       /\ p.contact \notin Ids

-----------------------------------------------------------------------------
VARIABLES
  data,     \* the rows of the tables
  now,      \* the time
  event,    \* the transaction of the event loop
  reading   \* the report or overview each thread works on

report_vars == <<data, now, event, reading>>
all_vars == <<vars, report_vars>>

Days == 0..(MaxTime \div DayLength)

(* dt_from <= at <= dt_to, which is 23:59:59 of the last day.              *)
InPeriod(at, from, to) == from * DayLength <= at /\ at < (to + 1) * DayLength - 1

(* A statement: the rows of a table with some tags, of the period or of    *)
(* all time; some are run only when another has found something.  (The     *)
(* list of SMS messages is cut at 1000 rows; here all of them fit.)        *)
Statement(name, table, tags, timed) ==
  [name |-> name, table |-> table, tags |-> tags, timed |-> timed, after |-> "none"]

OnlyAfter(other, statement) == [statement EXCEPT !.after = other]

UsageReport ==
  << Statement("message_breakdown", "message_logs", {}, TRUE),
     Statement("sms_status_breakdown", "message_logs", SmsOut, TRUE),
     Statement("sms_daily", "message_logs", SmsOut, TRUE),
     Statement("email_daily", "message_logs", EmailOut, TRUE),
     Statement("sms_unique_contacts", "message_logs", SmsOut, TRUE),
     Statement("email_unique_contacts", "message_logs", EmailOut, TRUE),
     Statement("total_events", "lead_events", {}, TRUE),
     Statement("new_leads", "lead_events", {"lead_created"}, TRUE),
     Statement("total_revenue", "revenue_snapshots", {}, TRUE),
     Statement("new_contacts", "contacts", {}, TRUE),
     Statement("sms_messages", "message_logs", SmsOut, TRUE) >>

Overview ==
  << Statement("total_campaigns", "campaign_stats", {}, FALSE),
     Statement("total_workflows", "workflow_stats", {}, FALSE),
     Statement("total_lead_events", "lead_events", {}, FALSE),
     Statement("total_revenue", "revenue_snapshots", {}, FALSE),
     Statement("last_revenue", "revenue_snapshots", {}, FALSE),
     Statement("last_event", "lead_events", {}, FALSE),
     Statement("total_contacts", "contacts", {}, FALSE),
     OnlyAfter("total_contacts", Statement("contact_status_breakdown", "contacts", {}, FALSE)),
     Statement("total_opted_out_sms", "contacts", {"sms"}, FALSE),
     Statement("total_opted_out_email", "contacts", {"email"}, FALSE),
     Statement("total_messages", "message_logs", {}, FALSE),
     OnlyAfter("total_messages", Statement("message_status_breakdown", "message_logs", {}, FALSE)),
     Statement("total_failed_events", "failed_events", {}, FALSE) >>

Programs == [report |-> UsageReport, overview |-> Overview]
Program(r) == IF r.kind = "none" THEN << >> ELSE Programs[r.kind]
StatementNames == UNION {{Programs[k][i].name : i \in DOMAIN Programs[k]} : k \in DOMAIN Programs}

NotReading ==
  [kind |-> "none", next |-> 1, tenant |-> 0, from |-> 0, to |-> 0,
   rows |-> [n \in StatementNames |-> {}],
   calm |-> TRUE]   \* nothing was committed since the first statement

(* What identifies a row in its table, apart from the tenant.              *)
Keys == Ids \cup Days
          \cup UNION {{p.contact, p.campaign, p.workflow, p.message} : p \in Payloads}

Tags == UNION {{p.event_type} \cup p.opt_outs \cup p.medium : p \in Payloads}

Statuses == FunnelStatuses \cup ContactStatuses \cup {"none"}
              \cup {p.message_status : p \in Payloads}

DataRows ==
  [table : Tables, tenant_id : Ids, key : Keys, at : 0..MaxTime, tags : SUBSET Tags,
   status : Statuses, amount : Nat, contact : {Null} \cup {p.contact : p \in Payloads}]

Readings ==
  [kind : {"none", "report", "overview"}, next : Nat, tenant : Ids \cup {Everyone},
   from : Days, to : Days, rows : [StatementNames -> SUBSET DataRows], calm : BOOLEAN]

NoEvent == [pc |-> "idle", payload |-> Null, number |-> 0, began |-> 0, day |-> 0]

ReportsTypeOK ==
  /\ TypeOK
  /\ data \subseteq DataRows
  /\ now \in 0..MaxTime
  /\ event \in [pc : {"idle", "insert", "commit"}, payload : Payloads \cup {Null},
               number : Ids, began : 0..now, day : Days]
  /\ event.pc # "idle" => event.payload \in Payloads
  /\ reading \in [Readers -> Readings]
  /\ \A w \in Readers :
       /\ reading[w].next \in 1..Len(Program(reading[w])) + 1
       /\ reading[w].kind # "none" => sessions[w].pc = "idle"

ReportsInit ==
  /\ Init
  /\ data = {} /\ now = 0 /\ event = NoEvent
  /\ reading = [w \in Readers |-> NotReading]

-----------------------------------------------------------------------------
(* What is written meanwhile.                                              *)

Reading(w) == w \in Readers /\ reading[w].kind # "none"

(* The tables change: no reader has an undisturbed view any more.          *)
Write(rows) ==
  /\ data' = rows
  /\ reading' = [w \in Readers |->
       IF reading[w].kind = "none" THEN reading[w] ELSE [reading[w] EXCEPT !.calm = FALSE]]

Forward(old, new) ==
  IF old \in FunnelStatuses /\ STATUS_RANK[old] > STATUS_RANK[new] THEN old ELSE new

SameRow(r, new) == r.table = new.table /\ r.tenant_id = new.tenant_id /\ r.key = new.key

(* The update of a row that is there: a contact goes forward in the funnel *)
(* and keeps its opt-outs, a message has the last status, amounts are      *)
(* added.  created_at stays what it was.                                   *)
Updated(r, new) ==
  [r EXCEPT !.status = IF r.table = "contacts" THEN Forward(@, new.status) ELSE new.status,
            !.tags = IF r.table = "contacts" THEN @ \cup new.tags ELSE @,
            !.amount = @ + new.amount]

(* Each of some rows, all of different tables, is inserted, or the row     *)
(* with its key is updated.                                                *)
Put(rows, news) ==
  {r \in rows : \A new \in news : ~SameRow(r, new)}
  \cup {Updated(p[1], p[2]) : p \in {p \in rows \X news : SameRow(p[1], p[2])}}
  \cup {new \in news : \A r \in rows : ~SameRow(r, new)}

(* Variant: rows are dated by the client's clock.                          *)
StoredByClientTime(e) ==
  LET p == e.payload IN
  {Record("lead_events", p.tenant_id, e.number, p.occurred_at, {p.event_type}, "none", 0, Null),
   Record("contacts", p.tenant_id, p.contact, p.occurred_at, p.opt_outs, p.status, 0, Null)}

(* What an event inserts or updates.  created_at is now() of the database, *)
(* the start of the transaction; the day of revenue is the application's,  *)
(* read later; occurred_at is the client's.                                *)
Stored(e) ==
  LET p == e.payload
      R(table, key, at, tags, status, amount, contact) ==
        Record(table, p.tenant_id, key, at, tags, status, amount, contact) IN
  {R("lead_events", e.number, p.occurred_at, {p.event_type}, "none", 0, Null),
   R("contacts", p.contact, e.began, p.opt_outs, p.status, 0, Null)}
  \cup (IF p.campaign = Null THEN {}
        ELSE {R("campaign_stats", p.campaign, e.began, {}, "none", 0, Null)})
  \cup (IF p.workflow = Null THEN {}
        ELSE {R("workflow_stats", p.workflow, e.began, {}, "none", 0, Null)})
  \cup (IF p.message = Null THEN {}
        ELSE {R("message_logs", p.message, e.began, p.medium, p.message_status, 0, p.contact)})
  \cup (IF p.amount = 0 THEN {}
        ELSE {R("revenue_snapshots", e.day, e.began, {}, "none", p.amount, Null)})

(* The event loop's transaction begins with the insert of the event.       *)
ReceiveEvent ==
  /\ event.pc = "idle"
  /\ requests < MaxRequests /\ requests' = requests + 1
  /\ \E p \in Payloads :
       /\ p.tenant_id \in DOMAIN tenants
       /\ event' = [NoEvent EXCEPT !.pc = "insert", !.payload = p,
                                   !.number = requests + 1, !.began = now]
  /\ UNCHANGED <<tables, sessions, answered, data, now, reading>>

(* now_ts = datetime.now(): what follows is dated by it.                   *)
StampEvent ==
  /\ event.pc = "insert"
  /\ event' = [event EXCEPT !.pc = "commit", !.day = now \div DayLength]
  /\ UNCHANGED <<vars, data, now, reading>>

CommitEvent ==
  /\ event.pc = "commit"
  /\ Write(Put(data, Stored(event)))
  /\ event' = NoEvent
  /\ UNCHANGED <<vars, now>>

(* Rollback; the dead letter is written in a transaction of its own.       *)
FailEvent ==
  /\ event.pc # "idle"
  /\ Write(data \cup {Record("failed_events", event.payload.tenant_id, event.number,
                             now, {}, "none", 0, Null)})
  /\ event' = NoEvent
  /\ UNCHANGED <<vars, now>>

(* create_contact and update_contact, which take any status.               *)
CreateContact(w) ==
  /\ Arrives(w) /\ ~Reading(w)
  /\ \E t \in DOMAIN tenants, status \in ContactStatuses :
       Write(data \cup {Record("contacts", t, requests + 1, now, {}, status, 0, Null)})
  /\ UNCHANGED <<tables, sessions, answered, now, event>>

PatchContact(w) ==
  /\ Arrives(w) /\ ~Reading(w)
  /\ \E r \in data, status \in ContactStatuses :
       /\ r.table = "contacts"
       /\ Write((data \ {r}) \cup {[r EXCEPT !.status = status]})
  /\ UNCHANGED <<tables, sessions, answered, now, event>>

(* Whatever the administrator does to tenants and users: rows leave with   *)
(* their tenant, and an open event of a tenant lets nobody delete it.      *)
AdminStep ==
  /\ Next
  /\ \A w \in Threads : Reading(w) => UNCHANGED sessions[w]
  /\ event.pc # "idle" => event.payload.tenant_id \in DOMAIN tenants'
  /\ IF DOMAIN tenants' = DOMAIN tenants THEN UNCHANGED <<data, reading>>
     ELSE Write({r \in data : r.tenant_id \in DOMAIN tenants'})
  /\ UNCHANGED <<now, event>>

Tick == now < MaxTime /\ now' = now + 1 /\ UNCHANGED <<vars, data, event, reading>>

-----------------------------------------------------------------------------
(* The readers.                                                            *)

StartReading(w, reader) ==
  /\ Arrives(w) /\ ~Reading(w)
  /\ reading' = [reading EXCEPT ![w] = reader]
  /\ UNCHANGED <<tables, sessions, answered, data, now, event>>

(* usage_report: the tenant is looked up first.                            *)
OpenReport(w) ==
  \E t \in DOMAIN tenants, from, to \in Days :
    /\ from <= to
    /\ StartReading(w, [NotReading EXCEPT !.kind = "report", !.tenant = t,
                                          !.from = from, !.to = to])

(* get_metrics_overview, of a tenant or of all, and dashboard_overview, of *)
(* the tenant the token is looked up to.                                   *)
OpenOverview(w) ==
  \E t \in DOMAIN tenants \cup {Everyone} :
    StartReading(w, [NotReading EXCEPT !.kind = "overview", !.tenant = t])

(* Variant: one of the statements of a report forgets the period.          *)
SelectedUntimed(r, st) ==
  {row \in data : /\ row.table = st.table
                  /\ r.tenant \in {Everyone, row.tenant_id}
                  /\ st.tags \subseteq row.tags
                  /\ st.timed /\ st.name # "sms_messages" => InPeriod(row.at, r.from, r.to)}

Selected(r, st) ==
  {row \in data : /\ row.table = st.table
                  /\ r.tenant \in {Everyone, row.tenant_id}
                  /\ st.tags \subseteq row.tags
                  /\ st.timed => InPeriod(row.at, r.from, r.to)}

RunStatement(w) ==
  LET r == reading[w] IN
  /\ r.next <= Len(Program(r))
  /\ LET st == Program(r)[r.next] IN
     reading' = [reading EXCEPT ![w] =
       [r EXCEPT !.next = @ + 1,
                 !.rows[st.name] = IF st.after # "none" /\ r.rows[st.after] = {} THEN {}
                                   ELSE Selected(r, st)]]
  /\ UNCHANGED <<vars, data, now, event>>

(* The answer goes out; or a statement before it has failed.               *)
StopReading(w) ==
  /\ reading[w].kind # "none"
  /\ reading' = [reading EXCEPT ![w] = NotReading]
  /\ UNCHANGED <<vars, data, now, event>>

ReportsNext ==
  \/ ReceiveEvent \/ StampEvent \/ CommitEvent \/ FailEvent
  \/ \E w \in Threads : CreateContact(w) \/ PatchContact(w)
  \/ \E w \in Readers :
       \/ OpenReport(w) \/ OpenOverview(w) \/ RunStatement(w) \/ StopReading(w)
  \/ AdminStep
  \/ Tick

ReportsSpec == ReportsInit /\ [][ReportsNext]_all_vars

-----------------------------------------------------------------------------
(* The numbers in an answer.                                               *)

Answers(kind) == {reading[w] : w \in {w \in Readers : /\ reading[w].kind = kind
                                                      /\ reading[w].next > Len(Program(reading[w]))}}

(* Variant: the last unknown status overwrites those before it.            *)
OtherOverwritten(rows) ==
  LET unknown == {r.status : r \in rows} \ FunnelStatuses
      count(s) == Cardinality({r \in rows : r.status = s}) IN
  [s \in FunnelStatuses \cup {"other"} |->
     IF s # "other" THEN count(s)
     ELSE IF unknown = {} THEN 0 ELSE count(CHOOSE u \in unknown : TRUE)]

(* The statuses that are not of the funnel are added up under "other".     *)
StatusBreakdown(rows) ==
  [s \in FunnelStatuses \cup {"other"} |->
     Cardinality({r \in rows : IF s = "other" THEN r.status \notin FunnelStatuses
                                              ELSE r.status = s})]

Total(breakdown) ==
  breakdown["new"] + breakdown["contacted"] + breakdown["engaged"] + breakdown["converted"]
    + breakdown["other"]

(* Messages by channel and direction; others are not in total_messages.    *)
MessageBreakdown(rows) ==
  [group \in {SmsOut, EmailOut, {"sms", "inbound"}, {"email", "inbound"}} |->
     Cardinality({r \in rows : r.tags = group})]

UniqueContacts(rows) == Cardinality({r.contact : r \in rows})

-----------------------------------------------------------------------------
(* Properties.                                                             *)

(* When nothing is written while a report or an overview is read, its      *)
(* numbers agree with each other: breakdowns add up to their totals, and   *)
(* no part exceeds its whole.  (Below the 1000 rows at which the list of   *)
(* SMS messages is cut.)                                                   *)
NumbersAgree ==
  /\ \A r \in Answers("report") : r.calm =>
       LET messages == MessageBreakdown(r.rows["message_breakdown"]) IN
       /\ messages[SmsOut] = Cardinality(r.rows["sms_status_breakdown"])
       /\ messages[SmsOut] = Cardinality(r.rows["sms_daily"])
       /\ messages[SmsOut] = Cardinality(r.rows["sms_messages"])
       /\ messages[EmailOut] = Cardinality(r.rows["email_daily"])
       /\ UniqueContacts(r.rows["sms_unique_contacts"]) <= messages[SmsOut]
       /\ UniqueContacts(r.rows["email_unique_contacts"]) <= messages[EmailOut]
       /\ Cardinality(r.rows["new_leads"]) <= Cardinality(r.rows["total_events"])
  /\ \A r \in Answers("overview") : r.calm =>
       /\ Total(StatusBreakdown(r.rows["contact_status_breakdown"]))
            = Cardinality(r.rows["total_contacts"])
       /\ Cardinality(r.rows["message_status_breakdown"]) = Cardinality(r.rows["total_messages"])
       /\ r.rows["total_opted_out_sms"] \cup r.rows["total_opted_out_email"]
            \subseteq r.rows["total_contacts"]

(* Whatever is written meanwhile, a total read first is never more than    *)
(* its breakdown read after it, unless the tenant was deleted in between.  *)
BreakdownsCoverTotals ==
  /\ \A r \in Answers("overview") : r.tenant \in DOMAIN tenants =>
       /\ Cardinality(r.rows["total_contacts"])
            <= Total(StatusBreakdown(r.rows["contact_status_breakdown"]))
       /\ Cardinality(r.rows["total_messages"]) <= Cardinality(r.rows["message_status_breakdown"])
  /\ \A r \in Answers("report") : r.tenant \in DOMAIN tenants =>
       /\ MessageBreakdown(r.rows["message_breakdown"])[SmsOut]
            <= Cardinality(r.rows["sms_status_breakdown"])
       /\ Cardinality(r.rows["sms_daily"]) <= Cardinality(r.rows["sms_messages"])

(* A day is over for the reports when its last tick has passed and every   *)
(* transaction that began in it has ended.                                 *)
Over(day) ==
  /\ now >= (day + 1) * DayLength
  /\ event.pc # "idle" => event.began >= (day + 1) * DayLength

CreatedOn(day, t) ==
  {<<r.table, r.key>> : r \in {r \in data : /\ r.table \in {"contacts", "message_logs"}
                                            /\ r.tenant_id = t /\ InPeriod(r.at, day, day)}}

(* Once a day is over, the messages and contacts a report counts for it    *)
(* are final: later events, whatever they say of the time, change none of  *)
(* these numbers as long as the tenant is there.                           *)
ReportsSettle ==
  [][\A day \in Days, t \in DOMAIN tenants' :
       Over(day) => CreatedOn(day, t)' = CreatedOn(day, t)]_all_vars

(* The revenue stored for a day is in the report of that day.              *)
RevenueReportedOnItsDay ==
  \A r \in data : r.table = "revenue_snapshots" => InPeriod(r.at, r.key, r.key)

-----------------------------------------------------------------------------
(* Why they hold: what the tables and the readers know.                    *)

(* Contacts and messages have keys, and a contact whose key is the number  *)
(* of a request was made by it.                                            *)
RowsInv ==
  /\ IsFiniteSet(data)
  /\ \A a, b \in data : a.table \in {"contacts", "message_logs"} /\ SameRow(a, b) => a = b
  /\ \A r \in data : r.table = "contacts" /\ r.key \in Ids => r.key <= requests
  /\ \A r \in data, out \in {SmsOut, EmailOut} :
       r.table = "message_logs" /\ out \subseteq r.tags => r.tags = out

(* What a statement finds is what it asks for.                             *)
Asked(r, st, row) ==
  /\ row.table = st.table
  /\ r.tenant \in {Everyone, row.tenant_id}
  /\ st.tags \subseteq row.tags
  /\ st.timed => InPeriod(row.at, r.from, r.to)

FindsAsked(r) ==
  \A i \in DOMAIN Program(r) :
    LET st == Program(r)[i]
        found == r.rows[st.name] IN
    /\ IsFiniteSet(found)
    /\ \A row \in found : Asked(r, st, row)
    /\ \A a, b \in found : a.table \in {"contacts", "message_logs"} /\ SameRow(a, b) => a = b

(* An undisturbed reader has seen what is there now.                       *)
SeesAll(r) ==
  \A i \in 1..(r.next - 1) : r.rows[Program(r)[i].name] = Selected(r, Program(r)[i])

(* The tenant of a reader does not come back once it is deleted.           *)
Returns(t) ==
  \E v \in Threads : /\ sessions[v].pc \in {"insert", "commit"}
                     /\ sessions[v].op = "create" /\ sessions[v].tenant = t

(* What was seen of a tenant that is there can be found again ...          *)
StillThere(row) ==
  \E d \in data : /\ SameRow(d, row) /\ d.at = row.at
                  /\ row.table = "message_logs" => d.tags = row.tags

(* ... and is by the later statements that ask for it.                     *)
FindsAgain(r) ==
  \A i, j \in 1..(r.next - 1) :
    LET earlier == Program(r)[i]
        later   == Program(r)[j] IN
    /\ i < j
    /\ earlier.table = later.table /\ earlier.timed = later.timed
    /\ later.table = "message_logs" \/ later.tags = {}
    /\ later.after \in {"none", earlier.name}
    => \A row \in r.rows[earlier.name] : later.tags \subseteq row.tags =>
         \E again \in r.rows[later.name] : SameRow(again, row)

ReaderInv(r) ==
  r.kind # "none" =>
    /\ FindsAsked(r)
    /\ r.calm => SeesAll(r)
    /\ r.tenant # Everyone => r.tenant \in 0..requests /\ ~Returns(r.tenant)
    /\ r.tenant \in DOMAIN tenants =>
         /\ \A i \in DOMAIN Program(r) :
              \A row \in r.rows[Program(r)[i].name] : StillThere(row)
         /\ FindsAgain(r)

ReadersInv == \A w \in Readers : ReaderInv(reading[w])

=============================================================================

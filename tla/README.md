# A TLA+ model of the multi-tenant webhook API

The repository is a FastAPI service in front of one PostgreSQL database. Lead systems (GoHighLevel,
mail and SMS providers) send it webhooks; an administrator reads and corrects the data through a JSON
API. An event is stored once, is counted in aggregate tables, updates the contact it is about, its
message log and its opt-outs, all in one transaction; an event that fails goes to a dead-letter queue
from which the administrator retries or discards it.

What is hard about it is not in any one function. The webhook handlers are `async def` and call the
database synchronously, so the event loop of a process handles one webhook at a time; every other
handler is `def` and runs on a thread of the pool, so retries and the administrator's requests run at
the same time as a webhook and as each other; and nothing prevents a second process. Everything they
share is in the database, at READ COMMITTED. The model is about these interleavings, about statements
and commits that fail (or take effect without an answer), and about processes that die.

- [Parts of the system](#parts-of-the-system)
- [Modules](#modules): [EventIngestion](#eventingestion), [LockOrder](#lockorder),
  [EventNames](#eventnames), [Contacts](#contacts), [TenantAdmin](#tenantadmin),
  [UsageReports](#usagereports), [ConnectionPool](#connectionpool)
- [Runs](#runs), [Proofs](#proofs), [Where the code disagrees with its documents](#where-the-code-disagrees-with-its-documents)
- [Not modelled](#not-modelled), [What comes next](#what-comes-next)

## Parts of the system

Paths are under `src/backend/app` unless they say otherwise.

| Part | State | Operations | Talks to | Hard behaviour | What makes it correct |
|---|---|---|---|---|---|
| Event ingestion: `routers/webhooks.py`, `services/webhook_ingest.py` | `lead_events` (unique per tenant and `event_id`), `campaign_stats`, `workflow_stats`, `revenue_snapshots` | signed route, token route, `process_lead_event_core`, `ingest_with_dead_letter` | contacts, message logs and opt-outs in the same transaction; the dead letter in a new one | redelivery, concurrent inserts of one key, row locks, lost commit answers, crash, tenant deleted on the way | an event is stored at most once and counted exactly when it is stored; no answer promises what is rolled back |
| Dead-letter queue: `core/dead_letter.py`, `routers/failed_events.py` | `failed_events` | store, list, retry, discard | calls `process_lead_event_core` and deletes its row in that transaction | concurrent retries of one row, a retry that fails, a row or tenant that is gone | a row leaves only for a stored event, a discard, or with its tenant |
| Contacts, consent, erasure: `routers/contacts.py`, `_upsert_contact_from_event`, `_handle_opt_out_event` | `contacts` (three partial unique indexes), `contact_opt_out_events` | upsert by event, create, PATCH, opt-out, opt-in, anonymize | events and the administrator write the same rows | objects read before and written after others commit; savepoint races | identities are merged, statuses go forward, opt-outs are kept, erasure erases |
| Message logs: `routers/message_logs.py`, `_create_message_log_from_event` | `message_logs` | create or update by event, create and list by API, scrub on erasure | contacts | look-up then insert without a unique index for outbound messages | one log to a message |
| Event-type classification: constants of `webhook_ingest.py`, `_derive_contact_status` | none | membership in sets | used by all of the above | sets that overlap, aliases | funnel rank never decreases |
| Tenants: `routers/tenants.py` | `tenants` | create, list, rename, delete (cascades) | parent of every row | two PATCHes of one tenant; deletion while events and users of the tenant are in flight | no row outlives its tenant; changes of different columns both take effect |
| Payload schema: `schemas/webhooks.py` | none | validate, normalise the event type | runs again on a retry | normalisation is not idempotent | a retry settles after one validation |
| Webhook checks: `core/webhook_security.py` | none | HMAC, timestamp window, token | gate of the two routes | clock skew | nothing unauthenticated is ingested |
| Users: `routers/auth.py` | `users` | register | tenants, audit | two registrations of one email; registration against tenant deletion | one user to an email; nobody is told of a user that is rolled back |
| Audit: `core/audit.py` | `audit_logs` | append | tenant, user and contact endpoints | a record built from a stale row; rows cascade with their tenant | every value in the table is on record |
| Metrics, dashboard, reports: `routers/metrics.py`, `dashboard.py`, `reports.py` | none | read-only sums | all tables | several statements, several snapshots; the ends of a day | totals agree with each other; a day that is over stays as it is |
| Sessions and connection pool: `core/db.py`, `routers/health.py` | a pool of connections | take, give back, time out | every route | the event loop waits for connections only it can give back | no connection leaks, every request is answered |
| Admin token, JWT, hashes: `core/auth.py`, `core/security.py`, `core/deps.py` | none | check | gate of the admin routes | | |
| Rate limit, Redis, logging, configuration | counters in Redis | | every route | | |
| Migrations, `src/infra/deploy_prod.sh` | schema, running containers | upgrade, deploy, roll back | | a rollback that fails | the caller learns the outcome |

## Modules

| Module | What it is |
|---|---|
| `LeadEventTypes` | the sets of event types and the status ranks, as in `webhook_ingest.py` |
| `LeadEvents` | what an event is, the aggregate rows and what an event adds to each column |
| `EventLedger` | the abstract specification of ingestion: events take effect atomically, at most once |
| `EventIngestion` | the detailed one: sessions, statements, locks, failures, the dead letter |
| `EventIngestionProofs` | theorems about it, and that it implements `EventLedger` |
| `Contacts` | contacts, opt-outs, erasure and message logs of one tenant |
| `ContactsProofs` | theorems about it, for any constants |
| `ContactsDeploymentProofs` | theorems about it for constants that meet a named condition |
| `EventNames`, `EventNamesProofs` | the table of event-type aliases and what validation makes of a name; that two validations settle it |
| `LockOrder`, `LockOrderProofs` | `EventIngestion` with the row and index locks of contacts, and the contact routes that take the same locks; what a deadlock is made of |
| `TenantRegistry` | the abstract specification of tenants and users: a change happens at once, with its record |
| `TenantAdmin` | the detailed one: sessions, stale rows, flushes, commits |
| `TenantAdminProofs` | theorems about it, and that it implements `TenantRegistry` |
| `UsageReports` | `TenantAdmin` with events, contacts, a clock, and the report and overview read meanwhile |
| `UsageReportsProofs` | theorems about it |
| `ConnectionPool`, `ConnectionPoolProofs` | the event loop, the threads and the connection pool of one process |
| `MCContacts`, `MCEventIngestion`, `MCLockOrder`, `MCUsageReports`, `MCConnectionPool` | small instances for TLC; one `.cfg` for each run |

`EventIngestion` and `Contacts` are two views of one transaction. The first has its statements on
`lead_events` and the aggregates, which wait for row locks; in it the contact, message-log and
opt-out calls can only make the transaction fail (`DatabaseError`). The second has those calls, which
read rows and write them at the commit, and takes the insert into `lead_events` as the moment the
event begins. `LockOrder` puts the waits of both together, without what the contacts say. `UsageReports` composes the administrator's
requests with what they and the events do to the numbers that are reported; an event is there one
insert, one reading of the clock and one commit. `ConnectionPool` looks at the same requests from
below: which thread they run on and when they hold a connection.

Operators marked `Variant:` are plausible bugs; they are not part of any specification.

## EventIngestion

**State.** `tenants`, `lead_events` and `failed_events` are the committed tables; `next_id` is the
sequence of `failed_events.id`. For the aggregates, `stats` has the committed rows, `newest` the newest
version of each, and `row_lock` the worker whose open transaction wrote that version. `sessions` says
where each worker is in its request (`pc`), which event it handles and by which route. `acked` holds
the keys some client was told are stored.

| Action | Code |
|---|---|
| `DeliverWebhook` | `ingest_lead_event`, `ingest_lead_event_token` up to the call into the service; any event any number of times |
| `RetryFailedEvent` | `retry_failed_event`: reads the row, validates `raw_payload` again (constant `Reread`) |
| `InsertLeadEvent` | `INSERT ... ON CONFLICT DO NOTHING`; waits for an open insert of the key; foreign key on the tenant |
| `UpsertCampaignStats`, `UpsertWorkflowStats`, `UpsertRevenueSnapshot` | the three `ON CONFLICT DO UPDATE SET c = c + n`, each waiting for the row lock |
| `CommitEvent`, `CommitDuplicate` | `db.commit()`, for a retry with the DELETE of its row; may take effect and still raise |
| `DatabaseError` | any statement raises; rollback |
| `StoreFailedEvent` | `store_failed_event`, which may fail and swallow that |
| `RefreshFailedEvent`, `NoteRetryFailure` | the `except` of the retry: read the row again, write `retry_count + 1` |
| `Reply` | the answer; the token route reads its tenant again for it |
| `DeleteFailedEvent`, `DeleteTenant`, `Crash` | discard; cascade; a process dies and is restarted |

The revenue of a set of events (`Revenue`) is a sum written as a difference of two cardinalities: one
element for each unit of a positive amount, less one for each unit of a negative one. TLC counts the
sets, and a proof can reason about one more event without induction.

**Abstractions.** The daily rows of `revenue_snapshots` are summed to one and `attributed_revenue`,
always written with the same value, is dropped. Requests that are turned away before they touch the
database (400, 401, 404, 422) are not steps. Flush and commit are one step. A discard and the deletion
of a tenant are one step each, enabled when their locks are free. Retried payloads that no longer
validate are left out. A tenant's uuid is never given out again.

## LockOrder

**State.** All of `EventIngestion`, with `contacts`, the committed contacts, `owner`, the contact that
has an identity in one of the three unique indexes, and for each open transaction a `claim`: the stage
its contact is at, the contact (or `Nobody` for one it inserts), the index entries it has made (`held`)
and will make (`todo`), the identity columns its UPDATE sets, and the strength of its lock on the
contact's row (`mode`). The actors are the workers of `EventIngestion` and `Clerks`, threads that serve
the contact routes.

| Action | Code |
|---|---|
| `FindContact` | `_find_existing_contact`: by external id, then email, then phone; the object found is given what else the event brings |
| `AddEntry`, `EntryTaken` | one entry of an INSERT in the savepoint, or of an UPDATE at a flush: it waits for whoever has the identity in an open transaction, and is refused when another contact has it |
| `FindAgain` | the look-up after the savepoint's `IntegrityError`; when the contact in the way is gone the error is raised again |
| `LockRow` | the opt-out record, whose foreign key shares the contact's row; the UPDATE of the contact, which locks it |
| `FlushAndCommit`, `CommitContact` | nothing is left to lock: the commit |
| `Statement` | the other statements of an event; the contact is settled before the aggregates |
| `CreateContact`, `PatchContact`, `OptContact`, `AnonymizeContact` | the contact routes: what they will lock at their commit, from the contact they read |
| `BreakDeadlock` | PostgreSQL ends one transaction of a least set of transactions that wait for each other |
| `ContactGone`, `ContactError`, `Around` | the contact was deleted with its tenant; anything raises; requests arrive, fail, are discarded, a tenant is deleted, a process dies |

A statement takes one lock a step. The order and the strength of the locks come from what the code
asks of SQLAlchemy and PostgreSQL:

- the savepoint's INSERT makes its entries before the aggregates are updated, in the order in which
  migrations `0007` and `0008` created the indexes: external id, email, phone. It holds those it has
  made while it waits for the next;
- autoflush is off, so the UPDATE of a contact that was found comes with the commit, when the aggregate
  rows are locked. It locks the contact's row, then makes an entry for each new identity, in the same
  order. The contact routes do so too;
- there is no `relationship()`, so the unit of work sorts the tables of a flush by their mappers'
  names: the opt-out record goes before the UPDATE of its contact, and its foreign key takes `FOR KEY
  SHARE` on the row, which others can share;
- an UPDATE of `external_contact_id`, which has a unique constraint, locks the row `FOR UPDATE`, one of
  `email` or `normalized_phone`, whose unique indexes are partial, and of any other column `FOR NO KEY
  UPDATE`. Only the first conflicts with a shared row. PATCH cannot set the external id.

So an event that inserts its contact locks it before the aggregate rows and one that finds it after
them; two opt-outs that share a row may both need it for themselves; and a PATCH has its row while it
waits for an identity. All three make deadlocks. `DeadlocksGiveIdentities` says what they have in
common: one of the transactions gives an existing contact an identity it did not have.

**Left out.** Message logs: an event or an erasure locks them after everything else, so who waits for
one waits for a transaction that is about to commit. There is one exception. The POST of an *inbound*
message makes its entry in that table's unique index before it shares the contact's row, so it can wait
for an event that has written a new external id to that contact and waits to log the same message. That
cycle, too, has a transaction that gives an identity; its entry is made already, which is why
`GivesIdentity` counts `held` with `todo`. Rows of the queue: two retries of one row have the same event
key and wait for each other there, and a discard holds nothing else. The deletion of a tenant is one
step here, once no transaction of the tenant has locked a contact's row. In the database it locks the
tenant and then waits for its contacts, and it has deadlocks of its own, with requests that have a
contact's row and then need the tenant's (the POST of an outbound message log is one).
`DeadlocksGiveIdentities` is about the events and the contact routes, and says nothing of those. The
three SELECTs of the look-up are one step; `Contacts` has them apart.

## EventNames

Pure definitions: the tables of `_EVENT_TYPE_ALIASES` as one set of names to each canonical type,
and `NormalizeEventType`, which looks a cleaned name up with its dots and only then replaces them.
So a dotted name that is no alias can become one (`lead_create`, `sms_opt_out`), and is recognised
only when the payload is validated again, on a retry from the dead letter. `RetriesSettle` says the
second time is the last. `Cleaned` and `Undotted` give the effect of the two string operations on the
spellings of an instance; `SpellingAssumption` says of them what holds of `strip().lower()` with `-` and
space replaced, and of the replacement of dots: doing it again changes nothing, a clean name stays clean
without its dots, and the canonical names are clean.

## Contacts

**State.** The tables `contacts`, `message_logs`, `opt_outs` (the rows of `contact_opt_out_events`),
`lead_events` and `failed_events` of one tenant. A session has the contact as it was loaded (`seen`)
and as the handler has set it (`held`), because SQLAlchemy writes at the commit only the columns whose
value changed (`Flushed`), with autoflush off. This is the point of the module: what another
transaction commits between the read and the flush survives in every column the session did not
change and is overwritten in every column it did.

| Action | Code |
|---|---|
| `ReceiveEvent`, `RetryEvent` | the event's transaction begins |
| `FindContact`, `FindNext`, `FindNothingAgain` | the SELECTs of `_find_existing_contact` by external id, email, phone, one at a time; what `_upsert_contact_from_event` sets on the object found |
| `InsertContact` | the savepoint: the INSERT waits for open inserts of the same identity; on a conflict the contact is looked for again, with the status already derived |
| `FindMessageLog` | the look-up by `provider_message_id` |
| `CommitEvent`, `FlushConflict` | message log, opt-out rows, flush, commit; or the unique index refuses the flush |
| `ReadContact`, `ReadMessageLogs`, `CommitCall` | PATCH, opt-out, opt-in and anonymize: read, work, commit |
| `CreateContact`, `CreateMessageLog` | the two POSTs |
| `DatabaseError` | anything raises; an event goes to the dead letter |

**Abstractions.** Every query filters by tenant, so one tenant is enough. Columns that are coalesced
just as `email` is (names, raw phone, tags) are left out, and so are times, except whether
`opted_out_at` is set, and the status and direction of messages. An opt-out of `all` is one history row
for each channel. The administrator's writes of a contact that does not exist (404) are not steps.

## TenantAdmin

**State.** The tables `tenants`, `users` and `audit_logs`; for each thread the request it is at, with
the row as it was loaded (`seen`) and as the handler has set it (`held`); `answered`, the
registrations some client was told are processed. Requests are numbered and give ids to what they
insert.

| Action | Code |
|---|---|
| `CreateTenant`, `CommitCreate` | `create_tenant`: the INSERT with a new uuid; audit record, commit |
| `UpdateTenant`, `CommitUpdate` | `update_tenant`: read and set; at the commit the UPDATE of the columns that changed, and the record of the row as the session holds it |
| `Refresh` | `db.refresh` after either: 500 when the row is gone |
| `Register` | the SELECT of `register`; an email that is there is answered like a success |
| `InsertUser` | the flush: waits for an open insert of the same email, fails on the unique constraint or the foreign key, or holds both |
| `CommitRegister` | record and commit, which may take effect without an answer |
| `DeleteTenant`, `CommitDelete` | `delete_tenant`: waits for users that are flushed; the cascade takes users, records and its own record |
| `DatabaseError` | any statement raises, or the process dies |

**Abstractions.** Token hashes and secrets, passwords and the GETs are left out; requests turned away
before they touch a row are not steps. `TenantRegistry` is the abstract specification: there a
change is one step with its record, and what the record says of columns that did not change may be
out of date, as it may here.

## UsageReports

**State.** `TenantAdmin`, and `data`: the rows of the tables the numbers come from, each with what the
statements filter and group by; `now`, counted in ticks, the last tick of a day being the fraction of
a second after 23:59:59; the transaction of the event loop (`event`), with the time it began, which
the database gives to `created_at`, and the day the application reads later; and for each reading
thread the report or overview it works on and the rows its statements have seen.

| Action | Code |
|---|---|
| `ReceiveEvent`, `StampEvent`, `CommitEvent`, `FailEvent` | an event: the transaction begins, `now_ts` is read, commit, or dead letter |
| `CreateContact`, `PatchContact` | the two endpoints, which take any status |
| `AdminStep` | a step of `TenantAdmin`; rows leave with their tenant |
| `Tick` | time passes |
| `OpenReport`, `OpenOverview` | `usage_report`; `get_metrics_overview` and `dashboard_overview`, which run the same statements |
| `RunStatement` | the next SELECT, on what is committed now |
| `StopReading` | the answer, or a statement that fails |

**Abstractions.** The statements are a list, in the order of the code; a statement is the table, tags
and period it filters by, and its result the set of rows, from which the properties take counts,
groups and distinct contacts. Statuses of contacts outside the funnel are added up under "other", as
`metrics.py:208` does. The list of SMS messages is cut at 1000 rows in the code; the instances are far
below that. Rows have the columns the statements use. The ids of contacts that events and the
administrator make are kept apart by type (they are random in the code), and a message has one channel
and one direction.

## ConnectionPool

**State.** For each slot the kind of its request (`signed`, `token`, `readyz` on the event loop; `sync`
on a thread), the statement it is at, whether its session has a connection, and who has the loop.

| Action | Code |
|---|---|
| `Arrive`, `Start`, `ScheduleClose`, `Answer` | turns of the event loop: accept, hand to a thread or run, hand the exit of `get_db` to a thread, send |
| `Checkout`, `CheckoutTimeout` | the first statement of a session or transaction takes a connection, or raises after `db_pool_timeout` |
| `LookUpTenant`, `Ingest`, `StoreFailedEvent`, `LastStatement`, `Commit` | what the handlers do; commit and rollback give the connection back |
| `Close` | the `finally` clause of `get_db` |

The handlers of the webhook routes are `async def` and block the loop in a checkout. A session whose
handler has ended keeps its connection until the loop has it closed. When every connection belongs to
such sessions and the loop waits for one, `OnlyTimeoutUnblocks` says that nothing but the timeout
helps, and `RequestsAnswered` that the timeout is enough.

## Runs

| Run | Instance | Properties | Shows |
|---|---|---|---|
| `workers` | two processes with an event loop each, a thread; 3 requests, 1 crash | `TypeOK` `StatsMatchEvents` `RevenueMatchesEvents` `EventsUnique` `AckedIsStored` `ImplementsLedger` `DeadLetterKept` | webhooks race on the same three rows, one worker crashes, a key is used again for another event, another tenant uses the same names |
| `live` | an event loop and a thread, a clerk; 2 requests, 1 contact request, 1 crash | `LocksTypeOK` `RetriesSettle` `DeadlocksGiveIdentities` `RequestsFinish` | an event, or a retry, and any contact route want the same contact and email; deadlocks happen, one of each gives an identity, and they are broken; nobody waits for ever, under `FairSpec` |
| `serial` | an event loop for all events, two threads for the administrator, every endpoint; 4 requests | `TypeOK` `IdentitiesUnique` `OneLogPerMessage` `OptOutKept` `StatusNeverRegresses` | events whose identities point to different contacts, with stale objects everywhere, and what holds because one loop handles one event at a time |
| `races` | two event loops, a thread; 4 requests | `FirstDeliveriesMerge` `HistoryMatchesFlags` `StepsBackAreStale` | first events of one person, retries, opt-outs from both sides, a status by hand, an erasure; statuses go back, and how far |
| `backoffice` | two threads, one of which also reads; 3 requests, days of 2 ticks | `ReportsTypeOK` `UsersOnRecord` `RegistrationsHold` `NoOrphans` `ValuesOnRecord` `NumbersAgree` `BreakdownsCoverTotals` `PatchesMerge` `ImplementsRegistry` `ReportsSettle` | the administrator's requests race with each other, with an event, and with a report or overview |
| `pool` | two connections, two threads, three requests | `PoolTypeOK` `ConnectionsAccounted` `OnlyTimeoutUnblocks` `RequestsAnswered` | no connection leaks, and the loop never stands still for ever |
| `retrycount`, `deadletter`, `amount`, `regress`, `erase`, `billing` | the least instance of each | one each | violated: see [below](#where-the-code-disagrees-with-its-documents) |

**Bounds.** `MaxRequests` bounds the webhooks, retries and administrator's requests of a behaviour,
`MaxContactRequests` the contact requests of `LockOrder`, `MaxCrashes` the crashes, `MaxTime` the clock;
all are guards. The interesting cases are small: two writers of a row and one that reads in between, or
a failed delivery (1), a retry of its row (2) and one more delivery (3). Two of a kind (workers of a
sort, events of a row, contacts with an identity in common) are where the races are; a third adds a
bystander. In `live` an event gives the known contact an email for which a POST has an open entry, while
the POST waits for the contact's phone: the smallest deadlock there is. Another event inserts a contact
with that email, and a retry and any of the contact routes fit beside either. A cycle over a campaign
row takes two events, and one that goes through the row a PATCH has locked a third transaction; with
another loop (`Loops = {w1, w2}`, no retries) the same instance has both, and TLC finds no deadlock of
another shape there, but the liveness check is then too slow to be run each time. The theorem is for any
number of any of them.
In `backoffice` one thread reads at a time, which is enough because readers do not affect anyone; a
day of two ticks has one that counts for the reports and one after 23:59:59, and one more day follows.
In `pool` three requests are one more than the connections, so that one can wait while the others
end or are closed; slots are used again, so behaviours do not end. Deadlock checking is off in the
other runs because a behaviour ends when its requests are used up; that no request is left *waiting*
is what `live` checks.

`serial` is the design the code leans on, and it is narrow: no second process, no retries, no PATCH of
an identity, no status moved up the funnel by hand, no message log with a provider id by hand. Each of
these breaks it; the third and fourth do so with a single event loop, when another contact gets the
identity between the event's look-up and its savepoint, or the contact moves up between the look-up and
the flush. The code does not ask for any of this, so what holds there only because of it
(`OneLogPerMessage`, `StatusNeverRegresses`) is no theorem. What holds of the status without these
conditions is `StepsBackAreStale`. `races` checks it where statuses do go back: an event that moves its
contact back writes a status it derived itself, on the contact it found and no other, and at least the
status it read; only one that met the contact by the unique index, having derived its status for no
contact at all, goes further. An event that derives nothing new takes nobody back, however stale its
object.

`HistoryMatchesFlags` says something when no opt-in is offered, and `FirstDeliveriesMerge` when every
event has an external id and each identity is one person's; `races` is such an instance, and the
variants that violate them show that the antecedents are met.

**Fairness.** `FairSpec` of `LockOrder` adds strong fairness of `Proceed(a)` for each worker and clerk: what
the handler does next, with the database answering. Strong, because a waiter's lock may be taken and freed
again and again by others, and PostgreSQL serves lock waiters in the order they came. It adds weak
fairness of `BreakDeadlock`: the detector runs after `deadlock_timeout`, and a cycle does not go away
by itself. Nobody has to send, retry, discard, delete, fail or crash. That a handler gets a connection,
or an error, is what `pool` shows.

`FairSpec` of `ConnectionPool` adds strong fairness of the turns of the loop for each request (asyncio
takes its tasks in the order they came), weak fairness of a checkout or its timeout (the pool has one),
and strong fairness of the statement that ends the handler. Strong, because a statement after a commit
needs a connection again. It does not say that a connection becomes free.

## Proofs

TLAPS checks these for any sets of tenants, events, requests, workers and processes and any bounds.

| Theorem of `EventIngestion` | States |
|---|---|
| `TypeCorrect` | `Spec => []TypeOK` |
| `CountersMatchEvents` | `Spec => []StatsMatchEvents` |
| `EventsStayUnique` | `Spec => []EventsUnique` |
| `AnswersAreTrue` | `Spec => []AckedIsStored` |
| `IngestionImplementsLedger` | `Spec => Ledger!Spec` |
| `RevenueAddsUp` | `Spec => []RevenueMatchesEvents` |
| `DeadLettersAreKept` | `Spec => DeadLetterKept` |

| Theorem of `EventNames` | States |
|---|---|
| `TwoValidationsSettle` | for every spelling, what two validations make of it a third leaves alone |
| `RetriesAreSettled` | `Spec => []RetriesSettle` (of `EventIngestion`), given `PayloadsAreValidated` |

| Theorem of `Contacts` | States |
|---|---|
| `TypeCorrect` | `Spec => []TypeOK` |
| `OptOutsAreKept` | `Spec => OptOutKept` |
| `IdentitiesStayUnique` | `Spec => []IdentitiesUnique` |
| `HistoryIsTrue` | `Spec => []HistoryMatchesFlags` |
| `StepsBackAreBounded` | `Spec => StepsBackAreStale` |
| `FirstDeliveriesDoMerge` | `Spec => []FirstDeliveriesMerge`, given `IdentitiesKeptByHand` and `NoIdentitiesByHand` |

| Theorem of `LockOrder` | States |
|---|---|
| `LocksTypeCorrect` | `LocksSpec => []LocksTypeOK` |
| `DeadlocksNeedAnIdentity` | `LocksSpec => []DeadlocksGiveIdentities` |

| Theorem of `TenantAdmin` | States |
|---|---|
| `TypeCorrect` | `Spec => []TypeOK` |
| `UsersAreOnRecord` | `Spec => []UsersOnRecord` |
| `RegistrationsDoHold` | `Spec => []RegistrationsHold` |
| `NothingOrphaned` | `Spec => []NoOrphans` |
| `ValuesAreOnRecord` | `Spec => []ValuesOnRecord` |
| `RegistryIsImplemented` | `Spec => ImplementsRegistry` |
| `UpdatesMerge` | `Spec => PatchesMerge` |

| Theorem of `UsageReports` | States |
|---|---|
| `ReportsTypeCorrect` | `ReportsSpec => []ReportsTypeOK` |
| `AdminKept` | the four invariants of `TenantAdmin` hold of `ReportsSpec` too |
| `RegistryIsImplementedBeside` | `ReportsSpec => ImplementsRegistry` |
| `UpdatesMergeBeside` | `ReportsSpec => PatchesMerge` |
| `ReportsDoSettle` | `ReportsSpec => ReportsSettle` |
| `NumbersDoAgree` | `ReportsSpec => []NumbersAgree` |
| `BreakdownsDoCoverTotals` | `ReportsSpec => []BreakdownsCoverTotals` |

| Theorem of `ConnectionPool` | States |
|---|---|
| `PoolTypeCorrect` | `Spec => []PoolTypeOK` |
| `ConnectionsAreAccounted` | `Spec => []ConnectionsAccounted` |
| `TimeoutUnblocks` | `Spec => OnlyTimeoutUnblocks` |

They rest on the assumptions the modules name: `NamesAssumption` (the "none" values are none of the
names), `EventsAssumption` (events are well-formed, finitely many), `RereadAssumption` (a payload
validated again keeps its key), `DeploymentAssumption` (loops and threads are different workers, each
in a process, and `Free` is none of them); for `LockOrder`, `ClerksAssumption` (clerks are other threads
than the workers) and `IdentitiesAssumption` (an identity belongs to one of three indexes, an event or a
form has at most one of each, and the contacts at first were given out their ids);
for `Contacts`, `BodiesAssumption` and `CallsAssumption` (events and the administrator's requests are
well-formed, as their schemas make them, and a PATCH cannot name `external_contact_id`, `opted_out_at`
or the erasure), `NullAssumption` (no status is NULL, as the column says) and `WorkersAssumption`; for `TenantAdmin`, `TenantBodiesAssumption` (bodies are
well-formed, and `system` is no email); for `UsageReports`, `ReportsAssumption` (payloads are
well-formed, a message has one channel and one direction, a contact that an event makes has an id no
request has, readers are threads, a day has a tick that counts and one that does not); for
`EventNames`, `SpellingAssumption`; for `ConnectionPool`, `PoolAssumption` (finitely many
requests, at least one connection and one thread). TLC evaluates them on every run.
`PayloadsAreValidated`, the condition of `RetriesAreSettled`, says that the payloads are what
validation makes of something and that `Reread` validates them again. The instances define their
payloads and `Reread` so (`Payloads`, `MCReread` in `MCLockOrder`).

**The argument for `EventIngestion`.** No property is inductive by itself: that the counters match the events after a
commit depends on what an *open* transaction has written. The inductive invariant adds:

- `LocksFollowWrites`: a worker holds exactly the locks of the rows its statements so far have
  written, so a lock identifies its writer and dies with its transaction;
- `VersionsAddUp`: a locked row's newest version is its committed one plus its writer's increment, a
  free row's is the committed one. This is where `SET c = c + n` under the row lock is used;
- `OpenKeysAreNew`: an event in an open transaction is not stored, nobody else has its key open, and
  its tenant exists. The unique index and the wait for a doubtful key keep it, and the key-share lock
  keeps the tenant; with it a commit adds an event that was not there, so every count grows by one;
- `CommitsParse`: no amount that fails to parse reaches a commit;
- `OutcomesAreTrue`: whoever is about to answer "ingested" or "duplicate" has seen it stored;
- `QueueInv`: queue ids are unique and below the sequence, and a retry works on the event of its row.

The refinement maps the committed tables (`ledger <- lead_events`, `tally <- stats`,
`parked <- failed_events`). Commits, dead letters, retry counts, discards and deletions are ledger
steps; everything else stutters. A commit is one step because `VersionsAddUp` says that what becomes
visible is exactly the event's increments. `DeadLettersAreKept` follows from the same step lemmas.

`RevenueAddsUp` takes the same invariant: `CommitAdds` says a commit adds to each column of each row
what its event adds, `RevenueOfOneMore` that the revenue of a set of events grows by just that when one
joins that was not in it (`OpenKeysAreNew`). The commit of an event that earns nothing on a row, and the
deletion of another tenant, leave the set of events that do as it was.

**The argument for `EventNames`.** A validation ends with a canonical type or with a name that has no
capitals and no dots. The first is a name of itself and of no other type (each table is compared with
each), so it stays. The second stays, or is an alias, and then the next validation ends with a canonical
type. So two settle every name; one does not, which is how a retried event comes to be of another type
than the one that failed. A retry's session holds a payload that was validated when it was delivered
and again when it was read from the queue, and keeps it to its end: `RetriesSettle`.

**The argument for `Contacts`.** What a commit writes was computed from an object read earlier, so the
invariant is about the open sessions (`SessionInv`, `FlagsHeld`, `PendingUnique`, at the end of the
module):

- a flush writes only the columns in which `held` differs from `seen`, and `FlagsHeld` says that a
  session other than an opt-in or a PATCH holds every flag it has seen. So a flag it turns to FALSE
  would be one it saw TRUE and holds FALSE, and there is none: `OptOutKept`;
- `PendingUnique`: a contact inserted in an open transaction shares no identity with a committed
  contact or with another open insert. A savepoint keeps it for itself; a commit of somebody else
  keeps it because a flush is refused by, or waits for, an index entry of an open insert. Then the
  commit of the insert itself needs no check and `IdentitiesUnique` holds after it, as it does after
  flushes and POSTs, which check both.

The theorems for deployments need more of what the sessions know:

- `MarksLast`, for the history: a flag that only turns TRUE, once seen, is still set when the session
  commits, and the session holds the flags it saw and those its request sets. So a commit makes TRUE
  exactly the flags it records, and an erasure all of them;
- `AheadOfRead`, for the statuses: the status a session holds is not behind the one it saw, or the
  session met its contact by the unique index, with a status derived for no contact. A flush writes the
  status only when it differs from the one seen, so a commit that moves the contact back is one that
  derived it: `StepsBackAreStale`. Nothing is assumed of the deployment;
- `PersonsApart`, for the first deliveries: every contact agrees with the events of its person, and an
  event that met a unique index has a contact with its external id to find at the first of the three
  look-ups. `NumbersInv` (a request's number is its own) tells the contacts that are to be apart.

**The argument for `LockOrder`.** `ClaimsInv` says that a transaction touches the aggregates after its
contact is settled, adds its entries in the order of the indexes, and locks the row of a contact that is
there before it adds one for it; and that one that records an opt-out locks the row `FOR UPDATE` only to
give a new external id. `LocksFollowWrites` of `EventIngestion` says where a worker is that has written
an aggregate row. Take a set of transactions that wait for each other, none of which gives an identity.
A row that is locked to be written belongs to one that has nothing left to lock, so nobody in the set
has one. A lock for writing waits for a shared row at most, and only when it is `FOR UPDATE`; but who
shares a row goes on to write it, and not `FOR UPDATE`. So nobody waits at its flush, and no event is
past its contact: revenue, workflow and campaign rows belong to events further on. An insert waits for
one that has made an entry and waits for a later index, of which there are three. What is left waits for
a key, hence for an event past its insert, and there is none.

**The argument for `TenantAdmin`.** `AdminInv` adds to the four properties `NumbersInv` (requests have
numbers of their own, so what they insert is new), `PendingInv` (a user that is flushed is of a tenant
that is there, has an email nobody has, and nobody else has flushed) and `HeldInv` (an update holds
what it saw in every column its body does not name). `PendingInv` is what the unique index and the key
share lock are for: a commit of a registration then needs no check. `HeldInv` with `FlushedRow` gives
`PatchesMerge`, and that the record of an update has the new value of every column it changes.
For the refinement every commit is one step of the registry, everything else a stutter.

**The argument for `UsageReports`.** Its steps are those of `TenantAdmin` or leave its variables alone
but for the count of requests, so `AdminInv` and the refinement carry over. For the numbers there are
two more invariants, at the end of the module. `RowsInv` is about the tables: finitely many rows, one
contact and one message to a key (an insert of a key that is there is an update), the number of a
request only on contacts that it made, and only one channel and direction to a message. `ReadersInv` is about
what each reader has seen:

- `FindsAsked`: the rows a statement found are of its table, tenant, tags and period, finitely many, and
  contacts and messages with different keys. Counting rows is counting keys;
- `SeesAll`: as long as nothing was committed since the first statement, each has found all the rows
  there are for it. Then the parts of a breakdown partition the rows its total counts, and a filtered
  count is of a subset: `NumbersAgree`;
- `StillThere`: of a tenant that exists, each row found is in the tables with the same key and
  `created_at`, and for a message the same channel and direction. Upserts and PATCHes keep them, and
  rows leave only with their tenant;
- `FindsAgain`: so a later statement that asks for no more than an earlier one has found a row for each
  row of the earlier, and the map from rows to keys is injective: `BreakdownsCoverTotals`;
- `Returns`: no open request is about to create a reader's tenant, so a tenant that was deleted
  does not come back while a reader remembers rows of it. Without it `StillThere` is not inductive.

`ReportsSettle` needs only types: an event that commits after a day is over began in a later one and
dates the rows it inserts there, and updates keep `created_at`.

**The argument for `ConnectionPool`.** `ConnectionsAccounted` needs that the pool is finite and that
whoever reaches `closed` has been through `Close`. `OnlyTimeoutUnblocks` takes each action in turn:
turns of the loop need it free, a checkout needs a free connection, and the holders have all finished.

**Only model-checked.** Liveness (`RequestsFinish`, `RequestsAnswered`): fairness is out of the
prover's reach. `OneLogPerMessage` and `StatusNeverRegresses` in `serial`: they hold because of how that
instance is deployed and not because of the code, so a theorem would have to assume the matter away.
Every other property that a passing run checks is stated by a theorem.

## Where the code disagrees with its documents

1. `retrycount`: two retries of one row that fail together write `retry_count` from a stale read; the
   count can go *back* (`failed_events.py:161`; `API_DOCS.md:472`).
2. `deadletter`: `store_failed_event` swallows its own failure, so the log says "stored in dead letter"
   of an event that is lost (`webhook_ingest.py:713`).
3. `amount`: `Decimal()` raises `InvalidOperation`, which `except (ValueError, TypeError)` does not
   catch; the event fails instead of its amount being skipped (`webhook_ingest.py:660`).
4. `regress`: a status derived from a stale read moves a contact back in the funnel when a retry runs
   beside the event loop (`webhook_ingest.py:255`; comment at line 121).
5. `erase`: an event in flight writes personal data to a contact that was anonymized meanwhile
   (`contacts.py:391`; docstring at line 360).
6. `billing`: the report takes revenue by the `created_at` of its row, which is the start of the
   transaction that made it, while the day of the row is read from the clock later; and the period ends
   at 23:59:59. Revenue stored for a day is then in no report of that day, or in that of the day before
   (`reports.py:49`, `:135`, `webhook_ingest.py:627`; docstring at `reports.py:38`).

The models also show behaviour that no document judges, so no property does: the token route answers
500 for an event that was stored when its tenant was deleted before the answer, and for one that is in
no dead letter when its look-up of the tenant got no connection in time; an opt-out of a flag that was
read as set writes nothing although an opt-in has cleared it since; the record of a PATCH may tell of a
value another PATCH has overwritten meanwhile.

## Not modelled

- Cryptography, token formats and password hashes; the checks of webhook signatures and of the admin
  token are gates without state.
- The rate limiter's counting (a library and Redis), readiness of Redis, logging, configuration.
- DDL: the constraints the migrations create are the guards of the inserts in the models.
- The delivery status of a message and inbound messages. No document says in which order statuses may
  come, so no property could tell a right one from a wrong one. The unique index of inbound messages
  has no `tenant_id`, which matters to two tenants of one provider whose message ids collide; `Contacts`
  has one tenant.
- The audit record of an erasure, which is committed with it and read by nobody.
- Deployment scripts: run by hand, no state shared with the service.

`PROJECT.json` lists every part with its reason.

## What comes next

1. Messages of two tenants, with directions and delivery statuses, once it is decided in which order
   statuses may come.
2. `deploy_prod.sh`: its rollback under `set -e`.

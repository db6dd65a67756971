--------------------------- MODULE EventIngestion ---------------------------
(***************************************************************************)
(* How a lead event becomes rows: the two webhook routes, the dead-letter  *)
(* queue with its retry and discard endpoints, and the deletion of the     *)
(* tenant the rows belong to, over one PostgreSQL database.                *)
(*                                                                         *)
(* A worker is whatever runs one request at a time: the event loop of a    *)
(* process (the webhook routes are `async def` and call the database       *)
(* synchronously, so one loop serves one webhook at a time) or a thread of *)
(* its pool (every other route is `def`).  A worker holds one database     *)
(* session, READ COMMITTED: each statement sees what is committed when it  *)
(* runs, an INSERT waits for the transaction that inserted the same key,   *)
(* and an upsert waits for the one that wrote the same row.                *)
(*                                                                         *)
(* What an event does to its contact, its message log and the contact's    *)
(* opt-outs happens in the same transaction and is left to other modules;  *)
(* here those calls can only make the transaction fail (DatabaseError).    *)
(***************************************************************************)
EXTENDS LeadEvents

CONSTANTS
  Reread,           \* the payload raw_payload validates to when it is retried
  Loops, Threads,   \* the workers that run webhooks, and all other requests
  Processes, ProcessOf,   \* the process each worker lives in
  Free,             \* "no worker": the row is not locked
  MaxRequests, MaxCrashes \* bounds

Workers == Loops \cup Threads

(* Validation normalises event_type anew each time and may map a type that *)
(* is already normalised to another one, so a retried payload can be of    *)
(* another type than the one that failed; its key is the stored one.       *)
ASSUME RereadAssumption ==
  /\ Reread \in [Events -> Events]
  /\ \A e \in Events : Key(Reread[e]) = Key(e)

ASSUME DeploymentAssumption ==
  /\ Free \notin Workers
  /\ Loops \cap Threads = {}
  /\ ProcessOf \in [Workers -> Processes]
  /\ MaxRequests \in Nat /\ MaxCrashes \in Nat

-----------------------------------------------------------------------------
VARIABLES
  tenants,        \* ids in the tenants table
  lead_events,    \* committed events
  stats,          \* committed aggregate rows: [Rows -> [Columns -> Int]]
  newest,         \* the newest version of each row, committed or not
  row_lock,       \* the worker whose transaction wrote that version, or Free
  failed_events,  \* rows of the dead-letter queue
  next_id,        \* the sequence behind failed_events.id
  sessions,       \* what each worker is doing
  acked,          \* keys some client was told are ingested (or duplicates)
  requests, crashes \* counters for the bounds

db_vars == <<tenants, lead_events, stats, newest, row_lock, failed_events, next_id>>
vars == <<db_vars, sessions, acked, requests, crashes>>

(* A worker in one of these has a transaction open in which it inserted    *)
(* its lead_events row (and holds the tenant row FOR KEY SHARE).           *)
Inserted == {"campaign", "workflow", "revenue", "commit"}

Sessions ==
  [pc      : Inserted \cup {"idle", "insert", "duplicate", "failing", "noting", "reply"},
   via     : {"signed", "token", "retry"},
   event   : Events,
   fe_id   : Nat,      \* retry: the row retried
   count   : Nat,      \* retry: the retry_count read before it is written
   outcome : {"", "ingested", "duplicate", "failed"},
   error   : {"", "database", "amount"}]

TypeOK ==
  /\ tenants \subseteq Tenants
  /\ lead_events \subseteq Events
  /\ stats \in [Rows -> [Columns -> Int]]
  /\ newest \in [Rows -> [Columns -> Int]]
  /\ row_lock \in [Rows -> Workers \cup {Free}]
  /\ failed_events \subseteq FailedEvents
  /\ next_id \in Nat
  /\ sessions \in [Workers -> Sessions]
  /\ acked \subseteq Tenants \X EventIds
  /\ requests \in Nat /\ crashes \in Nat

IdleSession ==
  [pc |-> "idle", via |-> "signed", event |-> CHOOSE e \in Events : TRUE,
   fe_id |-> 0, count |-> 0, outcome |-> "", error |-> ""]

Init ==
  /\ tenants = Tenants
  /\ lead_events = {}
  /\ stats = [r \in Rows |-> Empty]
  /\ newest = stats
  /\ row_lock = [r \in Rows |-> Free]
  /\ failed_events = {}
  /\ next_id = 1
  /\ sessions = [w \in Workers |-> IdleSession]
  /\ acked = {}
  /\ requests = 0 /\ crashes = 0

Stored(k) == \E e \in lead_events : Key(e) = k
Queued(id) == \E fe \in failed_events : fe.id = id

-----------------------------------------------------------------------------
(* Requests arrive.                                                        *)

(* ingest_lead_event and ingest_lead_event_token up to the call of         *)
(* ingest_with_dead_letter.  The token route looks its tenant up first and *)
(* turns an unknown token away (401); the signed route believes the        *)
(* tenant_id of the body.  Clients redeliver: any event, any number of     *)
(* times.                                                                  *)
DeliverWebhook(w) ==
  /\ w \in Loops /\ sessions[w].pc = "idle"
  /\ requests < MaxRequests
  /\ \E e \in Events, via \in {"signed", "token"} :
       /\ via = "token" => e.tenant_id \in tenants
       /\ sessions' = [sessions EXCEPT ![w] =
            [IdleSession EXCEPT !.pc = "insert", !.via = via, !.event = e]]
  /\ requests' = requests + 1
  /\ UNCHANGED <<db_vars, acked, crashes>>

(* Variant: the retry takes its row off the queue before it tries.         *)
RetryRemovesFirst(w) ==
  /\ w \in Threads /\ sessions[w].pc = "idle"
  /\ requests < MaxRequests
  /\ \E fe \in failed_events :
       /\ sessions' = [sessions EXCEPT ![w] =
            [IdleSession EXCEPT !.pc = "insert", !.via = "retry",
                                !.event = Reread[fe.event], !.fe_id = fe.id]]
       /\ failed_events' = failed_events \ {fe}
  /\ requests' = requests + 1
  /\ UNCHANGED <<tenants, lead_events, stats, newest, row_lock, next_id, acked, crashes>>

(* retry_failed_event up to the call of process_lead_event_core.           *)
RetryFailedEvent(w) ==
  /\ w \in Threads /\ sessions[w].pc = "idle"
  /\ requests < MaxRequests
  /\ \E fe \in failed_events :
       sessions' = [sessions EXCEPT ![w] =
         [IdleSession EXCEPT !.pc = "insert", !.via = "retry",
                             !.event = Reread[fe.event], !.fe_id = fe.id]]
  /\ requests' = requests + 1
  /\ UNCHANGED <<db_vars, acked, crashes>>

(* delete_failed_event: the administrator discards a row.                  *)
DeleteFailedEvent ==
  /\ requests < MaxRequests
  /\ \E fe \in failed_events : failed_events' = failed_events \ {fe}
  /\ requests' = requests + 1
  /\ UNCHANGED <<tenants, lead_events, stats, newest, row_lock, next_id,
                 sessions, acked, crashes>>

-----------------------------------------------------------------------------
(* process_lead_event_core, one step per statement that can wait.          *)

Goto(w, pc) == sessions' = [sessions EXCEPT ![w] = [@ EXCEPT !.pc = pc]]

(* Another transaction has inserted the same key and is still open: the    *)
(* unique index lets this INSERT wait for its end.                         *)
KeyInDoubt(w, k) ==
  \E v \in Workers \ {w} :
    sessions[v].pc \in Inserted /\ Key(sessions[v].event) = k

(* Variant: a failed session keeps the locks of the rows it wrote.         *)
RollbackKeepsLocks(ws) ==
  /\ newest' = [r \in Rows |-> IF row_lock[r] \in ws THEN stats[r] ELSE newest[r]]
  /\ UNCHANGED row_lock

(* db.rollback(), or the database losing the connection: the rows written  *)
(* by these workers return to their committed versions.                    *)
Rollback(ws) ==
  /\ newest' = [r \in Rows |-> IF row_lock[r] \in ws THEN stats[r] ELSE newest[r]]
  /\ row_lock' = [r \in Rows |-> IF row_lock[r] \in ws THEN Free ELSE row_lock[r]]

(* An exception inside the try block, and the rollback it leads to.        *)
Fail(w, error) ==
  /\ Rollback({w})
  /\ sessions' = [sessions EXCEPT ![w] = [@ EXCEPT !.pc = "failing", !.error = error]]
  /\ UNCHANGED <<tenants, lead_events, stats, failed_events, next_id>>

(* Variant: a SELECT for the key and then an INSERT, with no unique        *)
(* constraint behind them.                                                 *)
SelectThenInsert(w) ==
  LET e == sessions[w].event IN
  /\ sessions[w].pc = "insert"
  /\ e.tenant_id \in tenants
  /\ Goto(w, IF Stored(Key(e)) THEN "duplicate" ELSE "campaign")
  /\ UNCHANGED <<db_vars, acked, requests, crashes>>

(* Variant: a key another transaction has inserted counts as a duplicate   *)
(* at once, committed or not.                                              *)
DuplicateOfOpenInsert(w) ==
  LET e == sessions[w].event IN
  /\ sessions[w].pc = "insert"
  /\ e.tenant_id \in tenants
  /\ Goto(w, IF Stored(Key(e)) \/ KeyInDoubt(w, Key(e)) THEN "duplicate" ELSE "campaign")
  /\ UNCHANGED <<db_vars, acked, requests, crashes>>

(* INSERT INTO lead_events ... ON CONFLICT DO NOTHING.  The foreign key    *)
(* fails when the tenant does not exist; a stored key makes a duplicate.   *)
InsertLeadEvent(w) ==
  LET e == sessions[w].event IN
  /\ sessions[w].pc = "insert"
  /\ ~KeyInDoubt(w, Key(e))
  /\ \/ e.tenant_id \notin tenants /\ Fail(w, "database")
     \/ /\ e.tenant_id \in tenants
        /\ Goto(w, IF Stored(Key(e)) THEN "duplicate" ELSE "campaign")
        /\ UNCHANGED db_vars
  /\ UNCHANGED <<acked, requests, crashes>>

(* Variant: read the committed row, add in Python, write the sum back.     *)
ReadAddWrite(w, r) ==
  /\ row_lock' = [row_lock EXCEPT ![r] = w]
  /\ newest' = [newest EXCEPT ![r] =
       [c \in Columns |-> stats[r][c] + Increment(sessions[w].event, r, c)]]
  /\ UNCHANGED <<tenants, lead_events, stats, failed_events, next_id>>

(* INSERT ... ON CONFLICT DO UPDATE SET col = col + increment: waits until *)
(* no other transaction holds the row, then adds to its newest version.    *)
UpsertRow(w, r) ==
  /\ row_lock[r] \in {Free, w}
  /\ row_lock' = [row_lock EXCEPT ![r] = w]
  /\ newest' = [newest EXCEPT ![r] =
       [c \in Columns |-> @[c] + Increment(sessions[w].event, r, c)]]
  /\ UNCHANGED <<tenants, lead_events, stats, failed_events, next_id>>

UpsertCampaignStats(w) ==
  LET e == sessions[w].event IN
  /\ sessions[w].pc = "campaign"
  /\ IF e.campaign_id = NoId THEN UNCHANGED db_vars
                             ELSE UpsertRow(w, CampaignRow(e))
  /\ Goto(w, "workflow")
  /\ UNCHANGED <<acked, requests, crashes>>

UpsertWorkflowStats(w) ==
  LET e == sessions[w].event IN
  /\ sessions[w].pc = "workflow"
  /\ IF e.workflow_id = NoId THEN UNCHANGED db_vars
                             ELSE UpsertRow(w, WorkflowRow(e))
  /\ Goto(w, "revenue")
  /\ UNCHANGED <<acked, requests, crashes>>

(* Variant: revenue is written in a transaction of its own.                *)
RevenueCommittedApart(w) ==
  LET e == sessions[w].event IN
  /\ sessions[w].pc = "revenue"
  /\ IF CarriesRevenue(e) /\ e.amount # InvalidAmount
       THEN LET r == RevenueRow(e) IN
            /\ row_lock[r] = Free
            /\ newest' = [newest EXCEPT ![r]["total_revenue"] = @ + e.amount]
            /\ stats' = [stats EXCEPT ![r] = newest'[r]]
       ELSE UNCHANGED <<newest, stats>>
  /\ Goto(w, "commit")
  /\ UNCHANGED <<tenants, lead_events, row_lock, failed_events, next_id,
                 acked, requests, crashes>>

(* decimal.InvalidOperation is neither a ValueError nor a TypeError, so an *)
(* amount that does not parse is not skipped: it ends the transaction.     *)
UpsertRevenueSnapshot(w) ==
  LET e == sessions[w].event IN
  /\ sessions[w].pc = "revenue"
  /\ \/ ~CarriesRevenue(e) /\ Goto(w, "commit") /\ UNCHANGED db_vars
     \/ /\ CarriesRevenue(e) /\ e.amount # InvalidAmount
        /\ UpsertRow(w, RevenueRow(e)) /\ Goto(w, "commit")
     \/ CarriesRevenue(e) /\ e.amount = InvalidAmount /\ Fail(w, "amount")
  /\ UNCHANGED <<acked, requests, crashes>>

(* Any statement may fail: a lost connection, a deadlock victim, a unique  *)
(* or NOT NULL constraint met by the contact or the message log.           *)
DatabaseError(w) ==
  /\ sessions[w].pc \in Inserted \cup {"insert", "duplicate"}
  /\ Fail(w, "database")
  /\ UNCHANGED <<acked, requests, crashes>>

-----------------------------------------------------------------------------
(* The end of a request.                                                   *)

(* Variant: the DELETE is filtered by tenant and not by row.               *)
RemoveTenantsRows(w) ==
  failed_events' = IF sessions[w].via = "retry"
                   THEN {fe \in failed_events :
                           fe.event.tenant_id # sessions[w].event.tenant_id}
                   ELSE failed_events

(* A retry deletes its row in the transaction that stores the event.  When *)
(* the row is already gone the DELETE matches nothing, which is no error.  *)
RemoveRetried(w) ==
  failed_events' = IF sessions[w].via = "retry"
                   THEN {fe \in failed_events : fe.id # sessions[w].fe_id}
                   ELSE failed_events

(* db.commit() after an insert.  The commit may take effect and its reply  *)
(* still be lost: the handler then sees an exception.                      *)
CommitEvent(w) ==
  /\ sessions[w].pc = "commit"
  /\ lead_events' = lead_events \cup {sessions[w].event}
  /\ stats' = [r \in Rows |-> IF row_lock[r] = w THEN newest[r] ELSE stats[r]]
  /\ row_lock' = [r \in Rows |-> IF row_lock[r] = w THEN Free ELSE row_lock[r]]
  /\ RemoveRetried(w)
  /\ \/ sessions' = [sessions EXCEPT ![w] = [@ EXCEPT !.pc = "reply", !.outcome = "ingested"]]
     \/ sessions' = [sessions EXCEPT ![w] = [@ EXCEPT !.pc = "failing", !.error = "database"]]
  /\ UNCHANGED <<tenants, newest, next_id, acked, requests, crashes>>

(* db.commit() when the event was already stored.                          *)
CommitDuplicate(w) ==
  /\ sessions[w].pc = "duplicate"
  /\ RemoveRetried(w)
  /\ \/ sessions' = [sessions EXCEPT ![w] = [@ EXCEPT !.pc = "reply", !.outcome = "duplicate"]]
     \/ sessions' = [sessions EXCEPT ![w] = [@ EXCEPT !.pc = "failing", !.error = "database"]]
  /\ UNCHANGED <<tenants, lead_events, stats, newest, row_lock, next_id,
                 acked, requests, crashes>>

Answer500(w) ==
  sessions' = [sessions EXCEPT ![w] = [@ EXCEPT !.pc = "reply", !.outcome = "failed"]]

(* A webhook failed: store_failed_event, which swallows its own failure (a *)
(* tenant that does not exist, a database out of reach).                   *)
StoreFailedEvent(w) ==
  LET e == sessions[w].event IN
  /\ sessions[w].pc = "failing" /\ sessions[w].via # "retry"
  /\ \/ /\ e.tenant_id \in tenants
        /\ failed_events' = failed_events
             \cup {[id |-> next_id, event |-> e, retry_count |-> 0]}
        /\ next_id' = next_id + 1
     \/ UNCHANGED <<failed_events, next_id>>
  /\ Answer500(w)
  /\ UNCHANGED <<tenants, lead_events, stats, newest, row_lock,
                 acked, requests, crashes>>

(* A retry failed: the handler reads its row again (the rollback expired   *)
(* it).  A row that is gone, or a failing read, is swallowed.              *)
RefreshFailedEvent(w) ==
  /\ sessions[w].pc = "failing" /\ sessions[w].via = "retry"
  /\ \/ \E fe \in failed_events :
          /\ fe.id = sessions[w].fe_id
          /\ sessions' = [sessions EXCEPT ![w] = [@ EXCEPT !.pc = "noting", !.count = fe.retry_count]]
     \/ Answer500(w)
  /\ UNCHANGED <<db_vars, acked, requests, crashes>>

(* Variant: the count is taken down instead of up.                         *)
NoteRetrySuccess(w) ==
  /\ sessions[w].pc = "noting"
  /\ failed_events' =
       {IF fe.id = sessions[w].fe_id
          THEN [fe EXCEPT !.retry_count = sessions[w].count - 1] ELSE fe
        : fe \in failed_events}
  /\ Answer500(w)
  /\ UNCHANGED <<tenants, lead_events, stats, newest, row_lock, next_id,
                 acked, requests, crashes>>

(* ... and writes retry_count = what it read + 1.  An UPDATE that finds no *)
(* row (StaleDataError) or fails is swallowed.                             *)
NoteRetryFailure(w) ==
  /\ sessions[w].pc = "noting"
  /\ \/ failed_events' =
          {IF fe.id = sessions[w].fe_id
             THEN [fe EXCEPT !.retry_count = sessions[w].count + 1] ELSE fe
           : fe \in failed_events}
     \/ UNCHANGED failed_events
  /\ Answer500(w)
  /\ UNCHANGED <<tenants, lead_events, stats, newest, row_lock, next_id,
                 acked, requests, crashes>>

(* The answer goes out.  The token route first reads the tenant again for  *)
(* its answer (the commit expired it), which may fail, and does when the   *)
(* tenant was deleted: the client is told 500 about an event that is in.   *)
Reply(w) ==
  LET s == sessions[w] IN
  /\ s.pc = "reply"
  /\ \/ /\ s.outcome \in {"ingested", "duplicate"}
        /\ s.via = "token" => s.event.tenant_id \in tenants
        /\ acked' = acked \cup {Key(s.event)}
     \/ /\ s.outcome = "failed" \/ s.via = "token"
        /\ UNCHANGED acked
  /\ sessions' = [sessions EXCEPT ![w] = IdleSession]
  /\ UNCHANGED <<db_vars, requests, crashes>>

-----------------------------------------------------------------------------
(* Around the requests.                                                    *)

(* delete_tenant: the foreign keys cascade.  The DELETE waits for open     *)
(* transactions that hold the tenant row FOR KEY SHARE.                    *)
DeleteTenant(t) ==
  /\ t \in tenants
  /\ \A w \in Workers : sessions[w].event.tenant_id = t
                           => sessions[w].pc \notin Inserted
  /\ tenants' = tenants \ {t}
  /\ lead_events' = {e \in lead_events : e.tenant_id # t}
  /\ failed_events' = {fe \in failed_events : fe.event.tenant_id # t}
  /\ stats' = [r \in Rows |-> IF r[2] = t THEN Empty ELSE stats[r]]
  /\ newest' = [r \in Rows |-> IF r[2] = t THEN Empty ELSE newest[r]]
  /\ UNCHANGED <<row_lock, next_id, sessions, acked, requests, crashes>>

(* A process dies: its requests vanish, the database rolls back their open *)
(* transactions, the supervisor starts it again.                           *)
Crash(p) ==
  LET dead == {w \in Workers : ProcessOf[w] = p} IN
  /\ crashes < MaxCrashes
  /\ crashes' = crashes + 1
  /\ Rollback(dead)
  /\ sessions' = [w \in Workers |-> IF w \in dead THEN IdleSession ELSE sessions[w]]
  /\ UNCHANGED <<tenants, lead_events, stats, failed_events, next_id, acked, requests>>

(* What the handler itself does next, with the database answering.         *)
Advance(w) ==
  \/ InsertLeadEvent(w)
  \/ UpsertCampaignStats(w) \/ UpsertWorkflowStats(w) \/ UpsertRevenueSnapshot(w)
  \/ CommitEvent(w) \/ CommitDuplicate(w)
  \/ StoreFailedEvent(w) \/ RefreshFailedEvent(w) \/ NoteRetryFailure(w)
  \/ Reply(w)

Next ==
  \/ \E w \in Workers : \/ DeliverWebhook(w) \/ RetryFailedEvent(w)
                         \/ DatabaseError(w) \/ Advance(w)
  \/ DeleteFailedEvent
  \/ \E t \in Tenants : DeleteTenant(t)
  \/ \E p \in Processes : Crash(p)

Spec == Init /\ [][Next]_vars

-----------------------------------------------------------------------------
(* Properties.                                                             *)

(* Every counter of campaign_stats and workflow_stats equals the number of *)
(* stored events of its campaign (workflow) and types, whatever was        *)
(* redelivered, retried, rolled back or lost in a crash: an event counts   *)
(* once or not at all, and with all its counters.                          *)
StatsMatchEvents ==
  \A r \in Rows, c \in CampaignColumns \cup WorkflowColumns :
    stats[r][c] = Cardinality({e \in lead_events : Bumps(e, r, c)})

(* The revenue of a set of events on a row, summed by counting: an element *)
(* for each unit of an amount, less one for each unit of a negative one.   *)
Credits(events, r) ==
  UNION {{e} \X (1..e.amount) : e \in {f \in events : Earns(f, r, "total_revenue")}}
Refunds(events, r) ==
  UNION {{e} \X (1..-e.amount) : e \in {f \in events : Earns(f, r, "total_revenue")}}
Revenue(events, r) ==
  Cardinality(Credits(events, r)) - Cardinality(Refunds(events, r))

(* revenue_snapshots adds up to the amounts of the stored revenue events:  *)
(* each amount is in the sum of its tenant and currency once, or not at    *)
(* all while its event is not stored.                                      *)
RevenueMatchesEvents ==
  \A r \in Rows : stats[r]["total_revenue"] = Revenue(lead_events, r)

(* No two stored events have the same tenant and event_id.                 *)
EventsUnique ==
  \A e, f \in lead_events : Key(e) = Key(f) => e = f

(* A client that was told "ingested" or "duplicate" finds the event stored *)
(* for as long as the tenant exists: no answer rests on a transaction that *)
(* is rolled back later.                                                   *)
AckedIsStored ==
  \A k \in acked : k[1] \in tenants => Stored(k)

(* A row leaves the dead-letter queue only when its event is stored, its   *)
(* tenant is deleted or an administrator discards it; it is never lost to  *)
(* a failing, crashing or concurrent retry.                                *)
DeadLetterKept ==
  [][\A fe \in failed_events :
       ~Queued(fe.id)' => \/ Stored(Key(fe.event))'
                          \/ fe.event.tenant_id \notin tenants'
                          \/ DeleteFailedEvent]_vars

(* A failed retry adds one to its row's retry_count: two retries of a row  *)
(* that fail at the same time never take the count back.                   *)
RetryCountGrows ==
  [][\A fe \in failed_events, after \in failed_events' :
       after.id = fe.id => after.retry_count >= fe.retry_count]_vars

(* When a webhook fails and the log says its event was stored in the dead  *)
(* letter queue, the queue has a new row for it.                           *)
DeadLetterLogTruthful ==
  [][\A w \in Loops :
       sessions[w].pc = "failing" /\ sessions[w].pc' = "reply"
         => \E fe \in failed_events' \ failed_events :
              fe.event = sessions[w].event]_vars

(* An amount that is no number is logged and skipped; it does not fail the *)
(* event it comes with.                                                    *)
InvalidAmountSkipped == \A w \in Workers : sessions[w].error # "amount"

(* A payload that comes back from the dead letter is settled: validated    *)
(* once more it would be of the same type.  No alias leads to an alias     *)
(* that leads elsewhere.                                                   *)
RetriesSettle ==
  \A w \in Workers : sessions[w].via = "retry" =>
    Reread[sessions[w].event] = sessions[w].event

-----------------------------------------------------------------------------
(* Why they hold: the facts about open transactions they rest on.          *)

(* The transaction of worker w has written row r.                          *)
Wrote(w, r) ==
  LET e == sessions[w].event
      pc == sessions[w].pc IN
  \/ /\ pc \in {"workflow", "revenue", "commit"}
     /\ e.campaign_id # NoId /\ r = CampaignRow(e)
  \/ /\ pc \in {"revenue", "commit"}
     /\ e.workflow_id # NoId /\ r = WorkflowRow(e)
  \/ /\ pc = "commit"
     /\ CarriesRevenue(e) /\ r = RevenueRow(e)

(* The worker whose open transaction wrote a row holds its lock: no lock   *)
(* outlives its transaction, and no two transactions write the same row.   *)
LocksFollowWrites ==
  \A w \in Workers, r \in Rows : row_lock[r] = w <=> Wrote(w, r)

(* A locked row's newest version is the committed one and what the         *)
(* writer's event adds to it; a free row's is the committed one.           *)
VersionsAddUp ==
  \A r \in Rows :
    /\ row_lock[r] = Free => newest[r] = stats[r]
    /\ \A w \in Workers : row_lock[r] = w =>
         \A c \in Columns :
           newest[r][c] = stats[r][c] + Increment(sessions[w].event, r, c)

(* An event in an open transaction is not stored, its tenant exists, and   *)
(* no other open transaction has its key.                                  *)
OpenKeysAreNew ==
  \A w \in Workers : sessions[w].pc \in Inserted =>
    LET k == Key(sessions[w].event) IN
    /\ k[1] \in tenants
    /\ ~Stored(k)
    /\ \A v \in Workers \ {w} : sessions[v].pc \in Inserted => Key(sessions[v].event) # k

(* Only an amount that parses gets as far as the commit.                   *)
CommitsParse ==
  \A w \in Workers :
    sessions[w].pc = "commit" /\ CarriesRevenue(sessions[w].event)
      => sessions[w].event.amount # InvalidAmount

TransactionInv ==
  LocksFollowWrites /\ VersionsAddUp /\ OpenKeysAreNew /\ CommitsParse

(* A worker about to answer "ingested" or "duplicate", or about to commit  *)
(* a duplicate, has seen the event stored.                                 *)
OutcomesAreTrue ==
  \A w \in Workers :
    \/ sessions[w].pc = "duplicate"
    \/ sessions[w].pc = "reply" /\ sessions[w].outcome \in {"ingested", "duplicate"}
    => LET k == Key(sessions[w].event) IN k[1] \in tenants => Stored(k)

(* Rows of the queue have ids the sequence gave out, one row to an id, and *)
(* a tenant; a retry works on the event of its row for as long as the row  *)
(* is there.                                                               *)
QueueInv ==
  /\ \A fe \in failed_events : fe.id < next_id /\ fe.event.tenant_id \in tenants
  /\ \A fe, ge \in failed_events : fe.id = ge.id => fe = ge
  /\ \A w \in Workers : sessions[w].via = "retry" =>
       /\ sessions[w].fe_id < next_id
       /\ \A fe \in failed_events :
            fe.id = sessions[w].fe_id => Key(fe.event) = Key(sessions[w].event)

-----------------------------------------------------------------------------
(* What the clients and the administrator may rely on: every committed     *)
(* change of the tables is one atomic step of the ledger.                  *)
Ledger == INSTANCE EventLedger WITH ledger <- lead_events, tally <- stats,
                                    parked <- failed_events
ImplementsLedger == Ledger!Spec

=============================================================================

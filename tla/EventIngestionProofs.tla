------------------------ MODULE EventIngestionProofs ------------------------
(***************************************************************************)
(* Proofs about EventIngestion, for any set of tenants, events, workers    *)
(* and processes, and any bounds.                                          *)
(***************************************************************************)
EXTENDS EventIngestion, FiniteSetTheorems, TLAPS

-----------------------------------------------------------------------------
(* Facts about the data.                                                   *)

(* What an event adds to a column is an integer.                           *)
LEMMA IncrementType ==
  ASSUME NEW e \in Events, NEW r, NEW c
  PROVE  Increment(e, r, c) \in Int
<1>1. e.amount \in Int \cup {NoAmount, InvalidAmount}
  BY EventsAssumption DEF EventFields
<1>2. Earns(e, r, c) => e.amount \in Int
  BY <1>1 DEF Earns, CarriesRevenue
<1> QED
  BY <1>2 DEF Increment

(* The rows an event touches are rows of the aggregate tables.             *)
LEMMA EventRows ==
  ASSUME NEW e \in Events
  PROVE  /\ e.campaign_id # NoId => CampaignRow(e) \in Rows
         /\ e.workflow_id # NoId => WorkflowRow(e) \in Rows
         /\ RevenueRow(e) \in Rows
         /\ Key(e) \in Tenants \X EventIds
<1>1. e \in EventFields
  BY EventsAssumption
<1> QED
  BY <1>1 DEF CampaignRow, WorkflowRow, RevenueRow, Rows, EventFields, Key

-----------------------------------------------------------------------------
(* Type correctness.                                                       *)

LEMMA IdleType == IdleSession \in Sessions
<1>1. (CHOOSE e \in Events : TRUE) \in Events
  BY EventsAssumption
<1> QED
  BY <1>1 DEF IdleSession, Sessions

LEMMA InitType == Init => TypeOK
<1> SUFFICES ASSUME Init PROVE TypeOK
  OBVIOUS
<1>1. Empty \in [Columns -> Int]
  BY DEF Empty
<1> QED
  BY <1>1, IdleType DEF Init, TypeOK, Workers

(* Rolling back keeps the types of the rows and of their locks.            *)
LEMMA RollbackType ==
  ASSUME TypeOK, NEW ws, Rollback(ws)
  PROVE  /\ newest' \in [Rows -> [Columns -> Int]]
         /\ row_lock' \in [Rows -> Workers \cup {Free}]
BY DEF TypeOK, Rollback

LEMMA FailType ==
  ASSUME TypeOK, NEW w \in Workers, NEW error \in {"database", "amount"},
         Fail(w, error), UNCHANGED <<acked, requests, crashes>>
  PROVE  TypeOK'
<1>1. /\ newest' \in [Rows -> [Columns -> Int]]
      /\ row_lock' \in [Rows -> Workers \cup {Free}]
  BY RollbackType DEF Fail
<1>2. [sessions[w] EXCEPT !.pc = "failing", !.error = error] \in Sessions
  BY DEF TypeOK, Sessions
<1> QED
  BY <1>1, <1>2 DEF Fail, TypeOK

LEMMA UpsertRowType ==
  ASSUME TypeOK, NEW w \in Workers, NEW r \in Rows, UpsertRow(w, r)
  PROVE  /\ newest' \in [Rows -> [Columns -> Int]]
         /\ row_lock' \in [Rows -> Workers \cup {Free}]
<1>1. sessions[w].event \in Events
  BY DEF TypeOK, Sessions
<1>2. [c \in Columns |-> newest[r][c] + Increment(sessions[w].event, r, c)]
        \in [Columns -> Int]
  BY <1>1, IncrementType DEF TypeOK
<1> QED
  BY <1>2 DEF UpsertRow, TypeOK

(* A worker's new session that differs in its program counter alone.       *)
LEMMA GotoType ==
  ASSUME TypeOK, NEW w \in Workers,
         NEW pc \in {"workflow", "revenue", "commit", "campaign", "duplicate"},
         Goto(w, pc)
  PROVE  sessions' \in [Workers -> Sessions]
<1>1. [sessions[w] EXCEPT !.pc = pc] \in Sessions
  BY ZenonT(60) DEF TypeOK, Sessions, Inserted
<1> QED
  BY <1>1 DEF Goto, TypeOK

(* A request begins. *)
LEMMA BeginType ==
  ASSUME TypeOK, NEW w \in Workers, DeliverWebhook(w) \/ RetryFailedEvent(w)
  PROVE  TypeOK'
<1>1. CASE DeliverWebhook(w)
  <2>1. PICK e \in Events, via \in {"signed", "token"} :
          sessions' = [sessions EXCEPT ![w] =
            [IdleSession EXCEPT !.pc = "insert", !.via = via, !.event = e]]
    BY <1>1 DEF DeliverWebhook
  <2>2. [IdleSession EXCEPT !.pc = "insert", !.via = via, !.event = e] \in Sessions
    BY IdleType DEF Sessions
  <2>3. sessions' \in [Workers -> Sessions]
    BY <2>1, <2>2 DEF TypeOK
  <2>4. requests' \in Nat
    <3>1. requests \in Nat
      BY DEF TypeOK
    <3>2. requests' = requests + 1
      BY <1>1 DEF DeliverWebhook
    <3> QED
      BY <3>1, <3>2
  <2> QED
    BY <1>1, <2>3, <2>4 DEF DeliverWebhook, TypeOK, db_vars
<1>2. CASE RetryFailedEvent(w)
  <2>1. PICK fe \in failed_events :
          sessions' = [sessions EXCEPT ![w] =
            [IdleSession EXCEPT !.pc = "insert", !.via = "retry",
                                !.event = Reread[fe.event], !.fe_id = fe.id]]
    BY <1>2 DEF RetryFailedEvent
  <2>2. fe.id \in Nat /\ Reread[fe.event] \in Events
    BY RereadAssumption DEF TypeOK, FailedEvents
  <2>3. [IdleSession EXCEPT !.pc = "insert", !.via = "retry",
           !.event = Reread[fe.event], !.fe_id = fe.id] \in Sessions
    BY <2>2, IdleType DEF Sessions
  <2>4. sessions' \in [Workers -> Sessions]
    BY <2>1, <2>3 DEF TypeOK
  <2>5. requests' \in Nat
    <3>1. requests \in Nat
      BY DEF TypeOK
    <3>2. requests' = requests + 1
      BY <1>2 DEF RetryFailedEvent
    <3> QED
      BY <3>1, <3>2
  <2> QED
    BY <1>2, <2>4, <2>5 DEF RetryFailedEvent, TypeOK, db_vars
<1> QED
  BY <1>1, <1>2

(* The statements of process_lead_event_core. *)
LEMMA StatementType ==
  ASSUME TypeOK, NEW w \in Workers,
         InsertLeadEvent(w) \/ UpsertCampaignStats(w) \/ UpsertWorkflowStats(w)
           \/ UpsertRevenueSnapshot(w) \/ DatabaseError(w)
  PROVE  TypeOK'
<1> DEFINE e == sessions[w].event
<1>0. e \in Events
  BY DEF TypeOK, Sessions
<1>1. CASE InsertLeadEvent(w)
  BY <1>1, FailType, GotoType DEF InsertLeadEvent, TypeOK, db_vars
<1>2. CASE UpsertCampaignStats(w)
  <2>1. sessions' \in [Workers -> Sessions]
    BY <1>2, GotoType DEF UpsertCampaignStats
  <2>2. CASE e.campaign_id = NoId
    BY <1>2, <2>1, <2>2 DEF UpsertCampaignStats, TypeOK, db_vars
  <2>3. CASE e.campaign_id # NoId
    BY <1>0, <1>2, <2>1, <2>3, EventRows, UpsertRowType
       DEF UpsertCampaignStats, UpsertRow, TypeOK
  <2> QED
    BY <2>2, <2>3
<1>3. CASE UpsertWorkflowStats(w)
  <2>1. sessions' \in [Workers -> Sessions]
    BY <1>3, GotoType DEF UpsertWorkflowStats
  <2>2. CASE e.workflow_id = NoId
    BY <1>3, <2>1, <2>2 DEF UpsertWorkflowStats, TypeOK, db_vars
  <2>3. CASE e.workflow_id # NoId
    BY <1>0, <1>3, <2>1, <2>3, EventRows, UpsertRowType
       DEF UpsertWorkflowStats, UpsertRow, TypeOK
  <2> QED
    BY <2>2, <2>3
<1>4. CASE UpsertRevenueSnapshot(w)
  <2>1. CASE Goto(w, "commit") /\ UNCHANGED db_vars
    BY <1>4, <2>1, GotoType DEF UpsertRevenueSnapshot, TypeOK, db_vars
  <2>2. CASE UpsertRow(w, RevenueRow(e)) /\ Goto(w, "commit")
    BY <1>0, <1>4, <2>2, EventRows, UpsertRowType, GotoType
       DEF UpsertRevenueSnapshot, UpsertRow, TypeOK
  <2>3. CASE Fail(w, "amount")
    BY <1>4, <2>3, FailType DEF UpsertRevenueSnapshot
  <2> QED
    BY <1>4, <2>1, <2>2, <2>3 DEF UpsertRevenueSnapshot
<1>5. CASE DatabaseError(w)
  BY <1>5, FailType DEF DatabaseError
<1> QED
  BY <1>1, <1>2, <1>3, <1>4, <1>5

(* The end of a request. *)
LEMMA EndType ==
  ASSUME TypeOK, NEW w \in Workers,
         CommitEvent(w) \/ CommitDuplicate(w) \/ StoreFailedEvent(w)
           \/ RefreshFailedEvent(w) \/ NoteRetryFailure(w) \/ Reply(w)
  PROVE  TypeOK'
<1> DEFINE s == sessions[w]
<1>0. s \in Sessions /\ s.event \in Events
  BY DEF TypeOK, Sessions
<1>1. /\ [s EXCEPT !.pc = "reply", !.outcome = "ingested"] \in Sessions
      /\ [s EXCEPT !.pc = "reply", !.outcome = "duplicate"] \in Sessions
      /\ [s EXCEPT !.pc = "reply", !.outcome = "failed"] \in Sessions
      /\ [s EXCEPT !.pc = "failing", !.error = "database"] \in Sessions
      /\ \A n \in Nat : [s EXCEPT !.pc = "noting", !.count = n] \in Sessions
  BY <1>0 DEF Sessions
<1>2. RemoveRetried(w) => failed_events' \subseteq FailedEvents
  BY DEF RemoveRetried, TypeOK
<1>3. CASE CommitEvent(w)
  BY <1>0, <1>1, <1>2, <1>3 DEF CommitEvent, TypeOK
<1>4. CASE CommitDuplicate(w)
  BY <1>1, <1>2, <1>4 DEF CommitDuplicate, TypeOK
<1>5. CASE StoreFailedEvent(w)
  <2>1. failed_events' \subseteq FailedEvents /\ next_id' \in Nat
    BY <1>0, <1>5 DEF StoreFailedEvent, TypeOK, FailedEvents
  <2> QED
    BY <1>1, <1>5, <2>1 DEF StoreFailedEvent, Answer500, TypeOK
<1>6. CASE RefreshFailedEvent(w)
  <2>1. \A fe \in failed_events : fe.retry_count \in Nat
    BY DEF TypeOK, FailedEvents
  <2> QED
    BY <1>1, <1>6, <2>1 DEF RefreshFailedEvent, Answer500, TypeOK, db_vars
<1>7. CASE NoteRetryFailure(w)
  <2>0. s.count \in Nat
    BY <1>0 DEF Sessions
  <2>1. s.count + 1 \in Nat
    BY <2>0
  <2>2. \A fe \in failed_events : [fe EXCEPT !.retry_count = s.count + 1] \in FailedEvents
    BY <2>1 DEF TypeOK, FailedEvents
  <2>3. failed_events' \subseteq FailedEvents
    BY <1>7, <2>2 DEF NoteRetryFailure, TypeOK
  <2> QED
    BY <1>1, <1>7, <2>3 DEF NoteRetryFailure, Answer500, TypeOK
<1>8. CASE Reply(w)
  <2>1. Key(s.event) \in Tenants \X EventIds
    BY <1>0, EventRows
  <2>2. acked' \subseteq Tenants \X EventIds
    BY <1>8, <2>1 DEF Reply, TypeOK
  <2> QED
    BY <1>8, <2>2, IdleType DEF Reply, TypeOK, db_vars
<1> QED
  BY <1>3, <1>4, <1>5, <1>6, <1>7, <1>8

LEMMA AroundType ==
  ASSUME TypeOK,
         \/ DeleteFailedEvent
         \/ \E t \in Tenants : DeleteTenant(t)
         \/ \E p \in Processes : Crash(p)
  PROVE  TypeOK'
<1>1. CASE DeleteFailedEvent
  BY <1>1 DEF DeleteFailedEvent, TypeOK
<1>2. ASSUME NEW t \in Tenants, DeleteTenant(t) PROVE TypeOK'
  <2>1. Empty \in [Columns -> Int]
    BY DEF Empty
  <2> QED
    BY <1>2, <2>1 DEF DeleteTenant, TypeOK
<1>3. ASSUME NEW p \in Processes, Crash(p) PROVE TypeOK'
  BY <1>3, IdleType, RollbackType DEF Crash, TypeOK
<1> QED
  BY <1>1, <1>2, <1>3

LEMMA NextType == TypeOK /\ [Next]_vars => TypeOK'
<1> SUFFICES ASSUME TypeOK, [Next]_vars PROVE TypeOK'
  OBVIOUS
<1>1. CASE UNCHANGED vars
  BY <1>1 DEF vars, db_vars, TypeOK
<1>2. CASE Next
  BY <1>2, BeginType, StatementType, EndType, AroundType DEF Next, Advance
<1> QED
  BY <1>1, <1>2

(* Every variable keeps its type, whatever the constants.                  *)
THEOREM TypeCorrect == Spec => []TypeOK
<1>1. Init => TypeOK
  BY InitType
<1>2. TypeOK /\ [Next]_vars => TypeOK'
  BY NextType
<1> QED
  BY <1>1, <1>2, PTL DEF Spec

-----------------------------------------------------------------------------
(* Open transactions.  TransactionInv speaks of tenants, lead_events, the  *)
(* rows and the sessions only, and of a session only while it is in        *)
(* Inserted; the steps of Next fall into a few kinds by what they do to    *)
(* those.                                                                  *)

(* The rows of different tables, and what a row says of its writer.        *)
LEMMA RowFacts ==
  ASSUME NEW e, NEW f
  PROVE  /\ CampaignRow(e) # WorkflowRow(f)
         /\ CampaignRow(e) # RevenueRow(f)
         /\ WorkflowRow(e) # RevenueRow(f)
         /\ CampaignRow(e)[2] = e.tenant_id
         /\ WorkflowRow(e)[2] = e.tenant_id
         /\ RevenueRow(e)[2] = e.tenant_id
         /\ Key(e)[1] = e.tenant_id
BY DEF CampaignRow, WorkflowRow, RevenueRow, Key

LEMMA WroteFacts ==
  ASSUME NEW w \in Workers, NEW r, Wrote(w, r)
  PROVE  sessions[w].pc \in Inserted /\ r[2] = sessions[w].event.tenant_id
BY RowFacts DEF Wrote, Inserted

(* A step of a worker outside its transaction.                             *)
LEMMA QuietStep ==
  ASSUME TypeOK, TransactionInv, NEW w \in Workers,
         \A v \in Workers : v # w => sessions'[v] = sessions[v],
         sessions[w].pc \notin Inserted, sessions'[w].pc \notin Inserted,
         UNCHANGED <<tenants, lead_events, stats, newest, row_lock>>
  PROVE  TransactionInv'
<1>1. \A v \in Workers : v # w => sessions'[v] = sessions[v]
  OBVIOUS
<1>2. sessions'[w].pc \notin Inserted
  OBVIOUS
<1>3. \A v \in Workers, r \in Rows : Wrote(v, r)' <=> Wrote(v, r)
  BY <1>1, <1>2 DEF Wrote, Inserted
<1>4. LocksFollowWrites'
  BY <1>3 DEF TransactionInv, LocksFollowWrites
<1>5. \A r \in Rows : row_lock[r] # w
  BY WroteFacts DEF TransactionInv, LocksFollowWrites
<1>6. VersionsAddUp'
  BY <1>1, <1>5 DEF TransactionInv, VersionsAddUp
<1>7. OpenKeysAreNew'
  BY <1>1, <1>2 DEF TransactionInv, OpenKeysAreNew, Stored
<1>8. CommitsParse'
  BY <1>1, <1>2 DEF TransactionInv, CommitsParse, Inserted
<1> QED
  BY <1>4, <1>6, <1>7, <1>8 DEF TransactionInv

(* A rollback, of one session or of all those of a dead process.           *)
LEMMA RollbackStep ==
  ASSUME TypeOK, TransactionInv, NEW ws \in SUBSET Workers, Rollback(ws),
         \A v \in Workers \ ws : sessions'[v] = sessions[v],
         \A v \in ws : sessions'[v].pc \notin Inserted,
         UNCHANGED <<tenants, lead_events, stats>>
  PROVE  TransactionInv'
<1>0. Free \notin Workers
  BY DeploymentAssumption
<1>1. \A v \in Workers \ ws, r \in Rows : Wrote(v, r)' <=> Wrote(v, r)
  BY DEF Wrote
<1>2. \A v \in ws, r \in Rows : ~Wrote(v, r)'
  BY DEF Wrote, Inserted
<1>3. \A v \in ws, r \in Rows : row_lock'[r] # v
  BY <1>0 DEF Rollback
<1>4. \A v \in Workers \ ws, r \in Rows : row_lock'[r] = v <=> row_lock[r] = v
  BY <1>0 DEF Rollback
<1>5. LocksFollowWrites'
  BY <1>1, <1>2, <1>3, <1>4 DEF TransactionInv, LocksFollowWrites
<1>6. VersionsAddUp'
  <2> SUFFICES ASSUME NEW r \in Rows
      PROVE /\ row_lock'[r] = Free => newest'[r] = stats[r]
            /\ \A v \in Workers : row_lock'[r] = v =>
                 \A c \in Columns :
                   newest'[r][c] = stats[r][c] + Increment(sessions'[v].event, r, c)
    BY DEF VersionsAddUp
  <2>1. CASE row_lock[r] \in ws
    BY <1>0, <2>1 DEF Rollback
  <2>2. CASE row_lock[r] \notin ws
    BY <2>2 DEF Rollback, TransactionInv, VersionsAddUp
  <2> QED
    BY <2>1, <2>2
<1>7. OpenKeysAreNew'
  BY DEF TransactionInv, OpenKeysAreNew, Stored
<1>8. CommitsParse'
  BY DEF TransactionInv, CommitsParse, Inserted
<1> QED
  BY <1>5, <1>6, <1>7, <1>8 DEF TransactionInv

(* The INSERT that opens a transaction's claim to a key.                   *)
LEMMA InsertStep ==
  ASSUME TypeOK, TransactionInv, NEW w \in Workers,
         sessions[w].pc = "insert", ~KeyInDoubt(w, Key(sessions[w].event)),
         sessions[w].event.tenant_id \in tenants, ~Stored(Key(sessions[w].event)),
         Goto(w, "campaign"), UNCHANGED db_vars
  PROVE  TransactionInv'
<1>1. \A v \in Workers : v # w => sessions'[v] = sessions[v]
  BY DEF TypeOK, Goto
<1>2. sessions'[w].pc = "campaign" /\ sessions'[w].event = sessions[w].event
  BY DEF TypeOK, Goto, Sessions
<1>3. \A v \in Workers, r \in Rows : Wrote(v, r)' <=> Wrote(v, r)
  BY <1>1, <1>2 DEF Wrote
<1>4. LocksFollowWrites'
  BY <1>3 DEF TransactionInv, LocksFollowWrites, db_vars
<1>5. VersionsAddUp'
  BY <1>1, <1>2 DEF TransactionInv, VersionsAddUp, db_vars
<1>6. OpenKeysAreNew'
  <2>1. \A v \in Workers : Key(sessions'[v].event) = Key(sessions[v].event)
    BY <1>1, <1>2
  <2>2. \A v \in Workers \ {w} :
          sessions[v].pc \in Inserted => Key(sessions[v].event) # Key(sessions[w].event)
    BY DEF KeyInDoubt
  <2>3. Key(sessions[w].event)[1] \in tenants
    BY RowFacts
  <2> QED
    BY <1>1, <1>2, <2>1, <2>2, <2>3 DEF TransactionInv, OpenKeysAreNew, Stored, db_vars
<1>7. CommitsParse'
  BY <1>1, <1>2 DEF TransactionInv, CommitsParse
<1> QED
  BY <1>4, <1>5, <1>6, <1>7 DEF TransactionInv

(* A statement that writes no row: the event names none.                   *)
LEMMA SkipStep ==
  ASSUME TypeOK, TransactionInv, NEW w \in Workers,
         NEW pc \in Inserted, sessions[w].pc \in Inserted,
         Goto(w, pc), UNCHANGED db_vars,
         \A r \in Rows : Wrote(w, r)' <=> Wrote(w, r),
         pc = "commit" => ~CarriesRevenue(sessions[w].event)
  PROVE  TransactionInv'
<1>1. \A v \in Workers : v # w => sessions'[v] = sessions[v]
  BY DEF TypeOK, Goto
<1>2. sessions'[w].pc = pc /\ sessions'[w].event = sessions[w].event
  BY DEF TypeOK, Goto, Sessions
<1>3. \A v \in Workers, r \in Rows : Wrote(v, r)' <=> Wrote(v, r)
  BY <1>1 DEF Wrote
<1>4. LocksFollowWrites'
  BY <1>3 DEF TransactionInv, LocksFollowWrites, db_vars
<1>5. VersionsAddUp'
  BY <1>1, <1>2 DEF TransactionInv, VersionsAddUp, db_vars
<1>6. OpenKeysAreNew'
  BY <1>1, <1>2 DEF TransactionInv, OpenKeysAreNew, Stored, db_vars
<1>7. CommitsParse'
  BY <1>1, <1>2 DEF TransactionInv, CommitsParse
<1> QED
  BY <1>4, <1>5, <1>6, <1>7 DEF TransactionInv

(* An upsert: the row was free, and now carries the event's increment.     *)
LEMMA UpsertStep ==
  ASSUME TypeOK, TransactionInv, NEW w \in Workers, NEW r \in Rows,
         NEW pc \in Inserted, sessions[w].pc \in Inserted,
         UpsertRow(w, r), Goto(w, pc), ~Wrote(w, r),
         \A q \in Rows : Wrote(w, q)' <=> (Wrote(w, q) \/ q = r),
         pc = "commit" => sessions[w].event.amount # InvalidAmount
  PROVE  TransactionInv'
<1>0. Free \notin Workers
  BY DeploymentAssumption
<1>1. \A v \in Workers : v # w => sessions'[v] = sessions[v]
  BY DEF TypeOK, Goto
<1>2. sessions'[w].pc = pc /\ sessions'[w].event = sessions[w].event
  BY DEF TypeOK, Goto, Sessions
<1>3. \A v \in Workers : v # w => \A q \in Rows : Wrote(v, q)' <=> Wrote(v, q)
  BY <1>1 DEF Wrote
<1>4. row_lock[r] = Free
  BY DEF UpsertRow, TransactionInv, LocksFollowWrites
<1>5. row_lock' = [row_lock EXCEPT ![r] = w] /\ UNCHANGED <<tenants, lead_events, stats>>
  BY DEF UpsertRow
<1>6. LocksFollowWrites'
  BY <1>0, <1>3, <1>4, <1>5 DEF TransactionInv, LocksFollowWrites, TypeOK
<1>7. VersionsAddUp'
  <2>1. /\ newest[r] = stats[r]
        /\ \A c \in Columns :
             newest'[r][c] = newest[r][c] + Increment(sessions[w].event, r, c)
    BY <1>4 DEF UpsertRow, TransactionInv, VersionsAddUp, TypeOK
  <2>2. \A q \in Rows : q # r => newest'[q] = newest[q] /\ row_lock'[q] = row_lock[q]
    BY <1>5 DEF UpsertRow, TypeOK
  <2>3. row_lock'[r] = w
    BY <1>5 DEF TypeOK
  <2> QED
    BY <1>0, <1>1, <1>2, <1>5, <2>1, <2>2, <2>3 DEF TransactionInv, VersionsAddUp
<1>8. OpenKeysAreNew'
  BY <1>1, <1>2, <1>5 DEF TransactionInv, OpenKeysAreNew, Stored
<1>9. CommitsParse'
  BY <1>1, <1>2 DEF TransactionInv, CommitsParse
<1> QED
  BY <1>6, <1>7, <1>8, <1>9 DEF TransactionInv

(* What a commit adds to the committed rows is what its event adds.        *)
LEMMA CommitAdds ==
  ASSUME TypeOK, TransactionInv, NEW w \in Workers, CommitEvent(w)
  PROVE  \A r \in Rows, c \in Columns :
           stats'[r][c] = stats[r][c] + Increment(sessions[w].event, r, c)
<1> DEFINE e == sessions[w].event
<1> SUFFICES ASSUME NEW r \in Rows, NEW c \in Columns
             PROVE  stats'[r][c] = stats[r][c] + Increment(e, r, c)
  OBVIOUS
<1>1. CASE row_lock[r] = w
  BY <1>1 DEF CommitEvent, TransactionInv, VersionsAddUp
<1>2. CASE row_lock[r] # w
  <2>1. ~Wrote(w, r) /\ sessions[w].pc = "commit"
    BY <1>2 DEF TransactionInv, LocksFollowWrites, CommitEvent
  <2>2. ~Bumps(e, r, c) /\ ~Earns(e, r, c)
    BY <2>1 DEF Wrote, Bumps, Earns
  <2>3. Increment(e, r, c) = 0
    BY <2>2 DEF Increment
  <2>4. stats'[r] = stats[r] /\ stats[r][c] \in Int
    BY <1>2 DEF CommitEvent, TypeOK
  <2> QED
    BY <2>3, <2>4
<1> QED
  BY <1>1, <1>2

LEMMA CommitStep ==
  ASSUME TypeOK, TransactionInv, NEW w \in Workers, CommitEvent(w)
  PROVE  TransactionInv'
<1> DEFINE k == Key(sessions[w].event)
<1>0. Free \notin Workers
  BY DeploymentAssumption
<1>1. \A v \in Workers : v # w => sessions'[v] = sessions[v]
  BY DEF TypeOK, CommitEvent
<1>2. sessions'[w].pc \notin Inserted /\ sessions[w].pc \in Inserted
  BY ZenonT(60) DEF TypeOK, CommitEvent, Sessions, Inserted
<1>3. \A v \in Workers : v # w => \A r \in Rows : Wrote(v, r)' <=> Wrote(v, r)
  BY <1>1 DEF Wrote
<1>4. \A r \in Rows : ~Wrote(w, r)'
  BY <1>2 DEF Wrote, Inserted
<1>5. \A r \in Rows : IF row_lock[r] = w
          THEN row_lock'[r] = Free /\ stats'[r] = newest[r]
          ELSE row_lock'[r] = row_lock[r] /\ stats'[r] = stats[r]
  BY DEF CommitEvent
<1>6. LocksFollowWrites'
  BY <1>0, <1>3, <1>4, <1>5 DEF TransactionInv, LocksFollowWrites
<1>7. VersionsAddUp'
  BY <1>0, <1>1, <1>5 DEF TransactionInv, VersionsAddUp, CommitEvent
<1>8. OpenKeysAreNew'
  <2>1. \A v \in Workers \ {w} : sessions[v].pc \in Inserted =>
          /\ Key(sessions[v].event)[1] \in tenants
          /\ ~Stored(Key(sessions[v].event))
          /\ Key(sessions[v].event) # k
    BY <1>2 DEF TransactionInv, OpenKeysAreNew
  <2>2. lead_events' = lead_events \cup {sessions[w].event} /\ tenants' = tenants
    BY DEF CommitEvent
  <2>3. \A v \in Workers \ {w} : sessions[v].pc \in Inserted =>
          \A f \in lead_events' : Key(f) # Key(sessions[v].event)
    BY <2>1, <2>2 DEF Stored
  <2>4. \A u, v \in Workers \ {w} :
          u # v /\ sessions[u].pc \in Inserted /\ sessions[v].pc \in Inserted
            => Key(sessions[u].event) # Key(sessions[v].event)
    BY DEF TransactionInv, OpenKeysAreNew
  <2> QED
    BY <1>1, <1>2, <2>1, <2>2, <2>3, <2>4 DEF OpenKeysAreNew, Stored
<1>9. CommitsParse'
  BY <1>1, <1>2 DEF TransactionInv, CommitsParse, Inserted
<1> QED
  BY <1>6, <1>7, <1>8, <1>9 DEF TransactionInv

LEMMA DeleteTenantStep ==
  ASSUME TypeOK, TransactionInv, NEW t \in Tenants, DeleteTenant(t)
  PROVE  TransactionInv'
<1>1. UNCHANGED <<sessions, row_lock>>
  BY DEF DeleteTenant
<1>2. \A w \in Workers : sessions[w].pc \in Inserted => sessions[w].event.tenant_id # t
  BY DEF DeleteTenant
<1>3. \A w \in Workers, r \in Rows : row_lock[r] = w => r[2] # t
  BY <1>2, WroteFacts DEF TransactionInv, LocksFollowWrites
<1>4. \A r \in Rows : IF r[2] = t
          THEN newest'[r] = Empty /\ stats'[r] = Empty
          ELSE newest'[r] = newest[r] /\ stats'[r] = stats[r]
  BY DEF DeleteTenant
<1>5. LocksFollowWrites'
  BY <1>1 DEF TransactionInv, LocksFollowWrites, Wrote
<1>6. VersionsAddUp'
  BY <1>1, <1>3, <1>4 DEF TransactionInv, VersionsAddUp
<1>7. OpenKeysAreNew'
  BY <1>1, <1>2, RowFacts DEF TransactionInv, OpenKeysAreNew, Stored, DeleteTenant
<1>8. CommitsParse'
  BY <1>1 DEF TransactionInv, CommitsParse
<1> QED
  BY <1>5, <1>6, <1>7, <1>8 DEF TransactionInv

LEMMA FailStep ==
  ASSUME TypeOK, TransactionInv, NEW w \in Workers, NEW error, Fail(w, error)
  PROVE  TransactionInv'
<1>1. {w} \in SUBSET Workers
  OBVIOUS
<1>2. sessions'[w].pc \notin Inserted /\ \A v \in Workers \ {w} : sessions'[v] = sessions[v]
  BY DEF Fail, TypeOK, Sessions, Inserted
<1>3. Rollback({w}) /\ UNCHANGED <<tenants, lead_events, stats>>
  BY DEF Fail
<1> QED
  BY <1>1, <1>2, <1>3, RollbackStep

LEMMA InsertLeadEventStep ==
  ASSUME TypeOK, TransactionInv, NEW w \in Workers, InsertLeadEvent(w)
  PROVE  TransactionInv'
<1> DEFINE e == sessions[w].event
<1>1. CASE e.tenant_id \notin tenants
  BY <1>1, FailStep DEF InsertLeadEvent
<1>2. CASE e.tenant_id \in tenants /\ Stored(Key(e))
  <2>1. \A v \in Workers : v # w => sessions'[v] = sessions[v]
    BY <1>2 DEF InsertLeadEvent, Goto, TypeOK
  <2>2. sessions[w].pc \notin Inserted /\ sessions'[w].pc \notin Inserted
    BY <1>2, ZenonT(60) DEF InsertLeadEvent, Goto, Inserted, TypeOK, Sessions
  <2>3. UNCHANGED <<tenants, lead_events, stats, newest, row_lock>>
    BY <1>2 DEF InsertLeadEvent, db_vars
  <2> QED
    BY <2>1, <2>2, <2>3, QuietStep
<1>3. CASE e.tenant_id \in tenants /\ ~Stored(Key(e))
  BY <1>3, InsertStep DEF InsertLeadEvent
<1> QED
  BY <1>1, <1>2, <1>3

LEMMA UpsertCampaignStatsStep ==
  ASSUME TypeOK, TransactionInv, NEW w \in Workers, UpsertCampaignStats(w)
  PROVE  TransactionInv'
<1> DEFINE e == sessions[w].event
<1>0. e \in Events /\ sessions'[w].event = e /\ sessions'[w].pc = "workflow"
  BY DEF UpsertCampaignStats, Goto, TypeOK, Sessions
<1>1. "workflow" \in Inserted /\ sessions[w].pc \in Inserted /\ Goto(w, "workflow")
  BY DEF UpsertCampaignStats, Inserted
<1>2. \A r \in Rows :
        /\ ~Wrote(w, r)
        /\ Wrote(w, r)' <=> (e.campaign_id # NoId /\ r = CampaignRow(e))
  BY <1>0 DEF Wrote, UpsertCampaignStats
<1>3. CASE e.campaign_id = NoId
  BY <1>1, <1>2, <1>3, SkipStep DEF UpsertCampaignStats
<1>4. CASE e.campaign_id # NoId
  BY <1>0, <1>1, <1>2, <1>4, UpsertStep, EventRows DEF UpsertCampaignStats
<1> QED
  BY <1>3, <1>4

LEMMA UpsertWorkflowStatsStep ==
  ASSUME TypeOK, TransactionInv, NEW w \in Workers, UpsertWorkflowStats(w)
  PROVE  TransactionInv'
<1> DEFINE e == sessions[w].event
<1>0. e \in Events /\ sessions'[w].event = e /\ sessions'[w].pc = "revenue"
  BY DEF UpsertWorkflowStats, Goto, TypeOK, Sessions
<1>1. "revenue" \in Inserted /\ sessions[w].pc \in Inserted /\ Goto(w, "revenue")
  BY DEF UpsertWorkflowStats, Inserted
<1>2. \A r \in Rows :
        /\ Wrote(w, r) <=> (e.campaign_id # NoId /\ r = CampaignRow(e))
        /\ Wrote(w, r)' <=> (Wrote(w, r) \/ (e.workflow_id # NoId /\ r = WorkflowRow(e)))
  BY <1>0 DEF Wrote, UpsertWorkflowStats
<1>3. CASE e.workflow_id = NoId
  BY <1>1, <1>2, <1>3, SkipStep DEF UpsertWorkflowStats
<1>4. CASE e.workflow_id # NoId
  BY <1>0, <1>1, <1>2, <1>4, UpsertStep, EventRows, RowFacts DEF UpsertWorkflowStats
<1> QED
  BY <1>3, <1>4

LEMMA UpsertRevenueSnapshotStep ==
  ASSUME TypeOK, TransactionInv, NEW w \in Workers, UpsertRevenueSnapshot(w)
  PROVE  TransactionInv'
<1> DEFINE e == sessions[w].event
<1>1. CASE Fail(w, "amount")
  BY <1>1, FailStep
<1>2. CASE ~Fail(w, "amount")
  <2>0. e \in Events /\ sessions'[w].event = e /\ sessions'[w].pc = "commit"
    BY <1>2 DEF UpsertRevenueSnapshot, Goto, TypeOK, Sessions
  <2>1. "commit" \in Inserted /\ sessions[w].pc \in Inserted /\ Goto(w, "commit")
    BY <1>2 DEF UpsertRevenueSnapshot, Inserted
  <2>2. \A r \in Rows :
          /\ Wrote(w, r) => r # RevenueRow(e)
          /\ Wrote(w, r)' <=> (Wrote(w, r) \/ (CarriesRevenue(e) /\ r = RevenueRow(e)))
    BY <2>0, RowFacts DEF Wrote, UpsertRevenueSnapshot
  <2>3. CASE ~CarriesRevenue(e)
    BY <1>2, <2>1, <2>2, <2>3, SkipStep DEF UpsertRevenueSnapshot
  <2>4. CASE CarriesRevenue(e)
    BY <1>2, <2>0, <2>1, <2>2, <2>4, UpsertStep, EventRows DEF UpsertRevenueSnapshot
  <2> QED
    BY <2>3, <2>4
<1> QED
  BY <1>1, <1>2

(* The steps of a worker that has no row inserted.                         *)
LEMMA OutsideStep ==
  ASSUME TypeOK, TransactionInv, NEW w \in Workers,
         \/ DeliverWebhook(w) \/ RetryFailedEvent(w) \/ CommitDuplicate(w)
         \/ StoreFailedEvent(w) \/ RefreshFailedEvent(w) \/ NoteRetryFailure(w)
         \/ Reply(w)
  PROVE  TransactionInv'
<1>1. UNCHANGED <<tenants, lead_events, stats, newest, row_lock>>
  BY ZenonT(60) DEF DeliverWebhook, RetryFailedEvent, CommitDuplicate, StoreFailedEvent,
         RefreshFailedEvent, NoteRetryFailure, Reply, db_vars
<1>2. sessions[w].pc \notin Inserted
  BY ZenonT(60) DEF DeliverWebhook, RetryFailedEvent, CommitDuplicate, StoreFailedEvent,
         RefreshFailedEvent, NoteRetryFailure, Reply, Inserted
<1>3. \A v \in Workers : v # w => sessions'[v] = sessions[v]
  BY ZenonT(60) DEF DeliverWebhook, RetryFailedEvent, CommitDuplicate, StoreFailedEvent,
         RefreshFailedEvent, NoteRetryFailure, Reply, Answer500, TypeOK
<1>4. sessions'[w].pc \in {"idle", "insert", "failing", "noting", "reply"}
  <2>1. CASE DeliverWebhook(w)
    BY <2>1, ZenonT(60) DEF DeliverWebhook, IdleSession, TypeOK
  <2>2. CASE RetryFailedEvent(w)
    BY <2>2 DEF RetryFailedEvent, IdleSession, TypeOK
  <2>3. CASE CommitDuplicate(w)
    <3>1. \E pc \in {"reply", "failing"} : sessions'[w].pc = pc
      BY <2>3, ZenonT(60) DEF CommitDuplicate, TypeOK, Sessions
    <3> QED
      BY <3>1
  <2>4. CASE StoreFailedEvent(w) \/ NoteRetryFailure(w)
    BY <2>4 DEF StoreFailedEvent, NoteRetryFailure, Answer500, TypeOK, Sessions
  <2>5. CASE RefreshFailedEvent(w)
    BY <2>5 DEF RefreshFailedEvent, Answer500, TypeOK, Sessions
  <2>6. CASE Reply(w)
    BY <2>6 DEF Reply, IdleSession, TypeOK
  <2> QED
    BY <2>1, <2>2, <2>3, <2>4, <2>5, <2>6
<1> QED
  <2>1. sessions'[w].pc \notin Inserted
    BY <1>4 DEF Inserted
  <2> QED
    BY <1>1, <1>2, <1>3, <2>1, QuietStep

LEMMA CrashStep ==
  ASSUME TypeOK, TransactionInv, NEW p \in Processes, Crash(p)
  PROVE  TransactionInv'
<1> DEFINE dead == {w \in Workers : ProcessOf[w] = p}
<1>1. dead \in SUBSET Workers
  OBVIOUS
<1>2. /\ \A v \in Workers \ dead : sessions'[v] = sessions[v]
      /\ \A v \in dead : sessions'[v].pc \notin Inserted
  BY DEF Crash, IdleSession, Inserted
<1>3. Rollback(dead) /\ UNCHANGED <<tenants, lead_events, stats>>
  BY DEF Crash
<1> QED
  BY <1>1, <1>2, <1>3, RollbackStep

LEMMA NextTransaction == TypeOK /\ TransactionInv /\ [Next]_vars => TransactionInv'
<1> SUFFICES ASSUME TypeOK, TransactionInv, [Next]_vars PROVE TransactionInv'
  OBVIOUS
<1>1. CASE UNCHANGED vars
  BY <1>1 DEF vars, db_vars, TransactionInv, LocksFollowWrites, VersionsAddUp,
              OpenKeysAreNew, CommitsParse, Wrote, Stored
<1>2. ASSUME NEW w \in Workers, DatabaseError(w) \/ Advance(w)
      PROVE  TransactionInv'
  BY <1>2, FailStep, InsertLeadEventStep, UpsertCampaignStatsStep,
     UpsertWorkflowStatsStep, UpsertRevenueSnapshotStep, CommitStep, OutsideStep
     DEF DatabaseError, Advance
<1>3. ASSUME NEW w \in Workers, DeliverWebhook(w) \/ RetryFailedEvent(w)
      PROVE  TransactionInv'
  BY <1>3, OutsideStep
<1>4. CASE DeleteFailedEvent
  BY <1>4 DEF DeleteFailedEvent, TransactionInv, LocksFollowWrites, VersionsAddUp,
              OpenKeysAreNew, CommitsParse, Wrote, Stored
<1>5. ASSUME NEW t \in Tenants, DeleteTenant(t) PROVE TransactionInv'
  BY <1>5, DeleteTenantStep
<1>6. ASSUME NEW p \in Processes, Crash(p) PROVE TransactionInv'
  BY <1>6, CrashStep
<1> QED
  BY <1>1, <1>2, <1>3, <1>4, <1>5, <1>6 DEF Next

LEMMA InitTransaction == Init => TransactionInv
<1> SUFFICES ASSUME Init PROVE TransactionInv
  OBVIOUS
<1>1. \A w \in Workers : sessions[w].pc = "idle"
  BY DEF Init, IdleSession
<1>2. \A w \in Workers, r \in Rows : ~Wrote(w, r) /\ row_lock[r] # w
  BY <1>1, DeploymentAssumption DEF Wrote, Init
<1> QED
  BY <1>1, <1>2 DEF Init, TransactionInv, LocksFollowWrites, VersionsAddUp,
                    OpenKeysAreNew, CommitsParse, Inserted

-----------------------------------------------------------------------------
(* Exactly once.                                                           *)

(* Only a commit and the deletion of a tenant change what is committed.    *)
LEMMA CommittedChanges ==
  ASSUME [Next]_vars
  PROVE  \/ UNCHANGED <<stats, lead_events>>
         \/ \E w \in Workers : CommitEvent(w)
         \/ \E t \in Tenants : DeleteTenant(t)
<1>1. ASSUME NEW w \in Workers, Advance(w), ~CommitEvent(w)
      PROVE  UNCHANGED <<stats, lead_events>>
  BY <1>1, ZenonT(60) DEF Advance, InsertLeadEvent, UpsertCampaignStats, UpsertWorkflowStats,
              UpsertRevenueSnapshot, UpsertRow, Fail, CommitDuplicate,
              StoreFailedEvent, RefreshFailedEvent, NoteRetryFailure, Reply, db_vars
<1>2. ASSUME NEW w \in Workers, DeliverWebhook(w) \/ RetryFailedEvent(w) \/ DatabaseError(w)
      PROVE  UNCHANGED <<stats, lead_events>>
  BY <1>2 DEF DeliverWebhook, RetryFailedEvent, DatabaseError, Fail, db_vars
<1>3. CASE UNCHANGED vars \/ DeleteFailedEvent \/ \E p \in Processes : Crash(p)
  BY <1>3 DEF vars, db_vars, DeleteFailedEvent, Crash
<1> QED
  BY <1>1, <1>2, <1>3 DEF Next

LEMMA CountersMatchStep ==
  ASSUME TypeOK, TransactionInv, StatsMatchEvents, [Next]_vars
  PROVE  StatsMatchEvents'
<1>1. CASE UNCHANGED <<stats, lead_events>>
  BY <1>1 DEF StatsMatchEvents
<1>2. ASSUME NEW w \in Workers, CommitEvent(w) PROVE StatsMatchEvents'
  <2> DEFINE e == sessions[w].event
             N(r, c) == {f \in lead_events : Bumps(f, r, c)}
  <2> SUFFICES ASSUME NEW r \in Rows, NEW c \in CampaignColumns \cup WorkflowColumns
      PROVE stats'[r][c] = Cardinality({f \in lead_events' : Bumps(f, r, c)})
    BY DEF StatsMatchEvents
  <2>1. c \in Columns /\ c # "total_revenue"
    BY DEF Columns, CampaignColumns, WorkflowColumns
  <2>2. stats'[r][c] = Cardinality(N(r, c)) + Increment(e, r, c)
    BY <1>2, <2>1, CommitAdds DEF StatsMatchEvents
  <2>3. Increment(e, r, c) = IF Bumps(e, r, c) THEN 1 ELSE 0
    BY <2>1 DEF Increment, Earns
  <2>4. IsFiniteSet(N(r, c))
    <3>1. N(r, c) \subseteq Events
      BY DEF TypeOK
    <3> QED
      BY <3>1, EventsAssumption, FS_Subset
  <2>5. Cardinality(N(r, c)) \in Nat
    BY <2>4, FS_CardinalityType
  <2>6. lead_events' = lead_events \cup {e}
    BY <1>2 DEF CommitEvent
  <2>7. e \notin lead_events
    BY <1>2 DEF TransactionInv, OpenKeysAreNew, CommitEvent, Inserted, Stored
  <2>8. CASE Bumps(e, r, c)
    <3>1. {f \in lead_events' : Bumps(f, r, c)} = N(r, c) \cup {e}
      BY <2>6, <2>8
    <3>2. e \notin N(r, c)
      BY <2>7
    <3>3. Cardinality(N(r, c) \cup {e}) = Cardinality(N(r, c)) + 1
      BY <2>4, <3>2, FS_AddElement
    <3> QED
      BY <2>2, <2>3, <2>8, <3>1, <3>3
  <2>9. CASE ~Bumps(e, r, c)
    <3>1. {f \in lead_events' : Bumps(f, r, c)} = N(r, c)
      BY <2>6, <2>9
    <3> QED
      BY <2>2, <2>3, <2>5, <2>9, <3>1
  <2> QED
    BY <2>8, <2>9
<1>3. ASSUME NEW t \in Tenants, DeleteTenant(t) PROVE StatsMatchEvents'
  <2> SUFFICES ASSUME NEW r \in Rows, NEW c \in CampaignColumns \cup WorkflowColumns
      PROVE stats'[r][c] = Cardinality({f \in lead_events' : Bumps(f, r, c)})
    BY DEF StatsMatchEvents
  <2>1. \A f : Bumps(f, r, c) => r[2] = f.tenant_id
    BY RowFacts DEF Bumps
  <2>2. lead_events' = {f \in lead_events : f.tenant_id # t}
    BY <1>3 DEF DeleteTenant
  <2>3. CASE r[2] = t
    <3>1. {f \in lead_events' : Bumps(f, r, c)} = {}
      BY <2>1, <2>2, <2>3
    <3>2. stats'[r][c] = 0
      BY <1>3, <2>3 DEF DeleteTenant, Empty, Columns
    <3> QED
      BY <3>1, <3>2, FS_EmptySet
  <2>4. CASE r[2] # t
    <3>1. {f \in lead_events' : Bumps(f, r, c)} = {f \in lead_events : Bumps(f, r, c)}
      BY <2>1, <2>2, <2>4
    <3>2. stats'[r] = stats[r]
      BY <1>3, <2>4, Zenon DEF DeleteTenant
    <3> QED
      BY <3>1, <3>2 DEF StatsMatchEvents
  <2> QED
    BY <2>3, <2>4
<1> QED
  BY <1>1, <1>2, <1>3, CommittedChanges

(* Every counter equals the number of stored events it counts, for any     *)
(* number of workers, processes, requests and crashes: _upsert_*_stats and *)
(* the INSERT ON CONFLICT DO NOTHING add up to exactly-once counting.      *)
THEOREM CountersMatchEvents == Spec => []StatsMatchEvents
<1> DEFINE IInv == TypeOK /\ TransactionInv /\ StatsMatchEvents
<1>1. Init => IInv
  <2> SUFFICES ASSUME Init PROVE StatsMatchEvents
    BY InitType, InitTransaction
  <2>1. \A r, c : {e \in lead_events : Bumps(e, r, c)} = {}
    BY DEF Init
  <2> QED
    BY <2>1, FS_EmptySet DEF Init, StatsMatchEvents, Empty, Columns
<1>2. IInv /\ [Next]_vars => IInv'
  BY NextType, NextTransaction, CountersMatchStep
<1>3. IInv => StatsMatchEvents
  OBVIOUS
<1> QED
  BY <1>1, <1>2, <1>3, PTL DEF Spec

LEMMA UniqueStep ==
  ASSUME TypeOK, TransactionInv, EventsUnique, [Next]_vars
  PROVE  EventsUnique'
<1>1. CASE lead_events' \subseteq lead_events
  BY <1>1 DEF EventsUnique
<1>2. ASSUME NEW w \in Workers, CommitEvent(w) PROVE EventsUnique'
  <2>1. lead_events' = lead_events \cup {sessions[w].event}
    BY <1>2 DEF CommitEvent
  <2>2. ~Stored(Key(sessions[w].event))
    <3>1. sessions[w].pc \in Inserted
      BY <1>2 DEF CommitEvent, Inserted
    <3> QED
      BY <3>1 DEF TransactionInv, OpenKeysAreNew
  <2> QED
    BY <2>1, <2>2 DEF EventsUnique, Stored
<1>3. ASSUME NEW w \in Workers, Advance(w), ~CommitEvent(w)
      PROVE  UNCHANGED lead_events
  BY <1>3, ZenonT(60) DEF Advance, InsertLeadEvent, UpsertCampaignStats, UpsertWorkflowStats,
              UpsertRevenueSnapshot, UpsertRow, Fail, CommitDuplicate,
              StoreFailedEvent, RefreshFailedEvent, NoteRetryFailure, Reply, db_vars
<1>4. ASSUME NEW w \in Workers, DeliverWebhook(w) \/ RetryFailedEvent(w) \/ DatabaseError(w)
      PROVE  UNCHANGED lead_events
  BY <1>4 DEF DeliverWebhook, RetryFailedEvent, DatabaseError, Fail, db_vars
<1>5. ASSUME UNCHANGED vars \/ DeleteFailedEvent \/ (\E p \in Processes : Crash(p))
               \/ \E t \in Tenants : DeleteTenant(t)
      PROVE  lead_events' \subseteq lead_events
  BY <1>5 DEF vars, db_vars, DeleteFailedEvent, Crash, DeleteTenant
<1>6. ASSUME NEW w \in Workers, Advance(w) PROVE EventsUnique'
  BY <1>1, <1>2, <1>3, <1>6
<1> QED
  BY <1>1, <1>4, <1>5, <1>6 DEF Next

(* A tenant never has two stored events with one event_id.                 *)
THEOREM EventsStayUnique == Spec => []EventsUnique
<1> DEFINE IInv == TypeOK /\ TransactionInv /\ EventsUnique
<1>1. Init => IInv
  BY InitType, InitTransaction DEF Init, EventsUnique
<1>2. IInv /\ [Next]_vars => IInv'
  BY NextType, NextTransaction, UniqueStep
<1>3. IInv => EventsUnique
  OBVIOUS
<1> QED
  BY <1>1, <1>2, <1>3, PTL DEF Spec

-----------------------------------------------------------------------------
(* Revenue.                                                                *)

(* A set with as many elements for each member of S as its measure n says. *)
Units(S, n) == UNION {{x} \X (1..n[x]) : x \in S}

LEMMA UnitsFinite ==
  ASSUME NEW S, IsFiniteSet(S), NEW n \in [S -> Int]
  PROVE  IsFiniteSet(Units(S, n))
<1> DEFINE Of(x) == {x} \X (1..n[x])
           All == {Of(x) : x \in S}
<1>1. IsFiniteSet(All)
  <2> DEFINE g == [x \in S |-> Of(x)]
  <2>1. g \in Surjection(S, All)
    BY DEF Surjection
  <2> QED
    BY <2>1, FS_Surjection
<1>2. \A x \in S : IsFiniteSet(Of(x))
  <2> TAKE x \in S
  <2>1. IsFiniteSet({x})
    BY FS_Singleton
  <2>2. IsFiniteSet(1..n[x])
    BY FS_Interval
  <2> QED
    BY <2>1, <2>2, FS_Product
<1>3. \A T \in All : IsFiniteSet(T)
  BY <1>2
<1>4. IsFiniteSet(UNION All)
  BY <1>1, <1>3, FS_UNION, Zenon
<1> QED
  BY <1>4 DEF Units

(* One more member brings as many elements as its measure.                 *)
LEMMA UnitsOfOneMore ==
  ASSUME NEW S, IsFiniteSet(S), NEW e, e \notin S, NEW n \in [S \cup {e} -> Int]
  PROVE  /\ IsFiniteSet(Units(S, n))
         /\ Cardinality(Units(S \cup {e}, n)) =
              Cardinality(Units(S, n)) + IF n[e] > 0 THEN n[e] ELSE 0
<1> DEFINE m == [x \in S |-> n[x]]
           New == {e} \X (1..n[e])
<1>1. m \in [S -> Int] /\ Units(S, m) = Units(S, n)
  BY DEF Units
<1>2. IsFiniteSet(Units(S, n))
  BY <1>1, UnitsFinite
<1>3. IsFiniteSet(New) /\ Cardinality(New) = IF n[e] > 0 THEN n[e] ELSE 0
  <2>1. IsFiniteSet({e}) /\ Cardinality({e}) = 1
    BY FS_Singleton
  <2>2. /\ IsFiniteSet(1..n[e])
        /\ Cardinality(1..n[e]) = IF n[e] > 0 THEN n[e] ELSE 0
    BY FS_Interval
  <2>3. IsFiniteSet(New) /\ Cardinality(New) = Cardinality({e}) * Cardinality(1..n[e])
    BY <2>1, <2>2, FS_Product
  <2> QED
    BY <2>1, <2>2, <2>3
<1>4. Units(S \cup {e}, n) = Units(S, n) \cup New
  BY DEF Units
<1>5. Units(S, n) \cap New = {}
  BY DEF Units
<1>6. Cardinality(Units(S, n) \cap New) = 0
  BY <1>5, FS_EmptySet
<1> HIDE DEF New
<1>7. Cardinality(Units(S, n) \cup New)
        = Cardinality(Units(S, n)) + Cardinality(New) - 0
  BY <1>2, <1>3, <1>6, FS_Union
<1>8. Cardinality(Units(S, n)) \in Nat /\ Cardinality(New) \in Nat
  BY <1>2, <1>3, FS_CardinalityType
<1>9. Cardinality(Units(S, n)) + Cardinality(New) - 0
        = Cardinality(Units(S, n)) + Cardinality(New)
  BY <1>8
<1> QED
  BY <1>2, <1>3, <1>4, <1>7, <1>9, Zenon

(* One more event adds what it earns to the revenue of a row.              *)
LEMMA RevenueOfOneMore ==
  ASSUME NEW E \in SUBSET Events, NEW e \in Events, e \notin E, NEW r
  PROVE  /\ Revenue(E, r) \in Int
         /\ Revenue(E \cup {e}, r) = Revenue(E, r) + Increment(e, r, "total_revenue")
<1> DEFINE earns(f) == Earns(f, r, "total_revenue")
           S == {f \in E : earns(f)}
           T == {f \in E \cup {e} : earns(f)}
           up == [f \in T |-> f.amount]
           down == [f \in T |-> -f.amount]
<1>1. IsFiniteSet(S)
  <2>1. S \in SUBSET Events
    OBVIOUS
  <2> QED
    BY <2>1, EventsAssumption, FS_Subset
<1>2. \A f \in T : f.amount \in Int
  BY EventsAssumption DEF Earns, CarriesRevenue, EventFields
<1>3. up \in [T -> Int] /\ down \in [T -> Int]
  BY <1>2
<1>4. Credits(E, r) = Units(S, up) /\ Refunds(E, r) = Units(S, down)
  BY DEF Credits, Refunds, Units
<1>5. Credits(E \cup {e}, r) = Units(T, up) /\ Refunds(E \cup {e}, r) = Units(T, down)
  BY DEF Credits, Refunds, Units
<1>6. ~Bumps(e, r, "total_revenue")
  BY DEF Bumps, CampaignColumns, WorkflowColumns
<1>7. CASE earns(e)
  <2>1. T = S \cup {e} /\ e \notin S
    BY <1>7
  <2>2. up[e] = e.amount /\ down[e] = -e.amount /\ e.amount \in Int
    BY <1>2, <2>1
  <2>3. Increment(e, r, "total_revenue") = e.amount
    BY <1>6, <1>7 DEF Increment
  <2> HIDE DEF S, T, up, down
  <2>4. /\ IsFiniteSet(Units(S, up))
        /\ Cardinality(Units(T, up)) =
             Cardinality(Units(S, up)) + IF up[e] > 0 THEN up[e] ELSE 0
    BY <1>1, <1>3, <2>1, UnitsOfOneMore
  <2>5. /\ IsFiniteSet(Units(S, down))
        /\ Cardinality(Units(T, down)) =
             Cardinality(Units(S, down)) + IF down[e] > 0 THEN down[e] ELSE 0
    BY <1>1, <1>3, <2>1, UnitsOfOneMore
  <2>6. Cardinality(Units(S, up)) \in Nat /\ Cardinality(Units(S, down)) \in Nat
    BY <2>4, <2>5, FS_CardinalityType
  <2> QED
    BY <1>4, <1>5, <2>2, <2>3, <2>4, <2>5, <2>6 DEF Revenue
<1>8. CASE ~earns(e)
  <2>1. T = S
    BY <1>8
  <2>2. Increment(e, r, "total_revenue") = 0
    BY <1>6, <1>8 DEF Increment
  <2> HIDE DEF S, T, up, down
  <2>3. IsFiniteSet(Units(S, up)) /\ IsFiniteSet(Units(S, down))
    BY <1>1, <1>3, <2>1, UnitsFinite
  <2>4. Cardinality(Units(S, up)) \in Nat /\ Cardinality(Units(S, down)) \in Nat
    BY <2>3, FS_CardinalityType
  <2> QED
    BY <1>4, <1>5, <2>1, <2>2, <2>4 DEF Revenue
<1> QED
  BY <1>7, <1>8

(* Events that earn nothing on a row make no difference to its revenue.    *)
LEMMA RevenueOfSame ==
  ASSUME NEW D, NEW E, NEW r,
         {e \in D : Earns(e, r, "total_revenue")} = {e \in E : Earns(e, r, "total_revenue")}
  PROVE  Revenue(D, r) = Revenue(E, r)
BY DEF Revenue, Credits, Refunds

LEMMA RevenueOfNone ==
  ASSUME NEW E, NEW r, \A e \in E : ~Earns(e, r, "total_revenue")
  PROVE  Revenue(E, r) = 0
<1>1. Credits(E, r) = {} /\ Refunds(E, r) = {}
  BY DEF Credits, Refunds
<1> QED
  BY <1>1, FS_EmptySet DEF Revenue

LEMMA RevenueMatchesStep ==
  ASSUME TypeOK, TransactionInv, RevenueMatchesEvents, [Next]_vars
  PROVE  RevenueMatchesEvents'
<1> USE DEF RevenueMatchesEvents
<1>1. CASE UNCHANGED <<stats, lead_events>>
  BY <1>1 DEF Revenue, Credits, Refunds
<1>2. ASSUME NEW w \in Workers, CommitEvent(w) PROVE RevenueMatchesEvents'
  <2> DEFINE e == sessions[w].event
  <2>1. "total_revenue" \in Columns /\ e \in Events /\ lead_events \in SUBSET Events
    BY DEF Columns, TypeOK, Sessions
  <2>2. lead_events' = lead_events \cup {e}
    BY <1>2 DEF CommitEvent
  <2>3. e \notin lead_events
    BY <1>2 DEF TransactionInv, OpenKeysAreNew, CommitEvent, Inserted, Stored
  <2>4. \A r \in Rows : stats'[r]["total_revenue"] =
          stats[r]["total_revenue"] + Increment(e, r, "total_revenue")
    BY <1>2, <2>1, CommitAdds
  <2>5. \A r \in Rows : Revenue(lead_events \cup {e}, r) =
          Revenue(lead_events, r) + Increment(e, r, "total_revenue")
    BY <2>1, <2>3, RevenueOfOneMore
  <2> HIDE DEF e
  <2>6. \A r \in Rows : stats'[r]["total_revenue"] = Revenue(lead_events \cup {e}, r)
    BY <2>4, <2>5
  <2> QED
    BY <2>2, <2>6
<1>3. ASSUME NEW t \in Tenants, DeleteTenant(t) PROVE RevenueMatchesEvents'
  <2> SUFFICES ASSUME NEW r \in Rows
               PROVE  stats'[r]["total_revenue"] = Revenue(lead_events', r)
    OBVIOUS
  <2>1. \A f : Earns(f, r, "total_revenue") => r[2] = f.tenant_id
    BY RowFacts DEF Earns
  <2>2. lead_events' = {f \in lead_events : f.tenant_id # t}
    BY <1>3 DEF DeleteTenant
  <2>3. CASE r[2] = t
    <3>1. Revenue(lead_events', r) = 0
      BY <2>1, <2>2, <2>3, RevenueOfNone
    <3>2. stats'[r]["total_revenue"] = 0
      BY <1>3, <2>3 DEF DeleteTenant, Empty, Columns
    <3> QED
      BY <3>1, <3>2
  <2>4. CASE r[2] # t
    <3>1. {f \in lead_events' : Earns(f, r, "total_revenue")}
            = {f \in lead_events : Earns(f, r, "total_revenue")}
      BY <2>1, <2>2, <2>4
    <3>2. Revenue(lead_events', r) = Revenue(lead_events, r)
      BY <3>1, RevenueOfSame
    <3>3. stats'[r] = stats[r]
      BY <1>3, <2>4, Zenon DEF DeleteTenant
    <3> QED
      BY <3>2, <3>3
  <2> QED
    BY <2>3, <2>4
<1> QED
  BY <1>1, <1>2, <1>3, CommittedChanges

(* The revenue of every tenant and currency is the sum of the amounts of   *)
(* its stored events, for any deployment and any bounds: the upsert of     *)
(* _upsert_revenue_snapshot adds each amount exactly once, negative ones   *)
(* too, and nothing for an amount that did not parse.                      *)
THEOREM RevenueAddsUp == Spec => []RevenueMatchesEvents
<1> DEFINE IInv == TypeOK /\ TransactionInv /\ RevenueMatchesEvents
<1>1. Init => IInv
  <2> SUFFICES ASSUME Init PROVE RevenueMatchesEvents
    BY InitType, InitTransaction
  <2>1. \A r : Revenue(lead_events, r) = 0
    BY RevenueOfNone DEF Init
  <2> QED
    BY <2>1 DEF Init, RevenueMatchesEvents, Empty, Columns
<1>2. IInv /\ [Next]_vars => IInv'
  BY NextType, NextTransaction, RevenueMatchesStep
<1>3. IInv => RevenueMatchesEvents
  OBVIOUS
<1> QED
  BY <1>1, <1>2, <1>3, PTL DEF Spec

-----------------------------------------------------------------------------
(* What clients are told.                                                  *)

(* A tenant that is gone stays gone.                                       *)
LEMMA TenantsShrink ==
  ASSUME [Next]_vars
  PROVE  tenants' \subseteq tenants
BY ZenonT(60) DEF Next, vars, db_vars, DeliverWebhook, RetryFailedEvent, DatabaseError, Fail,
       Advance, InsertLeadEvent, UpsertCampaignStats, UpsertWorkflowStats,
       UpsertRevenueSnapshot, UpsertRow, CommitEvent, CommitDuplicate,
       StoreFailedEvent, RefreshFailedEvent, NoteRetryFailure, Reply,
       DeleteFailedEvent, DeleteTenant, Crash

(* An event stays stored for as long as its tenant exists.                 *)
LEMMA StoredStays ==
  ASSUME [Next]_vars, NEW k, Stored(k), k[1] \in tenants'
  PROVE  k[1] \in tenants /\ \E e \in lead_events' : Key(e) = k
<1>1. PICK e \in lead_events : Key(e) = k
  BY DEF Stored
<1>2. k[1] = e.tenant_id
  BY <1>1, RowFacts
<1>3. ASSUME NEW w \in Workers,
             DeliverWebhook(w) \/ RetryFailedEvent(w) \/ DatabaseError(w) \/ Advance(w)
      PROVE  lead_events \subseteq lead_events' /\ tenants' = tenants
  BY <1>3 DEF DeliverWebhook, RetryFailedEvent, DatabaseError, Fail, Advance,
              InsertLeadEvent, UpsertCampaignStats, UpsertWorkflowStats,
              UpsertRevenueSnapshot, UpsertRow, CommitEvent, CommitDuplicate,
              StoreFailedEvent, RefreshFailedEvent, NoteRetryFailure, Reply, db_vars
<1>4. ASSUME NEW t \in Tenants, DeleteTenant(t)
      PROVE  e \in lead_events' /\ tenants' \subseteq tenants
  BY <1>2, <1>4 DEF DeleteTenant
<1>5. ASSUME UNCHANGED vars \/ DeleteFailedEvent \/ \E p \in Processes : Crash(p)
      PROVE  lead_events \subseteq lead_events' /\ tenants' = tenants
  BY <1>5 DEF vars, db_vars, DeleteFailedEvent, Crash
<1> QED
  BY <1>1, <1>3, <1>4, <1>5 DEF Next

(* A session that promises its client that the event is stored.            *)
Promises(s) ==
  \/ s.pc = "duplicate"
  \/ s.pc = "reply" /\ s.outcome \in {"ingested", "duplicate"}

LEMMA PromiseStep ==
  ASSUME TypeOK, [Next]_vars, NEW w \in Workers, Promises(sessions'[w])
  PROVE  \/ Promises(sessions[w]) /\ sessions'[w].event = sessions[w].event
         \/ \E e \in lead_events' : Key(e) = Key(sessions'[w].event)
<1> USE DEF Promises
<1>a. sessions[w] \in Sessions
  BY DEF TypeOK
<1>1. CASE sessions'[w] = sessions[w]
  BY <1>1
<1>2. ASSUME NEW v \in Workers, v # w,
             DeliverWebhook(v) \/ RetryFailedEvent(v) \/ DatabaseError(v) \/ Advance(v)
      PROVE  sessions'[w] = sessions[w]
  BY <1>2 DEF DeliverWebhook, RetryFailedEvent, DatabaseError, Fail, Advance, Goto,
              InsertLeadEvent, UpsertCampaignStats, UpsertWorkflowStats,
              UpsertRevenueSnapshot, CommitEvent, CommitDuplicate, Answer500,
              StoreFailedEvent, RefreshFailedEvent, NoteRetryFailure, Reply, TypeOK
<1>3. CASE DeliverWebhook(w)
  BY <1>3 DEF DeliverWebhook, IdleSession, TypeOK
<1>4. CASE RetryFailedEvent(w)
  BY <1>4 DEF RetryFailedEvent, IdleSession, TypeOK
<1>5. ASSUME NEW error, Fail(w, error) PROVE FALSE
  BY <1>5 DEF Fail, TypeOK, Sessions
<1>6. ASSUME NEW pc \in Inserted, Goto(w, pc) PROVE FALSE
  BY <1>6 DEF Goto, TypeOK, Sessions, Inserted
<1>7. CASE InsertLeadEvent(w)
  <2>1. CASE Stored(Key(sessions[w].event))
    <3>1. \/ Fail(w, "database")
          \/ /\ sessions'[w] = [sessions[w] EXCEPT !.pc = "duplicate"]
             /\ lead_events' = lead_events
      BY <1>7, <2>1 DEF InsertLeadEvent, Goto, TypeOK, db_vars
    <3>2. sessions'[w].event = sessions[w].event /\ lead_events' = lead_events
      BY <1>5, <1>a, <3>1 DEF Sessions
    <3> QED
      BY <2>1, <3>2 DEF Stored
  <2>2. CASE ~Stored(Key(sessions[w].event))
    BY <1>5, <1>6, <1>7, <2>2 DEF InsertLeadEvent, Inserted
  <2> QED
    BY <2>1, <2>2
<1>8. CASE UpsertCampaignStats(w) \/ UpsertWorkflowStats(w) \/ UpsertRevenueSnapshot(w)
  BY <1>5, <1>6, <1>8
     DEF UpsertCampaignStats, UpsertWorkflowStats, UpsertRevenueSnapshot, Inserted
<1>9. CASE CommitEvent(w)
  <2>1. /\ \/ sessions'[w] = [sessions[w] EXCEPT !.pc = "reply", !.outcome = "ingested"]
           \/ sessions'[w] = [sessions[w] EXCEPT !.pc = "failing", !.error = "database"]
        /\ sessions[w].event \in lead_events'
    BY <1>9 DEF CommitEvent, TypeOK
  <2>2. sessions'[w].event = sessions[w].event
    BY <1>a, <2>1 DEF Sessions
  <2> QED
    BY <2>1, <2>2
<1>10. CASE CommitDuplicate(w)
  <2>1. /\ \/ sessions'[w] = [sessions[w] EXCEPT !.pc = "reply", !.outcome = "duplicate"]
           \/ sessions'[w] = [sessions[w] EXCEPT !.pc = "failing", !.error = "database"]
        /\ sessions[w].pc = "duplicate"
    BY <1>10 DEF CommitDuplicate, TypeOK
  <2>2. sessions'[w].event = sessions[w].event
    BY <1>a, <2>1 DEF Sessions
  <2> QED
    BY <2>1, <2>2
<1>11. CASE Answer500(w)
  <2>1. sessions'[w] = [sessions[w] EXCEPT !.pc = "reply", !.outcome = "failed"]
    BY <1>11 DEF Answer500, TypeOK
  <2>2. sessions'[w].pc = "reply" /\ sessions'[w].outcome = "failed"
    BY <1>a, <2>1 DEF Sessions
  <2> QED
    BY <2>2
<1>12. CASE StoreFailedEvent(w) \/ NoteRetryFailure(w)
  BY <1>11, <1>12 DEF StoreFailedEvent, NoteRetryFailure
<1>13. CASE RefreshFailedEvent(w)
  BY <1>11, <1>13, ZenonT(60) DEF RefreshFailedEvent, TypeOK, Sessions
<1>14. CASE Reply(w)
  BY <1>14 DEF Reply, IdleSession, TypeOK
<1>15. CASE DatabaseError(w)
  BY <1>5, <1>15 DEF DatabaseError
<1>16. CASE Advance(w)
  BY <1>7, <1>8, <1>9, <1>10, <1>12, <1>13, <1>14, <1>16 DEF Advance
<1>17. ASSUME NEW p \in Processes, Crash(p)
       PROVE  sessions'[w] = sessions[w]
  BY <1>17 DEF Crash, IdleSession
<1>18. CASE UNCHANGED vars \/ DeleteFailedEvent \/ \E t \in Tenants : DeleteTenant(t)
  BY <1>1, <1>18 DEF vars, DeleteFailedEvent, DeleteTenant
<1> QED
  BY <1>1, <1>2, <1>3, <1>4, <1>15, <1>16, <1>17, <1>18 DEF Next

LEMMA TruthStep ==
  ASSUME TypeOK, OutcomesAreTrue, AckedIsStored, [Next]_vars
  PROVE  OutcomesAreTrue' /\ AckedIsStored'
<1>1. OutcomesAreTrue'
  <2> SUFFICES ASSUME NEW w \in Workers, Promises(sessions'[w]),
                      Key(sessions'[w].event)[1] \in tenants'
      PROVE \E e \in lead_events' : Key(e) = Key(sessions'[w].event)
    BY DEF OutcomesAreTrue, Promises, Stored
  <2>1. CASE Promises(sessions[w]) /\ sessions'[w].event = sessions[w].event
    <3> DEFINE k == Key(sessions[w].event)
    <3>1. k[1] \in tenants => Stored(k)
      BY <2>1 DEF OutcomesAreTrue, Promises
    <3>2. tenants' \subseteq tenants
      BY TenantsShrink
    <3> QED
      BY <2>1, <3>1, <3>2, StoredStays
  <2> QED
    BY <2>1, PromiseStep
<1>2. AckedIsStored'
  <2> SUFFICES ASSUME NEW k \in acked', k[1] \in tenants'
      PROVE \E e \in lead_events' : Key(e) = k
    BY DEF AckedIsStored, Stored
  <2>1. CASE k \in acked
    <3>1. tenants' \subseteq tenants
      BY TenantsShrink
    <3> QED
      BY <2>1, <3>1, StoredStays DEF AckedIsStored
  <2>2. ASSUME NEW w \in Workers, Reply(w), k \notin acked
        PROVE  \E e \in lead_events' : Key(e) = k
    <3>1. /\ k = Key(sessions[w].event)
          /\ sessions[w].pc = "reply"
          /\ sessions[w].outcome \in {"ingested", "duplicate"}
          /\ lead_events' = lead_events /\ tenants' = tenants
      BY <2>2, ZenonT(60) DEF Reply, db_vars
    <3> QED
      BY <3>1 DEF OutcomesAreTrue, Stored
  <2>3. ASSUME k \notin acked PROVE \E w \in Workers : Reply(w)
    BY <2>3 DEF Next, vars, db_vars, DeliverWebhook, RetryFailedEvent, DatabaseError,
             Advance, InsertLeadEvent, UpsertCampaignStats, UpsertWorkflowStats,
             UpsertRevenueSnapshot, CommitEvent, CommitDuplicate,
             StoreFailedEvent, RefreshFailedEvent, NoteRetryFailure,
             DeleteFailedEvent, DeleteTenant, Crash
  <2> QED
    BY <2>1, <2>2, <2>3
<1> QED
  BY <1>1, <1>2

(* Whoever was told "ingested" or "duplicate" finds the event stored.      *)
THEOREM AnswersAreTrue == Spec => []AckedIsStored
<1> DEFINE IInv == TypeOK /\ OutcomesAreTrue /\ AckedIsStored
<1>1. Init => IInv
  <2> SUFFICES ASSUME Init PROVE OutcomesAreTrue /\ AckedIsStored
    BY InitType
  <2>1. \A w \in Workers : sessions[w].pc = "idle"
    BY DEF Init, IdleSession
  <2> QED
    BY <2>1 DEF Init, OutcomesAreTrue, AckedIsStored
<1>2. IInv /\ [Next]_vars => IInv'
  BY NextType, TruthStep
<1>3. IInv => AckedIsStored
  OBVIOUS
<1> QED
  BY <1>1, <1>2, <1>3, PTL DEF Spec

-----------------------------------------------------------------------------
(* The dead-letter queue.                                                  *)

(* What a retry's session knows of its row.                                *)
Tracks(s, rows, bound) ==
  s.via = "retry" =>
    /\ s.fe_id < bound
    /\ \A fe \in rows : fe.id = s.fe_id => Key(fe.event) = Key(s.event)

(* A worker's steps after the first keep to its event and row, or end.     *)
LEMMA SessionStep ==
  ASSUME TypeOK, NEW w \in Workers, Advance(w) \/ DatabaseError(w)
  PROVE  /\ \A v \in Workers : v # w => sessions'[v] = sessions[v]
         /\ \/ sessions'[w].via = "signed"
            \/ /\ sessions'[w].via = sessions[w].via
               /\ sessions'[w].fe_id = sessions[w].fe_id
               /\ sessions'[w].event = sessions[w].event
<1>1. CASE InsertLeadEvent(w) \/ DatabaseError(w)
  <2>1. \/ \E pc : Goto(w, pc)
        \/ Fail(w, "database")
    BY <1>1 DEF InsertLeadEvent, DatabaseError
  <2>2. CASE \E pc : Goto(w, pc)
    BY <2>2, ZenonT(60) DEF Goto, TypeOK, Sessions
  <2>3. CASE Fail(w, "database")
    BY <2>3 DEF Fail, TypeOK, Sessions
  <2> QED
    BY <2>1, <2>2, <2>3
<1>2. CASE UpsertCampaignStats(w) \/ UpsertWorkflowStats(w) \/ UpsertRevenueSnapshot(w)
  <2>1. \/ \E pc : Goto(w, pc)
        \/ \E error : Fail(w, error)
    BY <1>2 DEF UpsertCampaignStats, UpsertWorkflowStats, UpsertRevenueSnapshot
  <2>2. CASE \E pc : Goto(w, pc)
    BY <2>2, ZenonT(60) DEF Goto, TypeOK, Sessions
  <2>3. CASE \E error : Fail(w, error)
    BY <2>3, ZenonT(60) DEF Fail, TypeOK, Sessions
  <2> QED
    BY <2>1, <2>2, <2>3
<1>3. CASE CommitEvent(w) \/ CommitDuplicate(w)
  <2>1. \A v \in Workers : v # w => sessions'[v] = sessions[v]
    BY <1>3 DEF CommitEvent, CommitDuplicate, TypeOK
  <2>2. \/ sessions'[w] = [sessions[w] EXCEPT !.pc = "reply", !.outcome = "ingested"]
        \/ sessions'[w] = [sessions[w] EXCEPT !.pc = "reply", !.outcome = "duplicate"]
        \/ sessions'[w] = [sessions[w] EXCEPT !.pc = "failing", !.error = "database"]
    <3>1. CASE CommitEvent(w)
      BY <3>1 DEF CommitEvent, TypeOK
    <3>2. CASE CommitDuplicate(w)
      BY <3>2 DEF CommitDuplicate, TypeOK
    <3> QED
      BY <1>3, <3>1, <3>2
  <2>3. sessions[w] \in Sessions
    BY DEF TypeOK
  <2>4. /\ sessions'[w].via = sessions[w].via
        /\ sessions'[w].fe_id = sessions[w].fe_id
        /\ sessions'[w].event = sessions[w].event
    BY <2>2, <2>3, ZenonT(60) DEF Sessions
  <2> QED
    BY <2>1, <2>4
<1>4. CASE StoreFailedEvent(w) \/ RefreshFailedEvent(w) \/ NoteRetryFailure(w)
  BY <1>4, ZenonT(60) DEF StoreFailedEvent, RefreshFailedEvent, NoteRetryFailure, Answer500,
              TypeOK, Sessions
<1>5. CASE Reply(w)
  BY <1>5 DEF Reply, IdleSession, TypeOK
<1> QED
  BY <1>1, <1>2, <1>3, <1>4, <1>5 DEF Advance

(* The rows of the queue, as sets of ids with their events, only shrink,   *)
(* except for the row that StoreFailedEvent adds.                          *)
LEMMA QueueStep ==
  ASSUME TypeOK, QueueInv, NEW w \in Workers, Advance(w) \/ DatabaseError(w),
         ~StoreFailedEvent(w)
  PROVE  /\ tenants' = tenants /\ next_id' = next_id
         /\ \A fe \in failed_events' : \E old \in failed_events :
              old.id = fe.id /\ old.event = fe.event
         /\ \A fe, ge \in failed_events' : fe.id = ge.id => fe = ge
<1>1. CASE NoteRetryFailure(w)
  <2> DEFINE after(fe) == IF fe.id = sessions[w].fe_id
               THEN [fe EXCEPT !.retry_count = sessions[w].count + 1] ELSE fe
  <2>1. \A fe \in failed_events : after(fe).id = fe.id /\ after(fe).event = fe.event
    BY DEF TypeOK, FailedEvents
  <2>2. failed_events' = {after(fe) : fe \in failed_events} \/ UNCHANGED failed_events
    BY <1>1 DEF NoteRetryFailure
  <2>3. \A fe, ge \in failed_events : fe.id = ge.id => fe = ge
    BY DEF QueueInv
  <2> HIDE DEF after
  <2> QED
    BY <1>1, <2>1, <2>2, <2>3 DEF NoteRetryFailure
<1>2. CASE ~NoteRetryFailure(w)
  <2>1. tenants' = tenants /\ next_id' = next_id /\ failed_events' \subseteq failed_events
    BY <1>2 DEF Advance, DatabaseError, InsertLeadEvent, UpsertCampaignStats,
                UpsertWorkflowStats, UpsertRevenueSnapshot, UpsertRow, Fail,
                CommitEvent, CommitDuplicate, RemoveRetried, RefreshFailedEvent,
                Reply, db_vars
  <2> QED
    BY <2>1 DEF QueueInv
<1> QED
  BY <1>1, <1>2

LEMMA QueueInvStep == TypeOK /\ QueueInv /\ [Next]_vars => QueueInv'
<1> SUFFICES ASSUME TypeOK, QueueInv, [Next]_vars PROVE QueueInv'
  OBVIOUS
<1> DEFINE Rest == /\ \A fe \in failed_events' :
                        fe.id < next_id' /\ fe.event.tenant_id \in tenants'
                   /\ \A fe, ge \in failed_events' : fe.id = ge.id => fe = ge
<1>0. ASSUME Rest, \A w \in Workers : Tracks(sessions'[w], failed_events', next_id')
      PROVE  QueueInv'
  BY <1>0 DEF QueueInv, Tracks
<1>tracked.
  /\ \A w \in Workers : Tracks(sessions[w], failed_events, next_id)
  /\ next_id \in Nat
  /\ \A w \in Workers : sessions[w].fe_id \in Nat
  BY DEF QueueInv, Tracks, TypeOK, Sessions, FailedEvents
<1>1. ASSUME NEW w \in Workers, Advance(w) \/ DatabaseError(w), ~StoreFailedEvent(w)
      PROVE  QueueInv'
  <2>1. Rest
    BY <1>1, QueueStep DEF QueueInv
  <2>2. \A v \in Workers : Tracks(sessions'[v], failed_events', next_id')
    BY <1>1, <1>tracked, QueueStep, SessionStep DEF Tracks
  <2> QED
    BY <1>0, <2>1, <2>2
<1>2. ASSUME NEW w \in Workers, StoreFailedEvent(w) PROVE QueueInv'
  <2> DEFINE new == [id |-> next_id, event |-> sessions[w].event, retry_count |-> 0]
  <2>1. CASE UNCHANGED <<failed_events, next_id>>
    BY <1>0, <1>2, <1>tracked, <2>1, SessionStep DEF QueueInv, StoreFailedEvent, Tracks, Advance
  <2>2. CASE /\ sessions[w].event.tenant_id \in tenants
             /\ failed_events' = failed_events \cup {new} /\ next_id' = next_id + 1
    <3>1. \A fe \in failed_events : fe.id \in Nat /\ fe.id < next_id
      BY DEF QueueInv, TypeOK, FailedEvents
    <3>2. Rest
      <4>1. new.id = next_id /\ new.event = sessions[w].event
        OBVIOUS
      <4>2. \A fe \in failed_events : fe.id < next_id + 1 /\ fe.id # next_id
        BY <1>tracked, <3>1
      <4>3. next_id < next_id + 1
        BY <1>tracked
      <4>4. tenants' = tenants
        BY <1>2 DEF StoreFailedEvent
      <4> HIDE DEF new
      <4> QED
        BY <2>2, <4>1, <4>2, <4>3, <4>4 DEF QueueInv
    <3>3. \A v \in Workers : Tracks(sessions'[v], failed_events', next_id')
      <4>1. /\ \A v \in Workers : v # w => sessions'[v] = sessions[v]
            /\ sessions'[w].via = sessions[w].via
            /\ sessions'[w].fe_id = sessions[w].fe_id
            /\ sessions'[w].event = sessions[w].event
        BY <1>2, ZenonT(60) DEF StoreFailedEvent, Answer500, TypeOK, Sessions
      <4>2. \A v \in Workers : Tracks(sessions[v], failed_events', next_id')
        <5> SUFFICES ASSUME NEW v \in Workers, sessions[v].via = "retry"
            PROVE /\ sessions[v].fe_id < next_id'
                  /\ \A fe \in failed_events' :
                       fe.id = sessions[v].fe_id => Key(fe.event) = Key(sessions[v].event)
          BY DEF Tracks
        <5>1. /\ sessions[v].fe_id < next_id
              /\ \A fe \in failed_events :
                   fe.id = sessions[v].fe_id => Key(fe.event) = Key(sessions[v].event)
          BY <1>tracked DEF Tracks
        <5>2. sessions[v].fe_id # next_id /\ sessions[v].fe_id < next_id + 1
          <6>1. sessions[v].fe_id \in Nat /\ next_id \in Nat
            BY <1>tracked
          <6>2. sessions[v].fe_id < next_id
            BY <5>1
          <6> QED
            BY <6>1, <6>2
        <5>3. new.id # sessions[v].fe_id
          BY <5>2
        <5> HIDE DEF new
        <5> QED
          BY <2>2, <5>1, <5>2, <5>3
      <4> QED
        BY <4>1, <4>2 DEF Tracks
    <3> QED
      BY <1>0, <3>2, <3>3
  <2> QED
    BY <1>2, <2>1, <2>2 DEF StoreFailedEvent
<1>3. ASSUME NEW w \in Workers, DeliverWebhook(w) \/ RetryFailedEvent(w) PROVE QueueInv'
  <2>1. UNCHANGED <<tenants, failed_events, next_id>>
    BY <1>3, ZenonT(60) DEF DeliverWebhook, RetryFailedEvent, db_vars
  <2>2. \A v \in Workers : v # w => sessions'[v] = sessions[v]
    BY <1>3 DEF DeliverWebhook, RetryFailedEvent, TypeOK
  <2>3. CASE DeliverWebhook(w)
    <3>1. sessions'[w].via # "retry"
      BY <2>3 DEF DeliverWebhook, IdleSession, TypeOK
    <3> QED
      BY <1>0, <1>tracked, <2>1, <2>2, <3>1 DEF QueueInv, Tracks
  <2>4. CASE RetryFailedEvent(w)
    <3>1. PICK fe \in failed_events :
            sessions'[w].fe_id = fe.id /\ sessions'[w].event = Reread[fe.event]
      BY <2>4 DEF RetryFailedEvent, IdleSession, TypeOK
    <3>2. Key(sessions'[w].event) = Key(fe.event)
      BY <3>1, RereadAssumption DEF TypeOK, FailedEvents
    <3>3. Tracks(sessions'[w], failed_events', next_id')
      BY <2>1, <3>1, <3>2 DEF QueueInv, Tracks
    <3> QED
      BY <1>0, <1>tracked, <2>1, <2>2, <3>3 DEF QueueInv
  <2> QED
    BY <1>3, <2>3, <2>4
<1>4. CASE UNCHANGED vars
  BY <1>4 DEF vars, db_vars, QueueInv
<1>5. CASE DeleteFailedEvent
  BY <1>5 DEF DeleteFailedEvent, QueueInv
<1>6. ASSUME NEW t \in Tenants, DeleteTenant(t) PROVE QueueInv'
  BY <1>6 DEF DeleteTenant, QueueInv
<1>7. ASSUME NEW p \in Processes, Crash(p) PROVE QueueInv'
  <2>1. \A w \in Workers : sessions'[w] = sessions[w] \/ sessions'[w].via = "signed"
    BY <1>7 DEF Crash, IdleSession
  <2> QED
    BY <1>7, <2>1 DEF Crash, QueueInv
<1>8. ASSUME NEW w \in Workers, Advance(w) \/ DatabaseError(w) PROVE QueueInv'
  BY <1>1, <1>2, <1>8
<1> QED
  BY <1>3, <1>4, <1>5, <1>6, <1>7, <1>8 DEF Next

-----------------------------------------------------------------------------
(* The ledger: EventIngestion implements EventLedger, and what that says   *)
(* about the dead-letter queue.                                            *)

(* The two specifications share their data definitions.                    *)
LEMMA SameData ==
  /\ Ledger!Rows = Rows /\ Ledger!Columns = Columns /\ Ledger!Empty = Empty
  /\ \A e : Ledger!Key(e) = Key(e)
  /\ \A e, r, c : Ledger!Increment(e, r, c) = Increment(e, r, c)
  /\ \A k : Ledger!InLedger(k) <=> Stored(k)
BY DEF Ledger!Rows, Rows, Ledger!Columns, Columns, Ledger!Empty, Empty,
       Ledger!Key, Key, Ledger!Increment, Increment, Ledger!Bumps, Bumps,
       Ledger!Earns, Earns, Ledger!CarriesRevenue, CarriesRevenue,
       Ledger!CampaignRow, CampaignRow, Ledger!WorkflowRow, WorkflowRow,
       Ledger!RevenueRow, RevenueRow, Ledger!CampaignColumns, CampaignColumns,
       Ledger!WorkflowColumns, WorkflowColumns, Ledger!CountedIn, CountedIn,
       Ledger!REVENUE_EVENTS, REVENUE_EVENTS, Ledger!InLedger, Stored

(* A retry takes nothing but rows of its own event off the queue.          *)
LEMMA RemoveUnparks ==
  ASSUME TypeOK, QueueInv, NEW w \in Workers, RemoveRetried(w)
  PROVE  Ledger!Unpark(Key(sessions[w].event))
BY SameData DEF RemoveRetried, QueueInv, Ledger!Unpark

(* A commit is the ledger's StoreEvent.                                    *)
LEMMA CommitStores ==
  ASSUME TypeOK, TransactionInv, QueueInv, NEW w \in Workers, CommitEvent(w)
  PROVE  Ledger!Next
<1> DEFINE e == sessions[w].event
<1>1. e \in Events
  BY DEF TypeOK, Sessions
<1>2. e.tenant_id \in tenants /\ ~Ledger!InLedger(Ledger!Key(e))
  BY SameData, RowFacts DEF TransactionInv, OpenKeysAreNew, CommitEvent, Inserted
<1>3. lead_events' = lead_events \cup {e} /\ UNCHANGED tenants
  BY DEF CommitEvent
<1>4. stats' = [r \in Ledger!Rows |->
                 [c \in Ledger!Columns |-> stats[r][c] + Ledger!Increment(e, r, c)]]
  <2>1. \A r \in Rows : stats'[r] \in [Columns -> Int]
    BY DEF TypeOK, CommitEvent
  <2>2. \A r \in Rows : stats'[r] = [c \in Columns |-> stats[r][c] + Increment(e, r, c)]
    BY <2>1, CommitAdds
  <2>3. stats' = [r \in Rows |-> stats'[r]]
    BY DEF CommitEvent
  <2> QED
    BY <2>2, <2>3, SameData
<1>5. Ledger!Unpark(Ledger!Key(e))
  BY RemoveUnparks, SameData DEF CommitEvent
<1>6. Ledger!StoreEvent(e)
  BY <1>2, <1>3, <1>4, <1>5 DEF Ledger!StoreEvent
<1> QED
  BY <1>1, <1>6 DEF Ledger!Next

(* A retry of a stored event drops its row; with the tenant gone there is  *)
(* no row left to drop.                                                    *)
LEMMA DuplicateDrops ==
  ASSUME TypeOK, OutcomesAreTrue, QueueInv, NEW w \in Workers, CommitDuplicate(w)
  PROVE  Ledger!Next \/ UNCHANGED <<tenants, lead_events, stats, failed_events>>
<1> DEFINE e == sessions[w].event
<1>1. e \in Events
  BY DEF TypeOK, Sessions
<1>2. UNCHANGED <<tenants, lead_events, stats>> /\ RemoveRetried(w)
  BY DEF CommitDuplicate
<1>3. CASE Stored(Key(e))
  BY <1>1, <1>2, <1>3, RemoveUnparks, SameData DEF Ledger!DropStored, Ledger!Next
<1>4. CASE ~Stored(Key(e))
  <2>1. e.tenant_id \notin tenants
    BY <1>4, RowFacts DEF OutcomesAreTrue, CommitDuplicate
  <2>2. failed_events' = failed_events
    <3>1. \A fe \in failed_events : Key(fe.event)[1] \in tenants
      BY RowFacts DEF QueueInv
    <3>2. \A fe \in failed_events : Key(fe.event) # Key(e)
      BY <2>1, <3>1, RowFacts
    <3>3. sessions[w].via = "retry" => \A fe \in failed_events : fe.id # sessions[w].fe_id
      BY <3>2 DEF QueueInv
    <3> QED
      BY <1>2, <3>3 DEF RemoveRetried
  <2> QED
    BY <1>2, <2>2
<1> QED
  BY <1>3, <1>4

(* The dead letter parks a new row.                                        *)
LEMMA DeadLetterParks ==
  ASSUME TypeOK, QueueInv, NEW w \in Workers, StoreFailedEvent(w)
  PROVE  Ledger!Next \/ UNCHANGED <<tenants, lead_events, stats, failed_events>>
<1> DEFINE e == sessions[w].event
           new == [id |-> next_id, event |-> e, retry_count |-> 0]
<1>1. e \in Events
  BY DEF TypeOK, Sessions
<1>2. CASE UNCHANGED failed_events
  BY <1>2 DEF StoreFailedEvent
<1>3. CASE e.tenant_id \in tenants /\ failed_events' = failed_events \cup {new}
  <2>1. new.event = e /\ new.retry_count = 0 /\ new.id = next_id
    OBVIOUS
  <2>2. \A old \in failed_events : old.id # next_id
    BY DEF QueueInv, TypeOK, FailedEvents
  <2>3. UNCHANGED <<tenants, lead_events, stats>>
    BY DEF StoreFailedEvent
  <2> HIDE DEF new
  <2>4. Ledger!Park(e)
    BY <1>3, <2>1, <2>2, <2>3 DEF Ledger!Park
  <2> QED
    BY <1>1, <2>4 DEF Ledger!Next
<1> QED
  BY <1>2, <1>3 DEF StoreFailedEvent

(* A failed retry changes no id and no event in the queue.                 *)
LEMMA NotingKeepsRows ==
  ASSUME TypeOK, NEW w \in Workers, NoteRetryFailure(w)
  PROVE  Ledger!Next
<1> DEFINE after(fe) == IF fe.id = sessions[w].fe_id
               THEN [fe EXCEPT !.retry_count = sessions[w].count + 1] ELSE fe
<1>1. \A fe \in failed_events : after(fe).id = fe.id /\ after(fe).event = fe.event
  BY DEF TypeOK, FailedEvents
<1>2. failed_events' = {after(fe) : fe \in failed_events} \/ UNCHANGED failed_events
  BY DEF NoteRetryFailure
<1> HIDE DEF after
<1>3. {<<fe.id, fe.event>> : fe \in failed_events'} = {<<fe.id, fe.event>> : fe \in failed_events}
  BY <1>1, <1>2
<1> QED
  BY <1>3 DEF NoteRetryFailure, Ledger!NoteFailure, Ledger!Next

(* Every step is a step of the ledger or leaves it alone.                  *)
LEMMA StepRefines ==
  ASSUME TypeOK, TransactionInv, OutcomesAreTrue, QueueInv, [Next]_vars
  PROVE  [Ledger!Next]_Ledger!vars
<1> DEFINE Still == UNCHANGED <<tenants, lead_events, stats, failed_events>>
<1> SUFFICES Ledger!Next \/ Still
  BY ZenonT(60) DEF Ledger!vars
<1>1. ASSUME NEW w \in Workers, DeliverWebhook(w) \/ RetryFailedEvent(w) \/ DatabaseError(w)
      PROVE  Still
  BY <1>1, ZenonT(60) DEF DeliverWebhook, RetryFailedEvent, DatabaseError, Fail, db_vars
<1>2. ASSUME NEW w \in Workers,
             InsertLeadEvent(w) \/ UpsertCampaignStats(w) \/ UpsertWorkflowStats(w)
               \/ UpsertRevenueSnapshot(w) \/ RefreshFailedEvent(w) \/ Reply(w)
      PROVE  Still
  BY <1>2 DEF InsertLeadEvent, UpsertCampaignStats, UpsertWorkflowStats,
              UpsertRevenueSnapshot, UpsertRow, Fail, RefreshFailedEvent, Reply, db_vars
<1>3. ASSUME NEW w \in Workers, Advance(w) PROVE Ledger!Next \/ Still
  BY <1>2, <1>3, CommitStores, DuplicateDrops, DeadLetterParks, NotingKeepsRows DEF Advance
<1>4. CASE DeleteFailedEvent
  BY <1>4 DEF DeleteFailedEvent, Ledger!Discard, Ledger!Next
<1>5. ASSUME NEW t \in Tenants, DeleteTenant(t) PROVE Ledger!Next
  <2>1. Ledger!RemoveTenant(t)
    BY <1>5, SameData DEF DeleteTenant, Ledger!RemoveTenant
  <2> QED
    BY <2>1 DEF Ledger!Next
<1>6. CASE UNCHANGED vars \/ \E p \in Processes : Crash(p)
  BY <1>6 DEF vars, db_vars, Crash
<1> QED
  BY <1>1, <1>3, <1>4, <1>5, <1>6 DEF Next

LEMMA AllInvariants ==
  Spec => [](TypeOK /\ TransactionInv /\ OutcomesAreTrue /\ QueueInv)
<1> DEFINE IInv == TypeOK /\ TransactionInv /\ OutcomesAreTrue /\ AckedIsStored /\ QueueInv
<1>1. Init => IInv
  <2> SUFFICES ASSUME Init PROVE OutcomesAreTrue /\ AckedIsStored /\ QueueInv
    BY InitType, InitTransaction
  <2>1. \A w \in Workers : sessions[w].pc = "idle" /\ sessions[w].via = "signed"
    BY DEF Init, IdleSession
  <2> QED
    BY <2>1 DEF Init, OutcomesAreTrue, AckedIsStored, QueueInv
<1>2. IInv /\ [Next]_vars => IInv'
  BY NextType, NextTransaction, TruthStep, QueueInvStep
<1> QED
  BY <1>1, <1>2, PTL DEF Spec

(* Behind all its statements, locks and failures, ingestion is a ledger:   *)
(* each committed change of the tables is one of EventLedger's steps.      *)
THEOREM IngestionImplementsLedger == Spec => ImplementsLedger
<1>1. Init => Ledger!Init
  BY SameData DEF Init, Ledger!Init
<1>2. TypeOK /\ TransactionInv /\ OutcomesAreTrue /\ QueueInv /\ [Next]_vars
        => [Ledger!Next]_Ledger!vars
  BY StepRefines
<1> QED
  BY <1>1, <1>2, AllInvariants, PTL DEF Spec, Ledger!Spec, ImplementsLedger

(* A parked event is never lost to a retry that fails, crashes or races.   *)
THEOREM DeadLettersAreKept == Spec => DeadLetterKept
<1> DEFINE Kept == \A fe \in failed_events :
             ~Queued(fe.id)' => \/ Stored(Key(fe.event))'
                                \/ fe.event.tenant_id \notin tenants'
                                \/ DeleteFailedEvent
<1>1. ASSUME TypeOK, TransactionInv, OutcomesAreTrue, QueueInv, [Next]_vars
      PROVE  [Kept]_vars
  <2> SUFFICES ASSUME NEW fe \in failed_events,
                      \A ge \in failed_events' : ge.id # fe.id,
                      ~DeleteFailedEvent, fe.event.tenant_id \in tenants'
               PROVE  \E e \in lead_events' : Key(e) = Key(fe.event)
    BY DEF Queued, Stored
  <2>1. failed_events' # failed_events
    OBVIOUS
  <2>2. ASSUME NEW w \in Workers, StoreFailedEvent(w) PROVE fe \in failed_events'
    BY <2>2 DEF StoreFailedEvent
  <2>3. ASSUME NEW w \in Workers, NoteRetryFailure(w)
        PROVE  \E ge \in failed_events' : ge.id = fe.id
    <3> DEFINE after(x) == IF x.id = sessions[w].fe_id
                 THEN [x EXCEPT !.retry_count = sessions[w].count + 1] ELSE x
    <3>1. after(fe).id = fe.id
      BY <1>1 DEF TypeOK, FailedEvents
    <3>2. after(fe) \in failed_events' \/ UNCHANGED failed_events
      BY <2>3 DEF NoteRetryFailure
    <3> HIDE DEF after
    <3> QED
      BY <3>1, <3>2
  <2>4. ASSUME NEW w \in Workers, CommitEvent(w) \/ CommitDuplicate(w)
        PROVE  \E e \in lead_events' : Key(e) = Key(fe.event)
    <3> DEFINE k == Key(sessions[w].event)
    <3>1. Key(fe.event) = k
      <4>1. RemoveRetried(w)
        BY <2>4 DEF CommitEvent, CommitDuplicate
      <4>2. sessions[w].via = "retry" /\ fe.id = sessions[w].fe_id
        BY <4>1 DEF RemoveRetried
      <4> QED
        BY <1>1, <4>2 DEF QueueInv
    <3>2. CASE CommitEvent(w)
      BY <3>1, <3>2 DEF CommitEvent
    <3>3. CASE CommitDuplicate(w)
      <4>1. k[1] \in tenants /\ lead_events' = lead_events /\ sessions[w].pc = "duplicate"
        BY <3>1, <3>3, RowFacts, SMTT(30) DEF CommitDuplicate
      <4>2. Stored(k)
        BY <1>1, <3>1, <4>1 DEF OutcomesAreTrue
      <4> QED
        BY <3>1, <4>1, <4>2 DEF Stored
    <3> QED
      BY <2>4, <3>2, <3>3
  <2>5. ASSUME NEW t \in Tenants, DeleteTenant(t) PROVE fe \in failed_events'
    BY <2>5 DEF DeleteTenant
  <2>6. ASSUME NEW w \in Workers,
               DeliverWebhook(w) \/ RetryFailedEvent(w) \/ DatabaseError(w)
        PROVE  failed_events' = failed_events
    BY <2>6, ZenonT(60) DEF DeliverWebhook, RetryFailedEvent, DatabaseError, Fail, db_vars
  <2>9. ASSUME NEW w \in Workers,
               InsertLeadEvent(w) \/ UpsertCampaignStats(w) \/ UpsertWorkflowStats(w)
                 \/ UpsertRevenueSnapshot(w) \/ RefreshFailedEvent(w) \/ Reply(w)
        PROVE  failed_events' = failed_events
    BY <2>9 DEF InsertLeadEvent, UpsertCampaignStats, UpsertWorkflowStats,
                UpsertRevenueSnapshot, UpsertRow, Fail, RefreshFailedEvent, Reply, db_vars
  <2>7. CASE UNCHANGED vars \/ \E p \in Processes : Crash(p)
    BY <2>1, <2>7 DEF vars, db_vars, Crash
  <2>8. ASSUME NEW w \in Workers, Advance(w)
        PROVE  \E e \in lead_events' : Key(e) = Key(fe.event)
    <3>1. CASE StoreFailedEvent(w)
      BY <2>2, <3>1
    <3>2. CASE NoteRetryFailure(w)
      BY <2>3, <3>2
    <3> QED
      BY <2>1, <2>4, <2>8, <2>9, <3>1, <3>2 DEF Advance
  <2>10. CASE \E w \in Workers : \/ DeliverWebhook(w) \/ RetryFailedEvent(w)
                                  \/ DatabaseError(w) \/ Advance(w)
    BY <2>1, <2>6, <2>8, <2>10
  <2>11. ~\E t \in Tenants : DeleteTenant(t)
    BY <2>5
  <2> QED
    BY <1>1, <2>7, <2>10, <2>11 DEF Next
<1>2. TypeOK /\ TransactionInv /\ OutcomesAreTrue /\ QueueInv /\ [Next]_vars => [Kept]_vars
  BY <1>1
<1> QED
  BY <1>2, AllInvariants, PTL DEF Spec, DeadLetterKept

=============================================================================

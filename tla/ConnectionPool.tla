--------------------------- MODULE ConnectionPool ---------------------------
(***************************************************************************)
(* One process, its event loop, its threads and its pool of database       *)
(* connections.                                                            *)
(*                                                                         *)
(* Handlers that are `async def` (the two webhook routes and readyz) run   *)
(* on the event loop and call the database synchronously: while one waits  *)
(* for a connection, the loop stands still.  All others run on threads.    *)
(* A session takes a connection with its first statement and gives it back *)
(* at commit, at rollback, or when get_db closes it; the close is run on a *)
(* thread, but only the event loop can hand it to one.                     *)
(*                                                                         *)
(* What the statements do is left to the other modules.                    *)
(***************************************************************************)
EXTENDS Naturals, FiniteSets

CONSTANTS
  Requests,                       \* slots for requests of this process
  db_pool_size, db_max_overflow,  \* settings of the pool
  Threads,                        \* size of the thread pool
  Free                            \* "no request": the loop is free

Capacity == db_pool_size + db_max_overflow

ASSUME PoolAssumption ==
  /\ IsFiniteSet(Requests) /\ Free \notin Requests
  /\ db_pool_size \in Nat /\ db_max_overflow \in Nat /\ Threads \in Nat \ {0}
  /\ Capacity > 0

-----------------------------------------------------------------------------
VARIABLES
  kind,      \* the route of each request
  pc,        \* and where it is: the statement it is at, or its session's end
  holders,   \* the requests whose session has a connection
  loop       \* the request whose handler runs on the event loop

vars == <<kind, pc, holders, loop>>

OnLoop == {"signed", "token", "readyz"}
Statements == {"lookup", "ingest", "store", "reread", "probe", "query"}

OnThreads == {r \in Requests : kind[r] = "sync" /\ pc[r] \in Statements}

PoolTypeOK ==
  /\ kind \in [Requests -> OnLoop \cup {"sync"}]
  /\ pc \in [Requests -> Statements \cup {"idle", "queued", "finished", "closing", "closed"}]
  /\ holders \subseteq Requests
  /\ loop \in Requests \cup {Free}
  /\ \A r \in Requests : loop = r <=> kind[r] \in OnLoop /\ pc[r] \in Statements
  /\ Cardinality(OnThreads) <= Threads

Init ==
  /\ kind = [r \in Requests |-> "sync"]
  /\ pc = [r \in Requests |-> "idle"]
  /\ holders = {}
  /\ loop = Free

Goto(r, label) == pc' = [pc EXCEPT ![r] = label]

(* The handler returns or raises; if it had the loop, the loop is free.    *)
Finish(r) ==
  /\ Goto(r, "finished")
  /\ loop' = IF loop = r THEN Free ELSE loop

-----------------------------------------------------------------------------
(* The event loop.                                                         *)

Arrive(r) ==
  /\ loop = Free /\ pc[r] = "idle"
  /\ \E k \in OnLoop \cup {"sync"} : kind' = [kind EXCEPT ![r] = k]
  /\ Goto(r, "queued")
  /\ UNCHANGED <<holders, loop>>

FirstStatement(k) ==
  CASE k = "signed" -> "ingest" [] k = "token" -> "lookup"
    [] k = "readyz" -> "probe"  [] k = "sync"  -> "query"

(* Variant: handlers are not limited to the threads of the pool.           *)
StartUnlimited(r) ==
  /\ loop = Free /\ pc[r] = "queued"
  /\ Goto(r, FirstStatement(kind[r]))
  /\ loop' = IF kind[r] \in OnLoop THEN r ELSE Free
  /\ UNCHANGED <<kind, holders>>

(* A free thread enters get_db, and runs the handler or hands it back to   *)
(* the loop.                                                               *)
Start(r) ==
  /\ loop = Free /\ pc[r] = "queued"
  /\ Cardinality(OnThreads) < Threads
  /\ Goto(r, FirstStatement(kind[r]))
  /\ loop' = IF kind[r] \in OnLoop THEN r ELSE Free
  /\ UNCHANGED <<kind, holders>>

(* Variant: the thread that ran the handler closes the session.            *)
ScheduleCloseByItself(r) ==
  /\ pc[r] = "finished"
  /\ Goto(r, "closing")
  /\ UNCHANGED <<kind, holders, loop>>

(* The loop sees that the handler has ended and hands the exit of get_db   *)
(* to a thread (closes have a limiter of their own).                       *)
ScheduleClose(r) ==
  /\ loop = Free /\ pc[r] = "finished"
  /\ Goto(r, "closing")
  /\ UNCHANGED <<kind, holders, loop>>

(* The answer goes out after the close, and the slot is as it was.         *)
Answer(r) ==
  /\ loop = Free /\ pc[r] = "closed"
  /\ Goto(r, "idle")
  /\ kind' = [kind EXCEPT ![r] = "sync"]
  /\ UNCHANGED <<holders, loop>>

-----------------------------------------------------------------------------
(* The sessions.                                                           *)

Waiting(r) == pc[r] \in Statements /\ r \notin holders
PoolIsEmpty == Cardinality(holders) >= Capacity

Checkout(r) ==
  /\ Waiting(r) /\ ~PoolIsEmpty
  /\ holders' = holders \cup {r}
  /\ UNCHANGED <<kind, pc, loop>>

(* Variant: when the dead letter gets no connection, the event is tried    *)
(* again.                                                                  *)
CheckoutTimeoutRetried(r) ==
  /\ Waiting(r) /\ PoolIsEmpty
  /\ \/ pc[r] = "ingest" /\ Goto(r, "store") /\ UNCHANGED loop
     \/ pc[r] = "store" /\ Goto(r, "ingest") /\ UNCHANGED loop
     \/ pc[r] \notin {"ingest", "store"} /\ Finish(r)
  /\ UNCHANGED <<kind, holders>>

(* No connection within db_pool_timeout: the statement raises.  In         *)
(* process_lead_event_core that leads to store_failed_event, which asks    *)
(* for a connection again and swallows its own failure; elsewhere the      *)
(* handler ends.                                                           *)
CheckoutTimeout(r) ==
  /\ Waiting(r) /\ PoolIsEmpty
  /\ \/ pc[r] = "ingest" /\ Goto(r, "store") /\ UNCHANGED loop
     \/ pc[r] # "ingest" /\ Finish(r)
  /\ UNCHANGED <<kind, holders>>

Release(r) == holders' = holders \ {r}
Keep == UNCHANGED holders

(* ingest_lead_event_token looks up the tenant, and goes on in the same    *)
(* transaction or answers 401 or 400.                                      *)
LookUpTenant(r) ==
  /\ pc[r] = "lookup" /\ r \in holders
  /\ (Goto(r, "ingest") /\ UNCHANGED loop) \/ Finish(r)
  /\ Keep /\ UNCHANGED kind

(* process_lead_event_core and its commit, after which the token route     *)
(* reads its tenant again; or an exception and the rollback.               *)
Ingest(r) ==
  /\ pc[r] = "ingest" /\ r \in holders
  /\ \/ kind[r] = "signed" /\ Finish(r)
     \/ kind[r] = "token" /\ Goto(r, "reread") /\ UNCHANGED loop
     \/ Goto(r, "store") /\ UNCHANGED loop
  /\ Release(r) /\ UNCHANGED kind

(* store_failed_event: commit or rollback.                                 *)
StoreFailedEvent(r) ==
  /\ pc[r] = "store" /\ r \in holders
  /\ Finish(r)
  /\ Release(r) /\ UNCHANGED kind

(* The last statement of the token route, of readyz (which then awaits     *)
(* Redis) and of a handler on a thread that does not end with a commit.    *)
LastStatement(r) ==
  /\ pc[r] \in {"reread", "probe", "query"} /\ r \in holders
  /\ Finish(r)
  /\ Keep /\ UNCHANGED kind

(* A handler on a thread commits.                                          *)
Commit(r) ==
  /\ pc[r] = "query" /\ r \in holders
  /\ \/ Finish(r)                   \* and ends,
     \/ UNCHANGED <<pc, loop>>      \* or goes on: db.refresh
  /\ Release(r) /\ UNCHANGED kind

(* Variant: get_db without its finally clause.                             *)
CloseNothing(r) ==
  /\ pc[r] = "closing"
  /\ Goto(r, "closed")
  /\ UNCHANGED <<kind, holders, loop>>

(* The finally clause of get_db.                                           *)
Close(r) ==
  /\ pc[r] = "closing"
  /\ Goto(r, "closed")
  /\ Release(r) /\ UNCHANGED <<kind, loop>>

LoopTurn(r) == Start(r) \/ ScheduleClose(r) \/ Answer(r)
Connect(r) == Checkout(r) \/ CheckoutTimeout(r)
Advance(r) == LookUpTenant(r) \/ Ingest(r) \/ StoreFailedEvent(r) \/ LastStatement(r) \/ Close(r)

Next == \E r \in Requests :
          Arrive(r) \/ LoopTurn(r) \/ Connect(r) \/ Advance(r) \/ Commit(r)

Spec == Init /\ [][Next]_vars

(* The loop takes its tasks in turn (asyncio's queue is first in, first    *)
(* out), who waits for a connection is served or timed out, and statements *)
(* end.  A handler commits only so often: what comes last is fair.         *)
FairSpec ==
  Spec /\ \A r \in Requests :
    SF_vars(LoopTurn(r)) /\ WF_vars(Connect(r)) /\ SF_vars(Advance(r))

-----------------------------------------------------------------------------
(* Properties.                                                             *)

(* The pool never gives out more than db_pool_size + db_max_overflow, and  *)
(* a request that is over, or has not begun, has no connection: none       *)
(* leaks, whichever statement failed, timed out or was the last.           *)
ConnectionsAccounted ==
  /\ Cardinality(holders) <= Capacity
  /\ \A r \in holders : pc[r] \notin {"idle", "queued", "closed"}

(* The loop waits for a connection, and all of them belong to sessions     *)
(* that wait for the loop to close them.                                   *)
LoopWaitsForItself ==
  /\ loop # Free /\ Waiting(loop) /\ PoolIsEmpty
  /\ \A r \in holders : pc[r] = "finished"

(* From there no thread helps: the loop stands still until the waiting     *)
(* statement times out.  This is what db_pool_timeout is worth.            *)
OnlyTimeoutUnblocks ==
  [][LoopWaitsForItself =>
       LoopWaitsForItself' \/ (holders' = holders /\ pc'[loop] \in {"store", "finished"})]_vars

(* Every request is answered: the loop never waits for itself for ever,    *)
(* and no connection is kept from those who wait for it.                   *)
RequestsAnswered == \A r \in Requests : pc[r] # "idle" ~> pc[r] = "idle"

=============================================================================

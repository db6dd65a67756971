------------------------ MODULE ConnectionPoolProofs ------------------------
(***************************************************************************)
(* Theorems about ConnectionPool, for any number of requests, connections  *)
(* and threads.                                                            *)
(***************************************************************************)
EXTENDS ConnectionPool, FiniteSetTheorems, TLAPS

Labels == Statements \cup {"idle", "queued", "finished", "closing", "closed"}

(* The labels a step may give to a request.                                *)
LEMMA GotoFacts ==
  ASSUME PoolTypeOK, NEW r \in Requests, NEW label \in Labels, Goto(r, label)
  PROVE  /\ pc' \in [Requests -> Labels]
         /\ pc'[r] = label /\ \A q \in Requests \ {r} : pc'[q] = pc[q]
BY DEF PoolTypeOK, Goto, Labels

LEMMA FirstStatements == \A k \in OnLoop \cup {"sync"} : FirstStatement(k) \in Statements
BY DEF OnLoop, FirstStatement, Statements

(* Handlers on threads are finitely many.                                  *)
LEMMA ThreadsFinite == IsFiniteSet(OnThreads) /\ Cardinality(OnThreads) \in Nat
<1>1. OnThreads \subseteq Requests
  BY DEF OnThreads
<1> QED
  BY <1>1, PoolAssumption, FS_Subset, FS_CardinalityType

LEMMA FewerOnThreads ==
  ASSUME PoolTypeOK, OnThreads' \subseteq OnThreads
  PROVE  Cardinality(OnThreads') <= Threads
<1>1. IsFiniteSet(OnThreads) /\ Cardinality(OnThreads) \in Nat
  BY ThreadsFinite
<1>2. Cardinality(OnThreads') <= Cardinality(OnThreads) /\ IsFiniteSet(OnThreads')
  BY <1>1, FS_Subset
<1>3. Cardinality(OnThreads') \in Nat
  BY <1>2, FS_CardinalityType
<1> QED
  BY <1>1, <1>2, <1>3, PoolAssumption DEF PoolTypeOK

-----------------------------------------------------------------------------
(* A request moves within its handler, or leaves it.                       *)
Stays(r) == \E label \in Statements : Goto(r, label) /\ UNCHANGED loop

LEMMA MovesKeepType ==
  ASSUME PoolTypeOK, NEW r \in Requests, pc[r] \in Statements,
         Stays(r) \/ Finish(r), kind' = kind, holders' \subseteq Requests
  PROVE  PoolTypeOK'
<1>1. CASE Stays(r)
  <2>1. PICK label \in Statements : Goto(r, label) /\ loop' = loop
    BY <1>1 DEF Stays
  <2>2. /\ pc' \in [Requests -> Labels] /\ pc'[r] \in Statements
        /\ \A q \in Requests \ {r} : pc'[q] = pc[q]
    BY <2>1, GotoFacts DEF Labels
  <2>3. OnThreads' \subseteq OnThreads
    BY <2>2 DEF OnThreads
  <2>4. Cardinality(OnThreads') <= Threads
    BY <2>3, FewerOnThreads
  <2> QED
    BY <2>1, <2>2, <2>4 DEF PoolTypeOK, Labels
<1>2. CASE Finish(r)
  <2>1. /\ pc' \in [Requests -> Labels] /\ pc'[r] = "finished"
        /\ \A q \in Requests \ {r} : pc'[q] = pc[q]
    BY <1>2, GotoFacts DEF Finish, Labels
  <2>2. "finished" \notin Statements
    BY DEF Statements
  <2>3. OnThreads' \subseteq OnThreads
    BY <2>1, <2>2 DEF OnThreads
  <2>4. Cardinality(OnThreads') <= Threads
    BY <2>3, FewerOnThreads
  <2>5. \A q \in Requests : loop' = q <=> kind'[q] \in OnLoop /\ pc'[q] \in Statements
    BY <1>2, <2>1, <2>2, PoolAssumption DEF Finish, PoolTypeOK
  <2> QED
    BY <1>2, <2>1, <2>4, <2>5 DEF Finish, PoolTypeOK, Labels
<1> QED
  BY <1>1, <1>2

(* A request moves outside of its handler.                                 *)
LEMMA WaitsKeepType ==
  ASSUME PoolTypeOK, NEW r \in Requests, pc[r] \notin Statements, UNCHANGED loop,
         NEW label \in Labels \ Statements, Goto(r, label),
         kind' \in [Requests -> OnLoop \cup {"sync"}],
         \A q \in Requests \ {r} : kind'[q] = kind[q], holders' \subseteq Requests
  PROVE  PoolTypeOK'
<1>1. /\ pc' \in [Requests -> Labels] /\ pc'[r] \notin Statements
      /\ \A q \in Requests \ {r} : pc'[q] = pc[q]
  BY GotoFacts
<1>2. OnThreads' \subseteq OnThreads
  BY <1>1 DEF OnThreads
<1>3. Cardinality(OnThreads') <= Threads
  BY <1>2, FewerOnThreads
<1> QED
  BY <1>1, <1>3 DEF PoolTypeOK, Labels

LEMMA StartKeepsType ==
  ASSUME PoolTypeOK, NEW r \in Requests, Start(r)
  PROVE  PoolTypeOK'
<1>1. kind[r] \in OnLoop \cup {"sync"} /\ "sync" \notin OnLoop
  BY DEF PoolTypeOK, OnLoop
<1>2. FirstStatement(kind[r]) \in Statements
  BY <1>1, FirstStatements
<1>3. /\ pc' \in [Requests -> Labels] /\ pc'[r] \in Statements
      /\ \A q \in Requests \ {r} : pc'[q] = pc[q]
  BY <1>2, GotoFacts DEF Start, Labels
<1>4. IsFiniteSet(OnThreads) /\ Cardinality(OnThreads) \in Nat /\ Cardinality(OnThreads) < Threads
  BY ThreadsFinite DEF Start
<1>5. OnThreads' \subseteq OnThreads \cup {r}
  BY <1>3 DEF OnThreads, Start
<1>6. Cardinality(OnThreads') <= Threads
  <2>1. /\ IsFiniteSet(OnThreads \cup {r})
        /\ Cardinality(OnThreads \cup {r}) <= Cardinality(OnThreads) + 1
    <3> DEFINE S == OnThreads
    <3>1. IsFiniteSet(S) /\ Cardinality(S) \in Nat
      BY <1>4
    <3> HIDE DEF S
    <3>2. IsFiniteSet(S \cup {r}) /\ Cardinality(S \cup {r}) <= Cardinality(S) + 1
      <4>1. /\ IsFiniteSet(S \cup {r})
            /\ Cardinality(S \cup {r}) = IF r \in S THEN Cardinality(S) ELSE Cardinality(S) + 1
        BY <3>1, FS_AddElement, Zenon
      <4> QED
        BY <3>1, <4>1
    <3> QED
      BY <3>2 DEF S
  <2>2. /\ Cardinality(OnThreads') <= Cardinality(OnThreads \cup {r})
        /\ IsFiniteSet(OnThreads')
    BY <1>5, <2>1, FS_Subset
  <2>3. Cardinality(OnThreads') \in Nat /\ Cardinality(OnThreads \cup {r}) \in Nat
    BY <2>1, <2>2, FS_CardinalityType
  <2> QED
    BY <1>4, <2>1, <2>2, <2>3, PoolAssumption
<1>7. \A q \in Requests : loop' = q <=> kind'[q] \in OnLoop /\ pc'[q] \in Statements
  BY <1>1, <1>3, PoolAssumption DEF Start, PoolTypeOK
<1> QED
  BY <1>3, <1>6, <1>7 DEF Start, PoolTypeOK, Labels

LEMMA PoolInitType == Init => PoolTypeOK
<1> SUFFICES ASSUME Init PROVE PoolTypeOK
  OBVIOUS
<1>1. "idle" \notin Statements
  BY DEF Statements
<1>2. OnThreads = {}
  BY <1>1 DEF Init, OnThreads
<1>3. Cardinality(OnThreads) <= Threads
  BY <1>2, FS_EmptySet, PoolAssumption
<1> QED
  BY <1>1, <1>3, PoolAssumption DEF Init, PoolTypeOK, Labels

LEMMA PoolNextType == PoolTypeOK /\ [Next]_vars => PoolTypeOK'
<1> SUFFICES ASSUME PoolTypeOK, [Next]_vars PROVE PoolTypeOK'
  OBVIOUS
<1> USE DEF Labels
<1>1. CASE UNCHANGED vars
  <2>1. OnThreads' = OnThreads
    BY <1>1 DEF vars, OnThreads
  <2> QED
    BY <1>1, <2>1 DEF vars, PoolTypeOK
<1>2. ASSUME NEW r \in Requests, Arrive(r) PROVE PoolTypeOK'
  BY <1>2, WaitsKeepType DEF Arrive, PoolTypeOK, Statements
<1>3. ASSUME NEW r \in Requests, ScheduleClose(r) \/ Answer(r) \/ Close(r) PROVE PoolTypeOK'
  <2>1. CASE ScheduleClose(r)
    BY <2>1, WaitsKeepType DEF ScheduleClose, PoolTypeOK, Statements
  <2>2. CASE Answer(r)
    BY <2>2, WaitsKeepType DEF Answer, PoolTypeOK, Statements
  <2>3. CASE Close(r)
    BY <2>3, WaitsKeepType DEF Close, Release, PoolTypeOK, Statements
  <2> QED
    BY <1>3, <2>1, <2>2, <2>3
<1>4. ASSUME NEW r \in Requests, Checkout(r) PROVE PoolTypeOK'
  <2>1. OnThreads' = OnThreads
    BY <1>4 DEF Checkout, OnThreads
  <2> QED
    BY <1>4, <2>1 DEF Checkout, PoolTypeOK
<1>5. ASSUME NEW r \in Requests, CheckoutTimeout(r) PROVE PoolTypeOK'
  <2>1. pc[r] \in Statements /\ (Stays(r) \/ Finish(r))
    BY <1>5 DEF CheckoutTimeout, Waiting, Stays, Statements
  <2> QED
    BY <1>5, <2>1, MovesKeepType DEF CheckoutTimeout, Waiting, PoolTypeOK
<1>6. ASSUME NEW r \in Requests,
             LookUpTenant(r) \/ Ingest(r) \/ StoreFailedEvent(r) \/ LastStatement(r)
      PROVE  PoolTypeOK'
  <2>1. /\ pc[r] \in Statements /\ kind' = kind /\ holders' \subseteq Requests
        /\ Stays(r) \/ Finish(r)
    BY <1>6 DEF LookUpTenant, Ingest, StoreFailedEvent, LastStatement, Release, Keep,
                Stays, Statements, PoolTypeOK
  <2> QED
    BY <2>1, MovesKeepType
<1>7. ASSUME NEW r \in Requests, Commit(r) PROVE PoolTypeOK'
  <2>1. CASE Finish(r)
    BY <1>7, <2>1, MovesKeepType DEF Commit, Release, Statements, PoolTypeOK
  <2>2. CASE UNCHANGED <<pc, loop>>
    <3>1. OnThreads' = OnThreads
      BY <1>7, <2>2 DEF Commit, OnThreads
    <3> QED
      BY <1>7, <2>2, <3>1 DEF Commit, Release, PoolTypeOK
  <2> QED
    BY <1>7, <2>1, <2>2 DEF Commit
<1> QED
  BY <1>1, <1>2, <1>3, <1>4, <1>5, <1>6, <1>7, StartKeepsType
     DEF Next, LoopTurn, Connect, Advance

(* No more handlers run on threads than the thread pool has, and the event *)
(* loop is taken by exactly the async handler that is at a statement.      *)
THEOREM PoolTypeCorrect == Spec => []PoolTypeOK
BY PoolInitType, PoolNextType, PTL DEF Spec

-----------------------------------------------------------------------------
LEMMA HoldersFinite ==
  ASSUME PoolTypeOK
  PROVE  IsFiniteSet(holders) /\ Cardinality(holders) \in Nat /\ Capacity \in Nat
BY PoolAssumption, FS_Subset, FS_CardinalityType DEF PoolTypeOK, Capacity

(* A step that takes no connection leaves none with a request that is over.*)
LEMMA NoneTaken ==
  ASSUME PoolTypeOK, PoolTypeOK', ConnectionsAccounted, holders' \subseteq holders,
         \A r \in holders' : pc'[r] = pc[r] \/ pc'[r] \notin {"idle", "queued", "closed"}
  PROVE  ConnectionsAccounted'
<1>1. Cardinality(holders') <= Cardinality(holders) /\ IsFiniteSet(holders')
  BY HoldersFinite, FS_Subset
<1>2. Cardinality(holders') \in Nat /\ Capacity \in Nat
  BY <1>1, HoldersFinite, FS_CardinalityType
<1>3. Cardinality(holders') <= Capacity
  BY <1>1, <1>2, HoldersFinite DEF ConnectionsAccounted
<1> QED
  BY <1>3 DEF ConnectionsAccounted, Capacity

LEMMA OneTaken ==
  ASSUME PoolTypeOK, ConnectionsAccounted, NEW r \in Requests, Checkout(r)
  PROVE  ConnectionsAccounted'
<1>1. Cardinality(holders') <= Cardinality(holders) + 1
  BY HoldersFinite, FS_AddElement DEF Checkout
<1>2. Cardinality(holders) < Capacity
  BY HoldersFinite DEF Checkout, PoolIsEmpty
<1>3. IsFiniteSet(holders')
  BY HoldersFinite, FS_AddElement DEF Checkout
<1>4. Cardinality(holders') <= Capacity
  BY <1>1, <1>2, <1>3, HoldersFinite, FS_CardinalityType
<1> QED
  BY <1>4 DEF ConnectionsAccounted, Checkout, Waiting, Statements, Capacity

LEMMA AccountedNext ==
  ASSUME PoolTypeOK, ConnectionsAccounted, [Next]_vars
  PROVE  ConnectionsAccounted'
<1> USE DEF Labels
<1>1. PoolTypeOK'
  BY PoolNextType
<1>2. CASE UNCHANGED vars
  BY <1>1, <1>2, NoneTaken DEF vars
<1>3. ASSUME NEW r \in Requests, Arrive(r) \/ ScheduleClose(r) \/ Answer(r) \/ Close(r)
      PROVE  ConnectionsAccounted'
  <2>1. holders' \subseteq holders
    BY <1>3 DEF Arrive, ScheduleClose, Answer, Close, Release
  <2>2. \A q \in holders' : pc'[q] = pc[q] \/ pc'[q] = "closing"
    BY <1>3 DEF Arrive, ScheduleClose, Answer, Close, Release, Goto, PoolTypeOK,
                ConnectionsAccounted
  <2> QED
    BY <1>1, <2>1, <2>2, NoneTaken
<1>4. ASSUME NEW r \in Requests, Start(r) PROVE ConnectionsAccounted'
  BY <1>1, <1>4, NoneTaken DEF Start, Goto, PoolTypeOK, ConnectionsAccounted
<1>5. ASSUME NEW r \in Requests,
             \/ CheckoutTimeout(r) \/ LookUpTenant(r) \/ Ingest(r)
             \/ StoreFailedEvent(r) \/ LastStatement(r) \/ Commit(r)
      PROVE  ConnectionsAccounted'
  <2>1. holders' \subseteq holders
    BY <1>5 DEF CheckoutTimeout, LookUpTenant, Ingest, StoreFailedEvent, LastStatement, Commit,
                Release, Keep
  <2>2. \A q \in holders' :
          pc'[q] = pc[q] \/ pc'[q] \in {"finished", "store", "reread", "ingest"}
    <3>1. \/ pc' = pc
          \/ \E label \in {"finished", "store", "reread", "ingest"} : Goto(r, label)
      BY <1>5 DEF CheckoutTimeout, LookUpTenant, Ingest, StoreFailedEvent, LastStatement,
                  Commit, Finish
    <3> QED
      BY <2>1, <3>1 DEF Goto, PoolTypeOK
  <2> QED
    BY <1>1, <2>1, <2>2, NoneTaken
<1> QED
  BY <1>2, <1>3, <1>4, <1>5, OneTaken DEF Next, LoopTurn, Connect, Advance

(* get_db leaks no connection, whatever statement of its session failed,   *)
(* and the engine gives out no more than the pool and its overflow.        *)
THEOREM ConnectionsAreAccounted == Spec => []ConnectionsAccounted
<1>1. Init => ConnectionsAccounted
  BY FS_EmptySet, PoolAssumption DEF Init, ConnectionsAccounted, Capacity
<1>2. PoolTypeOK /\ ConnectionsAccounted /\ [Next]_vars => ConnectionsAccounted'
  BY AccountedNext
<1> QED
  BY <1>1, <1>2, PoolTypeCorrect, PTL DEF Spec

-----------------------------------------------------------------------------
Blocked ==
  LoopWaitsForItself =>
    LoopWaitsForItself' \/ (holders' = holders /\ pc'[loop] \in {"store", "finished"})

LEMMA BlockedNext == ASSUME PoolTypeOK, Next PROVE Blocked
<1> USE DEF Labels
<1> SUFFICES ASSUME LoopWaitsForItself
             PROVE  LoopWaitsForItself' \/ (holders' = holders /\ pc'[loop] \in {"store", "finished"})
  BY DEF Blocked
<1>1. /\ loop \in Requests /\ loop # Free /\ pc[loop] \in Statements /\ loop \notin holders
      /\ PoolIsEmpty /\ \A q \in holders : pc[q] = "finished"
  BY DEF LoopWaitsForItself, Waiting, PoolTypeOK
<1>2. PICK r \in Requests : CheckoutTimeout(r) \/ Close(r)
  <2>1. ASSUME NEW q \in Requests
        PROVE  ~Arrive(q) /\ ~LoopTurn(q) /\ ~Checkout(q) /\ ~Commit(q)
               /\ ~LookUpTenant(q) /\ ~Ingest(q) /\ ~StoreFailedEvent(q) /\ ~LastStatement(q)
    BY <1>1 DEF Arrive, LoopTurn, Start, ScheduleClose, Answer, Checkout, Commit, LookUpTenant,
                Ingest, StoreFailedEvent, LastStatement
  <2> QED
    BY <2>1 DEF Next, Connect, Advance
<1>3. CASE CheckoutTimeout(r) /\ r = loop
  BY <1>1, <1>3 DEF CheckoutTimeout, Finish, Goto, PoolTypeOK
<1>4. CASE CheckoutTimeout(r) /\ r # loop
  <2>1. holders' = holders /\ loop' = loop /\ r \notin holders
    BY <1>4 DEF CheckoutTimeout, Finish, Waiting
  <2>2. \A q \in Requests \ {r} : pc'[q] = pc[q]
    BY <1>4 DEF CheckoutTimeout, Finish, Goto, PoolTypeOK
  <2> QED
    BY <1>1, <1>4, <2>1, <2>2 DEF LoopWaitsForItself, Waiting, PoolIsEmpty, Capacity, PoolTypeOK
<1>5. CASE Close(r)
  <2>1. r \notin holders /\ r # loop
    BY <1>1, <1>5 DEF Close, Statements
  <2>2. holders' = holders /\ loop' = loop /\ \A q \in Requests \ {r} : pc'[q] = pc[q]
    BY <1>5, <2>1 DEF Close, Release, Goto, PoolTypeOK
  <2> QED
    BY <1>1, <2>1, <2>2 DEF LoopWaitsForItself, Waiting, PoolIsEmpty, Capacity, PoolTypeOK
<1> QED
  BY <1>2, <1>3, <1>4, <1>5

(* Once an async handler waits for connections that only the event loop    *)
(* can have closed, nothing but db_pool_timeout takes it further.          *)
THEOREM TimeoutUnblocks == Spec => OnlyTimeoutUnblocks
<1>1. PoolTypeOK /\ [Next]_vars => [Blocked]_vars
  BY BlockedNext
<1> QED
  BY <1>1, PoolTypeCorrect, PTL DEF Spec, OnlyTimeoutUnblocks, Blocked

=============================================================================

---------------------------- MODULE EventLedger -----------------------------
(***************************************************************************)
(* What ingestion promises, without sessions, statements or locks: a       *)
(* ledger of events in which every event takes effect at once, with all    *)
(* its counters, at most once for its key; and a queue of parked events    *)
(* that gives one up only because it is stored, discarded or its tenant    *)
(* is gone.                                                                *)
(***************************************************************************)
EXTENDS LeadEvents

VARIABLES
  tenants,  \* the tenants there are
  ledger,   \* the events that took effect
  tally,    \* the aggregate rows
  parked    \* the dead-letter queue

vars == <<tenants, ledger, tally, parked>>

InLedger(k) == \E e \in ledger : Key(e) = k

(* The queue loses at most rows of events with this key.                   *)
Unpark(k) ==
  /\ parked' \subseteq parked
  /\ \A fe \in parked \ parked' : Key(fe.event) = k

Init ==
  /\ tenants = Tenants
  /\ ledger = {}
  /\ tally = [r \in Rows |-> Empty]
  /\ parked = {}

StoreEvent(e) ==
  /\ e.tenant_id \in tenants /\ ~InLedger(Key(e))
  /\ ledger' = ledger \cup {e}
  /\ tally' = [r \in Rows |-> [c \in Columns |-> tally[r][c] + Increment(e, r, c)]]
  /\ Unpark(Key(e))
  /\ UNCHANGED tenants

(* A retry finds its event stored already.                                 *)
DropStored(e) ==
  /\ InLedger(Key(e))
  /\ Unpark(Key(e))
  /\ UNCHANGED <<tenants, ledger, tally>>

Park(e) ==
  /\ e.tenant_id \in tenants
  /\ \E fe \in parked' :
       /\ fe.event = e /\ fe.retry_count = 0
       /\ \A old \in parked : old.id # fe.id
       /\ parked' = parked \cup {fe}
  /\ UNCHANGED <<tenants, ledger, tally>>

(* A failed retry touches nothing but the row's count.                     *)
NoteFailure ==
  /\ {<<fe.id, fe.event>> : fe \in parked'} = {<<fe.id, fe.event>> : fe \in parked}
  /\ UNCHANGED <<tenants, ledger, tally>>

Discard ==
  /\ \E fe \in parked : parked' = parked \ {fe}
  /\ UNCHANGED <<tenants, ledger, tally>>

RemoveTenant(t) ==
  /\ t \in tenants
  /\ tenants' = tenants \ {t}
  /\ ledger' = {e \in ledger : e.tenant_id # t}
  /\ parked' = {fe \in parked : fe.event.tenant_id # t}
  /\ tally' = [r \in Rows |-> IF r[2] = t THEN Empty ELSE tally[r]]

Next ==
  \/ \E e \in Events : StoreEvent(e) \/ DropStored(e) \/ Park(e)
  \/ NoteFailure \/ Discard
  \/ \E t \in Tenants : RemoveTenant(t)

Spec == Init /\ [][Next]_vars

=============================================================================

-------------------------- MODULE MCEventIngestion --------------------------
(* Small instances of EventIngestion for TLC. *)
EXTENDS EventIngestion, EventNames, TLC

CONSTANTS t1, t2, w1, w2, w3, p1, p2

(* One deal that touches a campaign row, a workflow row and revenue. *)
Deal == [tenant_id |-> t1, event_id |-> 1, event_type |-> "deal_won",
         campaign_id |-> "summer", workflow_id |-> "onboard",
         currency |-> "USD", amount |-> 5]

(* Another event on the same rows, which takes an amount back. *)
Sale == [Deal EXCEPT !.event_id = 2, !.event_type = "sale", !.amount = -3]

(* A client that uses the deal's idempotency key again for another event. *)
Reused == [Deal EXCEPT !.event_type = "clicked", !.workflow_id = NoId,
                       !.amount = NoAmount]

(* An amount that does not parse. *)
Garbled == [Sale EXCEPT !.event_id = 3, !.amount = InvalidAmount]

(* A spelling that is cleaned, and a dotted name that is no alias. *)
MCCleaned  == "Lead.Create" :> "lead.create"
MCUndotted == "lead.create" :> "lead_create"

(* The other tenant uses the same names. *)
Other == [Deal EXCEPT !.tenant_id = t2]

MCReread == [e \in Events |-> Validated(e)]

EventsWorkers == {Deal, Reused, Sale, Other}
EventsRetry   == {Deal}
EventsAmount  == {Sale, Garbled}

OneProcess   == [w \in Workers |-> p1]
TwoProcesses == [w \in Workers |-> IF w = w1 THEN p1 ELSE p2]
=============================================================================

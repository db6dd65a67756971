----------------------------- MODULE LeadEvents -----------------------------
(***************************************************************************)
(* The data an event is made of and what it adds to the aggregate tables:  *)
(* the constants and pure definitions that the detailed specification of   *)
(* ingestion (EventIngestion) and the abstract one (EventLedger) share.    *)
(***************************************************************************)
EXTENDS Integers, FiniteSets, LeadEventTypes

CONSTANTS
  Tenants,          \* tenant ids; a uuid is never given out twice
  EventIds,         \* idempotency keys
  Campaigns, Workflows, Currencies,
  NoId,             \* "this event names no campaign (no workflow)"
  NoAmount,         \* "this event carries no amount"
  InvalidAmount,    \* an amount decimal.Decimal cannot parse
  Events            \* the validated payloads the clients may send

EventFields ==
  [tenant_id : Tenants, event_id : EventIds, event_type : STRING,
   campaign_id : Campaigns \cup {NoId}, workflow_id : Workflows \cup {NoId},
   currency : Currencies, amount : Int \cup {NoAmount, InvalidAmount}]

ASSUME NamesAssumption ==
  /\ NoId \notin Campaigns \cup Workflows
  /\ NoAmount \notin Int /\ InvalidAmount \notin Int /\ NoAmount # InvalidAmount

ASSUME EventsAssumption ==
  /\ Events \subseteq EventFields
  /\ Events # {} /\ IsFiniteSet(Events)

-----------------------------------------------------------------------------
(* The rows of the aggregate tables an event touches.                      *)

Columns == CampaignColumns \cup WorkflowColumns \cup {"total_revenue"}

(* revenue_snapshots has one row for each day as well; the sum over the    *)
(* days is kept as one row.  attributed_revenue is always written with the *)
(* same value as total_revenue and is left out.                            *)
Rows == ({"campaign"} \X Tenants \X Campaigns)
          \cup ({"workflow"} \X Tenants \X Workflows)
          \cup ({"revenue"} \X Tenants \X Currencies)

Key(e) == <<e.tenant_id, e.event_id>>

CampaignRow(e) == <<"campaign", e.tenant_id, e.campaign_id>>
WorkflowRow(e) == <<"workflow", e.tenant_id, e.workflow_id>>
RevenueRow(e)  == <<"revenue", e.tenant_id, e.currency>>

CarriesRevenue(e) == e.event_type \in REVENUE_EVENTS /\ e.amount # NoAmount

(* The counters an event adds one to.                                      *)
Bumps(e, r, c) ==
  /\ c \in DOMAIN CountedIn
  /\ e.event_type \in CountedIn[c]
  /\ \/ e.campaign_id # NoId /\ r = CampaignRow(e) /\ c \in CampaignColumns
     \/ e.workflow_id # NoId /\ r = WorkflowRow(e) /\ c \in WorkflowColumns

(* The revenue an event adds.                                              *)
Earns(e, r, c) ==
  /\ c = "total_revenue" /\ r = RevenueRow(e)
  /\ CarriesRevenue(e) /\ e.amount # InvalidAmount

(* What an event adds to a column of a row, all told.                      *)
Increment(e, r, c) == IF Bumps(e, r, c) THEN 1
                      ELSE IF Earns(e, r, c) THEN e.amount ELSE 0

Empty == [c \in Columns |-> 0]

(* A row of the dead-letter queue: the payload as it was delivered (its    *)
(* event_id and raw_payload) and the retries that failed.                  *)
FailedEvents == [id : Nat, event : Events, retry_count : Nat]

=============================================================================

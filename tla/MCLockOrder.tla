---------------------------- MODULE MCLockOrder -----------------------------
(* A small instance of LockOrder for TLC. *)
EXTENDS LockOrder, EventNames, TLC

CONSTANTS t1, w1, w2, p1, k1

(* An event that inserts the contact Ann. *)
Deal == [tenant_id |-> t1, event_id |-> 1, event_type |-> "deal_won",
         campaign_id |-> "summer", workflow_id |-> NoId,
         currency |-> "USD", amount |-> 5]

(* One of the same campaign that gives a known lead her email.  It is no   *)
(* alias and stored as "lead_create", which no set lists, and comes back   *)
(* from the dead letter as "lead_created".                                 *)
Spelled == [Deal EXCEPT !.event_id = 2, !.event_type = "Lead.Create",
                        !.amount = NoAmount]

MCCleaned  == "Lead.Create" :> "lead.create"
MCUndotted == "lead.create" :> "lead_create"
MCReread   == [e \in Events |-> Validated(e)]

(* What clients send, validated, and what a retry makes of it.             *)
Payloads ==
  LET once == {Validated(Deal), Validated(Spelled)} IN once \cup {Validated(e) : e \in once}

(* The external id of a contact is its lead_id: every event brings one.    *)
MCIndex == [i \in Identities |-> CASE i = "ann" -> 2 [] i = "555" -> 3 [] OTHER -> ExternalId]
MCCarries ==
  [e \in Events |-> IF e.event_id = 1 THEN {"lead2", "ann"} ELSE {"lead1", "ann"}]

(* One contact, of a lead, whose phone is known.                           *)
MCKnown == {<<t1, 1>>}
MCKnownBy == [x \in Entries |-> IF x[2] \in {"lead1", "555"} THEN 1 ELSE Nobody]

(* What the forms of the administrator hold.                               *)
MCDrafts == {{"ann"}, {"lead2", "ann", "555"}}

OneProcess == [w \in Workers |-> p1]
=============================================================================

--------------------------- MODULE MCUsageReports ---------------------------
(* Small instances of TenantAdmin and UsageReports for TLC. *)
EXTENDS UsageReports, TLC

CONSTANTS w1, w2, lead1, m1, summer

Acme == [name |-> "acme", plan |-> "basic"]

MCCreations == {Acme}

(* One column, and both, one of them with the value it has at first. *)
MCPatches == {[name |-> "apex"], [name |-> "acme", plan |-> "pro"]}

MCNormalized == [s \in {" Ann@x.se", "ann@x.se"} |-> "ann@x.se"]

(* A message whose event is dated on the first day. *)
Sent == [tenant_id |-> 0, event_type |-> "sms_sent", occurred_at |-> 0,
         contact |-> lead1, status |-> "contacted", opt_outs |-> {},
         message |-> m1, medium |-> SmsOut, message_status |-> "sent",
         campaign |-> summer, workflow |-> Null, amount |-> 0]

(* A sale to the same contact. *)
Sale == [Sent EXCEPT !.event_type = "sale", !.status = "converted",
                     !.message = Null, !.amount = 5]

PayloadsSent == {Sent}
PayloadsSale == {Sale}
=============================================================================

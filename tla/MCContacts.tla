----------------------------- MODULE MCContacts -----------------------------
(* Small instances of Contacts for TLC. *)
EXTENDS Contacts, TLC

CONSTANTS w1, w2, w3

Body(type, lead, email, phone, message, text) ==
  [event_type |-> type, external_contact_id |-> lead, email |-> email,
   normalized_phone |-> phone, provider_message_id |-> message, text |-> text]

(* One person's events: each identity belongs to her alone. *)
Created == Body("lead_created", "lead1", "ann", Null, Null, FALSE)
Sent    == Body("sms_sent", "lead1", Null, "555", "m1", TRUE)
Clicked == Body("clicked", "lead1", "ann", Null, "m1", TRUE)
Won     == Body("deal_won", "lead1", "ann", "555", Null, FALSE)
Stop    == Body("opt_out_sms", "lead1", Null, Null, Null, FALSE)
StopAll == Body("opt_out_all", "lead1", "ann", Null, Null, FALSE)

(* The same email under another lead, and a lead with that one's phone. *)
Moved   == Body("contacted", "lead2", "ann", "555", Null, FALSE)
Shared  == Body("sms_sent", "lead3", Null, "555", "m1", TRUE)

OptOutOf(chs) == [op |-> "opt_out", channels |-> chs]
OptInTo(chs)  == [op |-> "opt_in", channels |-> chs]
Erase         == [op |-> "anonymize"]
PatchOf(set)  == [op |-> "patch", set |-> set]

Imported == [BlankContact EXCEPT !.email = "ann", !.status = "archived"]

(* One event loop, nothing retried; a message log without a provider id. *)
BodiesSerial == {Sent, Clicked, Moved, Shared, Stop}
CallsSerial  == {OptInTo({"sms", "email"}), Erase,
                 PatchOf([opted_out_sms |-> TRUE])}
NewSerial    == {Imported}
LogsSerial   == {[provider_message_id |-> Null, body |-> TRUE]}

(* First deliveries of one person's events race, opt-outs from both sides. *)
BodiesRaces == {Created, Sent, Won, Stop, StopAll}
CallsRaces  == {OptOutOf({"email"}), Erase, PatchOf([status |-> "engaged"])}

BodiesErase  == {Created, Sent}
CallsErase   == {Erase}
=============================================================================

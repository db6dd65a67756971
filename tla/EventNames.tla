----------------------------- MODULE EventNames -----------------------------
(***************************************************************************)
(* Names of event types: what the validation of a webhook payload          *)
(* (schemas/webhooks.py) makes of the event_type a client spells.          *)
(*                                                                         *)
(* The validation runs when an event is delivered and again, on what came  *)
(* out of it the first time, when a dead letter is retried.  Pure          *)
(* definitions, no state.                                                  *)
(***************************************************************************)
CONSTANTS
  Cleaned,   \* strip, lower case, "-" and " " to "_": the spellings it changes
  Undotted   \* "." to "_": the names it changes

-----------------------------------------------------------------------------
(* _EVENT_TYPE_ALIASES: for each canonical type, the names that mean it.   *)

LeadNames ==
  [lead_created    |-> {"lead.created", "lead_create", "lead_created", "created"},
   lead_imported   |-> {"lead.imported", "lead_imported", "imported"},
   contacted       |-> {"contacted"}]

MessageNames ==
  [email_sent      |-> {"email.sent", "email_sent"},
   sms_sent        |-> {"sms.sent", "sms_sent"},
   email_delivered |-> {"email.delivered", "email_delivered", "delivered"},
   sms_delivered   |-> {"sms.delivered", "sms_delivered"},
   email_bounced   |-> {"email.bounced", "email_bounced", "bounced", "bounce"},
   sms_failed      |-> {"sms.failed", "sms_failed"},
   email_failed    |-> {"email.failed", "email_failed"}]

EngagementNames ==
  [engaged         |-> {"engaged"},
   email_opened    |-> {"email.opened", "email_opened", "opened", "open"},
   clicked         |-> {"clicked", "click", "link.clicked", "link_clicked"},
   replied         |-> {"replied", "reply", "email.replied", "email_replied"}]

(* Variant: a misprint turns a canonical name into one of its aliases.     *)
DealNamesCrossed ==
  [converted |-> {"converted", "convert"}, deal_won |-> {"deal.won", "won"},
   won |-> {"deal_won"}, sale |-> {"sale"}]

DealNames ==
  [converted       |-> {"converted", "convert"},
   deal_won        |-> {"deal.won", "deal_won", "won"},
   sale            |-> {"sale"}]

WorkflowNames ==
  [workflow_processed |-> {"workflow.processed", "workflow_processed"},
   lead_processed  |-> {"lead.processed", "lead_processed"},
   step_completed  |-> {"step.completed", "step_completed"},
   workflow_success |-> {"workflow.success", "workflow_success", "success"},
   workflow_failed |-> {"workflow.failed", "workflow_failed"},
   failed          |-> {"failed"},
   error           |-> {"error"}]

OptOutNames ==
  [opt_out_all     |-> {"opt_out", "opt.out", "optout", "unsubscribe", "unsubscribe.all",
                        "opt_out_all"},
   opt_out_sms     |-> {"opt_out_sms", "opt.out.sms", "unsubscribe_sms", "unsubscribe.sms",
                        "sms.opt_out", "sms_opt_out", "stop"},
   opt_out_email   |-> {"opt_out_email", "opt.out.email", "unsubscribe_email",
                        "unsubscribe.email", "email.opt_out", "email_opt_out",
                        "email.unsubscribe"}]

EventTypeAliases ==
  {LeadNames, MessageNames, EngagementNames, DealNames, WorkflowNames, OptOutNames}

CanonicalTypes == UNION {DOMAIN names : names \in EventTypeAliases}

(* What a name means: the values of its key in the table, at most one.     *)
Meant(name) ==
  UNION {{c \in DOMAIN names : name \in names[c]} : names \in EventTypeAliases}

-----------------------------------------------------------------------------
Converted(conversion, name) == IF name \in DOMAIN conversion THEN conversion[name] ELSE name

(* A name that was cleaned is clean, and stays so without its dots; the    *)
(* canonical names are clean.                                              *)
ASSUME SpellingAssumption ==
  /\ \A n \in DOMAIN Cleaned : Cleaned[n] \notin DOMAIN Cleaned
  /\ \A n \in DOMAIN Undotted : Undotted[n] \notin DOMAIN Undotted
  /\ \A n \in DOMAIN Undotted \ DOMAIN Cleaned : Undotted[n] \notin DOMAIN Cleaned
  /\ CanonicalTypes \cap DOMAIN Cleaned = {}

(* _normalize_event_type.  A dotted name is looked up with its dots only:  *)
(* one that is no alias becomes a name with underscores, which may be one. *)
NormalizeEventType(spelled) ==
  LET name == Converted(Cleaned, spelled) IN
  IF Meant(name) # {} THEN CHOOSE c \in Meant(name) : TRUE ELSE Converted(Undotted, name)

(* LeadWebhookEvent: the payload with its normalised type.                 *)
Validated(body) == [body EXCEPT !.event_type = NormalizeEventType(@)]

=============================================================================

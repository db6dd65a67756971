--------------------------- MODULE LeadEventTypes ---------------------------
(***************************************************************************)
(* The event-type classification of services/webhook_ingest.py: which      *)
(* canonical event types move a contact along the funnel, which counters   *)
(* of campaign_stats and workflow_stats they bump, which carry revenue and *)
(* which concern a message or an opt-out.  Pure definitions, no state.     *)
(***************************************************************************)
LOCAL INSTANCE Naturals

-----------------------------------------------------------------------------
(* What an event type does to its contact's status.                        *)

CONTACT_STATUS_CONVERTED == {"converted", "deal_won", "sale"}
CONTACT_STATUS_ENGAGED   == {"engaged", "email_opened", "clicked", "replied"}
CONTACT_STATUS_CONTACTED == {"contacted", "email_sent", "sms_sent"}
CONTACT_STATUS_NEW       == {"lead_created", "lead_imported"}

(* The funnel.  The values an administrator may give a contact through the *)
(* API lie outside it too: they have no rank.                              *)
STATUS_RANK == [new |-> 0, contacted |-> 1, engaged |-> 2, converted |-> 3]

FunnelStatuses == DOMAIN STATUS_RANK

-----------------------------------------------------------------------------
(* What an event type adds one to: for each counter column, the types.     *)

CampaignColumns == {"total_leads", "contacted_leads", "engaged_leads",
                    "converted_leads"}
WorkflowColumns == {"processed_leads", "success_leads", "failed_leads"}

CountedIn ==
  [total_leads     |-> {"lead_created", "lead_imported"},
   contacted_leads |-> {"contacted", "email_sent", "sms_sent"},
   engaged_leads   |-> {"engaged", "email_opened", "clicked"},
   converted_leads |-> {"converted", "deal_won", "sale"},
   processed_leads |-> {"workflow_processed", "lead_processed", "step_completed"},
   success_leads   |-> {"workflow_success", "converted", "deal_won"},
   failed_leads    |-> {"workflow_failed", "failed", "error"}]

REVENUE_EVENTS == {"deal_won", "converted", "sale"}

-----------------------------------------------------------------------------
(* Messages and opt-outs.                                                  *)

MESSAGE_SEND_EVENTS       == {"sms_sent", "email_sent"}
MESSAGE_DELIVERY_EVENTS   == {"sms_delivered", "email_delivered"}
MESSAGE_ENGAGEMENT_EVENTS == {"email_opened", "clicked", "replied"}
MESSAGE_FAILURE_EVENTS    == {"sms_failed", "email_failed", "email_bounced"}

MESSAGE_RELATED_EVENTS ==
  MESSAGE_SEND_EVENTS \cup MESSAGE_DELIVERY_EVENTS
    \cup MESSAGE_ENGAGEMENT_EVENTS \cup MESSAGE_FAILURE_EVENTS

OPT_OUT_SMS_EVENTS   == {"opt_out_sms", "opt_out_all"}
OPT_OUT_EMAIL_EVENTS == {"opt_out_email", "opt_out_all"}
OPT_OUT_ALL_EVENTS   == OPT_OUT_SMS_EVENTS \cup OPT_OUT_EMAIL_EVENTS

=============================================================================

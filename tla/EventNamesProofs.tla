-------------------------- MODULE EventNamesProofs --------------------------
(***************************************************************************)
(* What the validation of event types makes of them when it runs again, as *)
(* it does on a payload that comes back from the dead-letter queue, proved *)
(* for every spelling and every way of cleaning that keeps clean names as  *)
(* they are, and what that says of EventIngestion's retries.               *)
(***************************************************************************)
EXTENDS EventIngestionProofs, EventNames

-----------------------------------------------------------------------------
(* The table of aliases.                                                   *)

(* Every canonical type is a name of itself.                               *)
LEMMA CanonicalMeansItself ==
  \A names \in EventTypeAliases : \A c \in DOMAIN names : c \in names[c]
<1>1. \A c \in DOMAIN LeadNames : c \in LeadNames[c]
  BY DEF LeadNames
<1>2. \A c \in DOMAIN MessageNames : c \in MessageNames[c]
  BY DEF MessageNames
<1>3. \A c \in DOMAIN EngagementNames : c \in EngagementNames[c]
  BY DEF EngagementNames
<1>4. \A c \in DOMAIN DealNames : c \in DealNames[c]
  BY DEF DealNames
<1>5. \A c \in DOMAIN WorkflowNames : c \in WorkflowNames[c]
  BY DEF WorkflowNames
<1>6. \A c \in DOMAIN OptOutNames : c \in OptOutNames[c]
  BY DEF OptOutNames
<1> QED
  BY <1>1, <1>2, <1>3, <1>4, <1>5, <1>6 DEF EventTypeAliases

(* ... and of no other type.                                               *)
LEMMA CanonicalMeansNothingElse ==
  \A c \in CanonicalTypes, names \in EventTypeAliases :
    \A d \in DOMAIN names : c \in names[d] => d = c
<1> SUFFICES ASSUME NEW c \in CanonicalTypes
             PROVE  \A names \in EventTypeAliases :
                      \A d \in DOMAIN names : c \in names[d] => d = c
  OBVIOUS
<1>0. c \in DOMAIN LeadNames \cup DOMAIN MessageNames \cup DOMAIN EngagementNames
              \cup DOMAIN DealNames \cup DOMAIN WorkflowNames \cup DOMAIN OptOutNames
  BY DEF CanonicalTypes, EventTypeAliases
<1>d. /\ DOMAIN LeadNames = {"lead_created", "lead_imported", "contacted"}
      /\ DOMAIN MessageNames = {"email_sent", "sms_sent", "email_delivered", "sms_delivered",
                                "email_bounced", "sms_failed", "email_failed"}
      /\ DOMAIN EngagementNames = {"engaged", "email_opened", "clicked", "replied"}
      /\ DOMAIN DealNames = {"converted", "deal_won", "sale"}
      /\ DOMAIN WorkflowNames = {"workflow_processed", "lead_processed", "step_completed",
                                 "workflow_success", "workflow_failed", "failed", "error"}
      /\ DOMAIN OptOutNames = {"opt_out_all", "opt_out_sms", "opt_out_email"}
  BY DEF LeadNames, MessageNames, EngagementNames, DealNames, WorkflowNames, OptOutNames
<1>1. \A d \in DOMAIN LeadNames : c \in LeadNames[d] => d = c
  BY <1>0, <1>d DEF LeadNames
<1>2. \A d \in DOMAIN MessageNames : c \in MessageNames[d] => d = c
  BY <1>0, <1>d DEF MessageNames
<1>3. \A d \in DOMAIN EngagementNames : c \in EngagementNames[d] => d = c
  BY <1>0, <1>d DEF EngagementNames
<1>4. \A d \in DOMAIN DealNames : c \in DealNames[d] => d = c
  BY <1>0, <1>d DEF DealNames
<1>5. \A d \in DOMAIN WorkflowNames : c \in WorkflowNames[d] => d = c
  BY <1>0, <1>d DEF WorkflowNames
<1>6. \A d \in DOMAIN OptOutNames : c \in OptOutNames[d] => d = c
  BY <1>0, <1>d DEF OptOutNames
<1> QED
  BY <1>1, <1>2, <1>3, <1>4, <1>5, <1>6 DEF EventTypeAliases

LEMMA MeantOfCanonical == \A c \in CanonicalTypes : Meant(c) = {c}
<1> TAKE c \in CanonicalTypes
<1>1. \E names \in EventTypeAliases : c \in DOMAIN names /\ c \in names[c]
  BY CanonicalMeansItself DEF CanonicalTypes
<1> QED
  BY <1>1, CanonicalMeansNothingElse DEF Meant

LEMMA MeantIsCanonical == \A name : Meant(name) \subseteq CanonicalTypes
BY DEF Meant, CanonicalTypes

-----------------------------------------------------------------------------
(* Validating again.                                                       *)

(* A canonical type, or a name no table knows, without capitals or dots:   *)
(* what validation leaves alone.                                           *)
Settled(name) == NormalizeEventType(name) = name

LEMMA CanonicalIsSettled == \A c \in CanonicalTypes : Settled(c)
<1> TAKE c \in CanonicalTypes
<1>1. Converted(Cleaned, c) = c
  BY SpellingAssumption DEF Converted
<1>2. Meant(c) = {c}
  BY MeantOfCanonical
<1> QED
  BY <1>1, <1>2 DEF Settled, NormalizeEventType

(* One validation yields a canonical type or a name without capitals or    *)
(* dots.                                                                   *)
LEMMA ValidatedOnce ==
  \A spelled : LET name == NormalizeEventType(spelled) IN
    name \in CanonicalTypes \/ name \notin DOMAIN Cleaned \cup DOMAIN Undotted
<1> SUFFICES ASSUME NEW spelled
             PROVE  \/ NormalizeEventType(spelled) \in CanonicalTypes
                    \/ NormalizeEventType(spelled) \notin DOMAIN Cleaned \cup DOMAIN Undotted
  OBVIOUS
<1> DEFINE clean == Converted(Cleaned, spelled)
<1>1. clean \notin DOMAIN Cleaned
  BY SpellingAssumption DEF Converted
<1>2. CASE Meant(clean) # {}
  <2>1. (CHOOSE c \in Meant(clean) : TRUE) \in Meant(clean)
    BY <1>2
  <2> QED
    BY <1>2, <2>1, MeantIsCanonical DEF NormalizeEventType
<1>3. CASE Meant(clean) = {}
  <2>1. NormalizeEventType(spelled) = Converted(Undotted, clean)
    BY <1>3 DEF NormalizeEventType
  <2>2. Converted(Undotted, clean) \notin DOMAIN Cleaned \cup DOMAIN Undotted
    BY <1>1, SpellingAssumption DEF Converted
  <2> QED
    BY <2>1, <2>2
<1> QED
  BY <1>2, <1>3

(* Two validations settle a type, whatever the client spelled: a name with *)
(* a dot that no table knows may become an alias, but an alias leads to a  *)
(* canonical type and a canonical type to itself.  (One does not: see      *)
(* "Lead.Create" in MCLockOrder.)                                          *)
THEOREM TwoValidationsSettle ==
  \A spelled : Settled(NormalizeEventType(NormalizeEventType(spelled)))
<1> SUFFICES ASSUME NEW name, \/ name \in CanonicalTypes
                              \/ name \notin DOMAIN Cleaned \cup DOMAIN Undotted
             PROVE  Settled(NormalizeEventType(name))
  BY ValidatedOnce
<1>1. CASE name \in CanonicalTypes
  <2>1. NormalizeEventType(name) = name
    BY <1>1, CanonicalIsSettled DEF Settled
  <2> QED
    BY <1>1, <2>1, CanonicalIsSettled
<1>2. CASE name \notin DOMAIN Cleaned \cup DOMAIN Undotted
  <2>1. Converted(Cleaned, name) = name /\ Converted(Undotted, name) = name
    BY <1>2 DEF Converted
  <2>2. CASE Meant(name) # {}
    <3>1. (CHOOSE c \in Meant(name) : TRUE) \in Meant(name)
      BY <2>2
    <3>2. NormalizeEventType(name) \in CanonicalTypes
      BY <2>1, <2>2, <3>1, MeantIsCanonical DEF NormalizeEventType
    <3> QED
      BY <3>2, CanonicalIsSettled
  <2>3. CASE Meant(name) = {}
    <3>1. NormalizeEventType(name) = name
      BY <2>1, <2>3 DEF NormalizeEventType
    <3> QED
      BY <3>1 DEF Settled
  <2> QED
    BY <2>2, <2>3
<1> QED
  BY <1>1, <1>2

-----------------------------------------------------------------------------
(* Retries.                                                                *)

(* What EventIngestion leaves open about its constants: the payloads it is *)
(* given have been validated once, and a retry validates its payload again *)
(* (LeadWebhookEvent.model_validate of raw_payload).                       *)
PayloadsAreValidated ==
  /\ \A e \in Events : \E spelled : e.event_type = NormalizeEventType(spelled)
  /\ Reread = [e \in Events |-> Validated(e)]

LEMMA RereadSettles ==
  ASSUME PayloadsAreValidated, NEW e \in Events
  PROVE  Reread[Reread[e]] = Reread[e]
<1> DEFINE f == Reread[e]
<1>1. f \in Events /\ f = Validated(e) /\ Reread[f] = Validated(f)
  BY RereadAssumption DEF PayloadsAreValidated
<1>2. "event_type" \in DOMAIN e /\ f \in EventFields
  BY <1>1, EventsAssumption DEF EventFields
<1>3. PICK spelled : e.event_type = NormalizeEventType(spelled)
  BY DEF PayloadsAreValidated
<1>4. f.event_type = NormalizeEventType(e.event_type)
  BY <1>1, <1>2, Zenon DEF Validated
<1>5. NormalizeEventType(f.event_type) = f.event_type
  BY <1>3, <1>4, TwoValidationsSettle DEF Settled
<1>6. Validated(f) = [f EXCEPT !.event_type = f.event_type]
  BY <1>5 DEF Validated
<1>7. [f EXCEPT !.event_type = f.event_type] = f
  BY <1>2, Zenon DEF EventFields
<1> QED
  BY <1>1, <1>6, <1>7

LEMMA RetriesSettleStep ==
  ASSUME PayloadsAreValidated, TypeOK, RetriesSettle, [Next]_vars
  PROVE  RetriesSettle'
<1> DEFINE Good(s) == s.via = "retry" => Reread[s.event] = s.event
<1>0. \A w \in Workers : Good(sessions[w])
  BY DEF RetriesSettle
<1>1. ASSUME \A w \in Workers : Good(sessions'[w]) PROVE RetriesSettle'
  BY <1>1 DEF RetriesSettle
<1>2. ASSUME NEW w \in Workers, Advance(w) \/ DatabaseError(w)
      PROVE  \A v \in Workers : Good(sessions'[v])
  BY <1>0, <1>2, SessionStep
<1>3. ASSUME NEW w \in Workers, DeliverWebhook(w)
      PROVE  \A v \in Workers : Good(sessions'[v])
  BY <1>0, <1>3 DEF DeliverWebhook, IdleSession, TypeOK
<1>4. ASSUME NEW w \in Workers, RetryFailedEvent(w)
      PROVE  \A v \in Workers : Good(sessions'[v])
  <2>1. PICK fe \in failed_events : sessions' = [sessions EXCEPT ![w] =
          [IdleSession EXCEPT !.pc = "insert", !.via = "retry",
                              !.event = Reread[fe.event], !.fe_id = fe.id]]
    BY <1>4 DEF RetryFailedEvent
  <2>2. fe.event \in Events
    BY DEF TypeOK, FailedEvents
  <2>3. sessions'[w].event = Reread[fe.event]
    BY <2>1 DEF IdleSession, TypeOK
  <2>4. \A v \in Workers : v # w => sessions'[v] = sessions[v]
    BY <2>1 DEF TypeOK
  <2> QED
    BY <1>0, <2>2, <2>3, <2>4, RereadSettles
<1>5. CASE UNCHANGED vars \/ DeleteFailedEvent \/ \E t \in Tenants : DeleteTenant(t)
  BY <1>0, <1>1, <1>5 DEF vars, DeleteFailedEvent, DeleteTenant
<1>6. ASSUME NEW p \in Processes, Crash(p)
      PROVE  \A v \in Workers : Good(sessions'[v])
  BY <1>0, <1>6 DEF Crash, IdleSession
<1> HIDE DEF Good
<1> QED
  BY <1>1, <1>2, <1>3, <1>4, <1>5, <1>6 DEF Next

(* A payload that is retried is of a type that further validations leave   *)
(* alone, whatever spelling its client used: an event cannot change its    *)
(* type, and with it the counters it goes to, from one retry to the next.  *)
THEOREM RetriesAreSettled ==
  ASSUME PayloadsAreValidated
  PROVE  Spec => []RetriesSettle
<1>1. Init => RetriesSettle
  <2> SUFFICES ASSUME Init PROVE RetriesSettle
    OBVIOUS
  <2>1. \A w \in Workers : sessions[w].via = "signed"
    BY DEF Init, IdleSession
  <2> QED
    BY <2>1 DEF RetriesSettle
<1>2. TypeOK /\ RetriesSettle /\ [Next]_vars => RetriesSettle'
  BY RetriesSettleStep
<1> QED
  BY <1>1, <1>2, TypeCorrect, PTL DEF Spec

=============================================================================

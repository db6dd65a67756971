------------------------------ MODULE Contacts ------------------------------
(***************************************************************************)
(* The contacts of one tenant and their message logs: what an event does   *)
(* to them inside the transaction that stores it, and the administrator's  *)
(* endpoints that change them at the same time.                            *)
(*                                                                         *)
(* A session reads rows, works on the objects it read, and at its commit   *)
(* writes the columns whose value it changed and no others (SQLAlchemy's   *)
(* unit of work, autoflush off).  Between the read and the commit every    *)
(* other session may commit.  Only a new contact is written before the     *)
(* commit, in a savepoint, and holds its identity in the unique indexes.   *)
(*                                                                         *)
(* Every query is filtered by tenant, so one tenant is enough.  Names, raw *)
(* phone, tags and the like are coalesced as email is and left out; so are *)
(* the times, except whether opted_out_at is set, and the status and       *)
(* direction of messages.                                                  *)
(***************************************************************************)
EXTENDS Integers, Sequences, FiniteSets, LeadEventTypes

CONSTANTS
  Leads, Emails, Phones,  \* values of the three identities of a contact
  OtherStatuses,          \* what an administrator writes besides the funnel's
  MessageIds,             \* the providers' ids of messages
  Null,
  Bodies,                 \* webhook payloads, each with an event id of its own
  Calls,                  \* the administrator's requests about one contact
  NewContacts, NewLogs,   \* bodies of POST contacts and of POST message-logs
  Retried,                \* the dead letters an administrator retries
  Loops, Threads,         \* the workers that run webhooks, and all others
  MaxRequests             \* bound

Workers == Loops \cup Threads

(* The columns by which a contact is found, in the order they are tried.   *)
IdentityColumns == <<"external_contact_id", "email", "normalized_phone">>
Identities == {IdentityColumns[i] : i \in 1..3}

Flag == [sms |-> "opted_out_sms", email |-> "opted_out_email"]
Channels == DOMAIN Flag

Statuses == FunnelStatuses \cup OtherStatuses

ContactRows ==
  [external_contact_id : Leads \cup {Null}, email : Emails \cup {Null},
   normalized_phone : Phones \cup {Null}, status : Statuses,
   opted_out_sms : BOOLEAN, opted_out_email : BOOLEAN, opted_out_at : BOOLEAN,
   anonymized : BOOLEAN]   \* an anonymization of the contact is committed

Columns == {"external_contact_id", "email", "normalized_phone", "status",
            "opted_out_sms", "opted_out_email", "opted_out_at", "anonymized"}

MessageRows ==
  [id : Nat, contact_id : Nat, provider_message_id : MessageIds \cup {Null},
   body : BOOLEAN]  \* whether body and subject are there

(* The row with the columns of a PATCH body in place of its own.           *)
Overwritten(row, set) == [c \in Columns |-> IF c \in DOMAIN set THEN set[c] ELSE row[c]]

BlankContact ==
  [external_contact_id |-> Null, email |-> Null, normalized_phone |-> Null,
   status |-> "new", opted_out_sms |-> FALSE, opted_out_email |-> FALSE,
   opted_out_at |-> FALSE, anonymized |-> FALSE]

ASSUME BodiesAssumption ==
  /\ Bodies # {} /\ Bodies \cap Calls = {}
  /\ Bodies \subseteq
    [event_type : STRING, external_contact_id : Leads \cup {Null},
     email : Emails \cup {Null}, normalized_phone : Phones \cup {Null},
     provider_message_id : MessageIds \cup {Null}, text : BOOLEAN]

ASSUME CallsAssumption ==
  /\ \A call \in Calls :
       \/ call \in [op : {"opt_out", "opt_in"}, channels : SUBSET Channels \ {{}}]
       \/ call = [op |-> "anonymize"]
       \/ /\ call.op = "patch"
          /\ DOMAIN call.set \subseteq Columns \ {"external_contact_id", "opted_out_at", "anonymized"}
          /\ Overwritten(BlankContact, call.set) \in ContactRows
  /\ NewContacts \subseteq ContactRows
  /\ \A row \in NewContacts :
       ~(row.opted_out_sms \/ row.opted_out_email \/ row.opted_out_at \/ row.anonymized)
  /\ Retried \subseteq Bodies
  /\ NewLogs \subseteq [provider_message_id : MessageIds \cup {Null}, body : BOOLEAN]

ASSUME NullAssumption == Null \notin Statuses  \* the column is NOT NULL

ASSUME WorkersAssumption == Loops \cap Threads = {} /\ MaxRequests \in Nat

-----------------------------------------------------------------------------
(* What an event does to its contact.                                      *)

Coalesce(existing, incoming) == IF incoming # Null THEN incoming ELSE existing

Rank(status) == IF status \in FunnelStatuses THEN STATUS_RANK[status] ELSE -1

(* Variant: the event's own status, wherever the contact is in the funnel. *)
StatusOfEvent(event_type, current) ==
  IF event_type \in CONTACT_STATUS_CONVERTED THEN "converted"
  ELSE IF event_type \in CONTACT_STATUS_ENGAGED THEN "engaged"
  ELSE IF event_type \in CONTACT_STATUS_CONTACTED THEN "contacted"
  ELSE IF current = Null THEN "new" ELSE current

(* _derive_contact_status: forward in the funnel or not at all.            *)
DeriveStatus(event_type, current) ==
  LET now == IF current = Null THEN "new" ELSE current
      candidate == IF event_type \in CONTACT_STATUS_CONVERTED THEN "converted"
                   ELSE IF event_type \in CONTACT_STATUS_ENGAGED THEN "engaged"
                   ELSE IF event_type \in CONTACT_STATUS_CONTACTED THEN "contacted"
                   ELSE now
  IN IF Rank(candidate) >= Rank(now) THEN candidate ELSE now

(* Variant: a contact that has opted out already is left as it is.         *)
OptOutOnce(row, channels) ==
  IF channels = {} \/ row.opted_out_at THEN row
  ELSE [row EXCEPT !.opted_out_sms = "sms" \in channels,
                   !.opted_out_email = "email" \in channels, !.opted_out_at = TRUE]

OptOut(row, channels) ==
  IF channels = {} THEN row
  ELSE [row EXCEPT !.opted_out_sms = @ \/ "sms" \in channels,
                   !.opted_out_email = @ \/ "email" \in channels,
                   !.opted_out_at = TRUE]

OptedOutBy(event_type) ==
  {ch \in Channels : \/ ch = "sms" /\ event_type \in OPT_OUT_SMS_EVENTS
                     \/ ch = "email" /\ event_type \in OPT_OUT_EMAIL_EVENTS}

(* The contact after the event, with the status derived for it.            *)
Upserted(row, b, status) ==
  OptOut([row EXCEPT
            !.external_contact_id = Coalesce(@, b.external_contact_id),
            !.email = Coalesce(@, b.email),
            !.normalized_phone = Coalesce(@, b.normalized_phone),
            !.status = status],
         OptedOutBy(b.event_type))

-----------------------------------------------------------------------------
(* What the administrator's requests do to a contact.                      *)

OptIn(row, channels) ==
  LET sms == row.opted_out_sms /\ "sms" \notin channels
      email == row.opted_out_email /\ "email" \notin channels IN
  [row EXCEPT !.opted_out_sms = sms, !.opted_out_email = email,
              !.opted_out_at = @ /\ (sms \/ email)]

(* Only taking back both opt-outs in one request clears opted_out_at.      *)
Patched(row, set) ==
  LET asks(ch, value) == Flag[ch] \in DOMAIN set /\ set[Flag[ch]] = value
      at == IF \E ch \in Channels : asks(ch, TRUE) THEN TRUE
            ELSE row.opted_out_at /\ ~\A ch \in Channels : asks(ch, FALSE)
  IN [Overwritten(row, set) EXCEPT !.opted_out_at = at]

Anonymized(row) ==
  [BlankContact EXCEPT !.status = row.status, !.anonymized = TRUE,
                       !.opted_out_sms = TRUE, !.opted_out_email = TRUE,
                       !.opted_out_at = TRUE]

Applied(call, row) ==
  CASE call.op = "opt_out"   -> OptOut(row, call.channels)
    [] call.op = "opt_in"    -> OptIn(row, call.channels)
    [] call.op = "patch"     -> Patched(row, call.set)
    [] call.op = "anonymize" -> Anonymized(row)

-----------------------------------------------------------------------------
VARIABLES
  contacts,       \* the contacts table: ids (of the requests that made them)
                  \* to rows
  message_logs,   \* the message_logs table
  opt_outs,       \* contact_opt_out_events, each row <<contact, channel>>
  lead_events,    \* the payloads whose transactions are committed
  failed_events,  \* the payloads in the dead-letter queue
  sessions,       \* what each worker is doing
  requests        \* counter for the bound; numbers the requests

tables == <<contacts, message_logs, opt_outs, lead_events, failed_events>>
vars == <<tables, sessions, requests>>

Sessions ==
  [pc : {"idle", "find", "insert", "log", "scrub", "commit"},
   call : Bodies \cup Calls,
   number : Nat,            \* of the request
   look : 1..3,             \* find: the next identity column to try
   again : BOOLEAN,         \* find: after the insert met a unique index
   derived : Statuses,      \* derived_status
   contact : Nat,           \* the contact's id; 0 when there is none yet
   seen : ContactRows,      \* its attributes as they were loaded
   held : ContactRows,      \* and as the handler has set them
   logs : SUBSET Nat]       \* ids of the message logs that were loaded

TypeOK ==
  /\ DOMAIN contacts \subseteq 1..requests
  /\ \A id \in DOMAIN contacts : contacts[id] \in ContactRows
  /\ message_logs \subseteq MessageRows
  /\ opt_outs \subseteq (DOMAIN contacts) \X Channels
  /\ lead_events \subseteq Bodies
  /\ failed_events \subseteq Bodies
  /\ sessions \in [Workers -> Sessions]
  /\ requests \in 0..MaxRequests

IdleSession ==
  [pc |-> "idle", call |-> CHOOSE b \in Bodies : TRUE, number |-> 0, look |-> 1,
   again |-> FALSE, derived |-> "new", contact |-> 0,
   seen |-> BlankContact, held |-> BlankContact, logs |-> {}]

Init ==
  /\ contacts = << >>
  /\ message_logs = {} /\ opt_outs = {}
  /\ lead_events = {} /\ failed_events = {}
  /\ sessions = [w \in Workers |-> IdleSession]
  /\ requests = 0

Request == requests < MaxRequests /\ requests' = requests + 1

Goto(w, session) == sessions' = [sessions EXCEPT ![w] = session]

(* Variant: the index of the external id only, as before migration 0008.   *)
SameExternalId(row, other) ==
  /\ row.external_contact_id # Null
  /\ row.external_contact_id = other.external_contact_id

(* The unique indexes of the contacts table, NULLs apart.                  *)
SameIdentity(row, other) ==
  \E c \in Identities : row[c] # Null /\ row[c] = other[c]

Conflict(id, row) ==
  \E other \in DOMAIN contacts \ {id} : SameIdentity(row, contacts[other])

(* An insert in an open transaction: not visible yet, but in the indexes.  *)
Pending(v) ==
  /\ sessions[v].call \in Bodies
  /\ sessions[v].pc \in {"log", "commit"}
  /\ sessions[v].contact \notin DOMAIN contacts

InDoubt(others, row) ==
  \E v \in others : Pending(v) /\ SameIdentity(row, sessions[v].held)

-----------------------------------------------------------------------------
(* An event, from the insert of its lead_events row (which lets no other   *)
(* session have the same event) to its commit.                             *)

Begin(w, b) ==
  /\ sessions[w].pc = "idle"
  /\ b \notin lead_events
  /\ \A v \in Workers : sessions[v].pc # "idle" => sessions[v].call # b
  /\ Request
  /\ Goto(w, [IdleSession EXCEPT !.pc = "find", !.call = b, !.number = requests + 1])
  /\ UNCHANGED tables

ReceiveEvent(w) == w \in Loops /\ \E b \in Bodies : Begin(w, b)

RetryEvent(w) == w \in Threads /\ \E b \in failed_events \cap Retried : Begin(w, b)

(* Rollback; a webhook goes to the dead letter, a retry stays there, an    *)
(* administrator gets an error.                                            *)
Fail(w) ==
  /\ failed_events' = failed_events \cup ({sessions[w].call} \cap Bodies)
  /\ Goto(w, IdleSession)
  /\ UNCHANGED <<contacts, message_logs, opt_outs, lead_events, requests>>

DatabaseError(w) == sessions[w].pc # "idle" /\ Fail(w)

(* Variant: every message event gets a log of its own.                     *)
StraightToCommit(b) == "commit"

(* After the contact: the message log is looked for by its provider id.    *)
AfterContact(b) ==
  IF b.event_type \in MESSAGE_RELATED_EVENTS /\ b.provider_message_id # Null
  THEN "log" ELSE "commit"

Found(w) ==
  LET c == IdentityColumns[sessions[w].look]
      value == sessions[w].call[c] IN
  {id \in DOMAIN contacts : value # Null /\ contacts[id][c] = value}

(* One SELECT of _find_existing_contact, and what follows when it finds a  *)
(* contact.  The status was derived the first time the contact was looked  *)
(* for and is not derived again.                                           *)
FindContact(w) ==
  LET s == sessions[w]
      b == s.call IN
  /\ s.pc = "find"
  /\ \E id \in Found(w) :
       LET row == contacts[id]
           status == IF s.again THEN s.derived ELSE DeriveStatus(b.event_type, row.status) IN
       Goto(w, [s EXCEPT !.pc = AfterContact(b), !.contact = id, !.seen = row,
                         !.derived = status, !.held = Upserted(row, b, status)])
  /\ UNCHANGED <<tables, requests>>

FindNext(w) ==
  LET s == sessions[w] IN
  /\ s.pc = "find" /\ Found(w) = {}
  /\ \/ s.look < 3 /\ Goto(w, [s EXCEPT !.look = @ + 1])
     \/ /\ s.look = 3 /\ ~s.again
        /\ Goto(w, [s EXCEPT !.pc = "insert",
                             !.derived = DeriveStatus(s.call.event_type, Null)])
  /\ UNCHANGED <<tables, requests>>

(* `if not contact: raise`: the contact that was in the way has lost the   *)
(* identity since.                                                         *)
FindNothingAgain(w) ==
  LET s == sessions[w] IN
  /\ s.pc = "find" /\ Found(w) = {} /\ s.look = 3 /\ s.again
  /\ Fail(w)

(* Variant: after the unique index only the last identity is looked for.   *)
InsertThenFindLast(w) ==
  LET s == sessions[w]
      row == Upserted(BlankContact, s.call, s.derived) IN
  /\ s.pc = "insert"
  /\ \/ /\ ~Conflict(s.number, row) /\ ~InDoubt(Workers \ {w}, row)
        /\ Goto(w, [s EXCEPT !.pc = AfterContact(s.call), !.contact = s.number,
                             !.held = row])
     \/ /\ Conflict(s.number, row)
        /\ Goto(w, [s EXCEPT !.pc = "find", !.look = 3, !.again = TRUE])
  /\ UNCHANGED <<tables, requests>>

(* The savepoint: the INSERT waits for open inserts of the same identity.  *)
InsertContact(w) ==
  LET s == sessions[w]
      row == Upserted(BlankContact, s.call, s.derived) IN
  /\ s.pc = "insert"
  /\ \/ /\ ~Conflict(s.number, row) /\ ~InDoubt(Workers \ {w}, row)
        /\ Goto(w, [s EXCEPT !.pc = AfterContact(s.call), !.contact = s.number,
                             !.held = row])
     \/ /\ Conflict(s.number, row)
        /\ Goto(w, [s EXCEPT !.pc = "find", !.look = 1, !.again = TRUE])
  /\ UNCHANGED <<tables, requests>>

FindMessageLog(w) ==
  LET s == sessions[w]
      same == {m \in message_logs : m.provider_message_id = s.call.provider_message_id} IN
  /\ s.pc = "log"
  /\ Goto(w, [s EXCEPT !.pc = "commit", !.logs = {m.id : m \in same}])
  /\ UNCHANGED <<tables, requests>>

(* Variant: the whole row is written back.                                 *)
WholeRow(w) == sessions[w].held

(* The UPDATE of a contact: the columns that differ from what was loaded.  *)
Flushed(w) ==
  LET s == sessions[w] IN
  [c \in Columns |-> IF s.held[c] # s.seen[c] THEN s.held[c]
                                               ELSE contacts[s.contact][c]]

(* Variant: the history names the request instead of the contact.          *)
RecordUnderRequest(id, channels) == opt_outs' = opt_outs \cup ({requests} \X channels)

RecordOptOut(id, channels) == opt_outs' = opt_outs \cup ({id} \X channels)

(* db.commit(): what was held back is flushed.  A message log that was     *)
(* found gets a new status only.                                           *)
CommitEvent(w) ==
  LET s == sessions[w]
      b == s.call
      id == s.contact
      row == IF Pending(w) THEN s.held ELSE Flushed(w)
      log == [id |-> s.number, contact_id |-> id,
              provider_message_id |-> b.provider_message_id, body |-> b.text] IN
  /\ s.pc = "commit" /\ b \in Bodies
  /\ Pending(w) \/ (~Conflict(id, row) /\ ~InDoubt(Workers \ {w}, row))
  /\ contacts' = [i \in DOMAIN contacts \cup {id} |-> IF i = id THEN row ELSE contacts[i]]
  /\ message_logs' = IF b.event_type \in MESSAGE_RELATED_EVENTS /\ s.logs = {}
                     THEN message_logs \cup {log} ELSE message_logs
  /\ RecordOptOut(id, OptedOutBy(b.event_type))
  /\ lead_events' = lead_events \cup {b}
  /\ failed_events' = IF w \in Threads THEN failed_events \ {b} ELSE failed_events
  /\ Goto(w, IdleSession)
  /\ UNCHANGED requests

(* The UPDATE would give the contact an identity another contact has.      *)
FlushConflict(w) ==
  /\ sessions[w].pc = "commit"
  /\ ~Pending(w) /\ Conflict(sessions[w].contact, Flushed(w))
  /\ Fail(w)

-----------------------------------------------------------------------------
(* The administrator's endpoints.                                          *)

(* opt_out_contact, opt_in_contact, update_contact and anonymize_contact:  *)
(* the SELECT of the contact and what is done to the object.               *)
ReadContact(w) ==
  /\ w \in Threads /\ sessions[w].pc = "idle"
  /\ Request
  /\ \E call \in Calls, id \in DOMAIN contacts :
       Goto(w, [IdleSession EXCEPT
                  !.pc = IF call.op = "anonymize" THEN "scrub" ELSE "commit",
                  !.call = call, !.number = requests + 1, !.contact = id,
                  !.seen = contacts[id], !.held = Applied(call, contacts[id])])
  /\ UNCHANGED tables

(* anonymize_contact reads the message logs it is going to scrub.          *)
ReadMessageLogs(w) ==
  LET s == sessions[w] IN
  /\ s.pc = "scrub"
  /\ Goto(w, [s EXCEPT !.pc = "commit",
                       !.logs = {m.id : m \in {n \in message_logs : n.contact_id = s.contact}}])
  /\ UNCHANGED <<tables, requests>>

CommitCall(w) ==
  LET s == sessions[w]
      id == s.contact
      row == Flushed(w) IN
  /\ s.pc = "commit" /\ s.call \in Calls
  /\ ~Conflict(id, row) /\ ~InDoubt(Workers \ {w}, row)
  /\ contacts' = [contacts EXCEPT ![id] = row]
  /\ message_logs' = {IF m.id \in s.logs THEN [m EXCEPT !.body = FALSE] ELSE m : m \in message_logs}
  /\ RecordOptOut(id, IF s.call.op = "opt_out" THEN s.call.channels ELSE {})
  /\ Goto(w, IdleSession)
  /\ UNCHANGED <<lead_events, failed_events, requests>>

(* create_contact: an INSERT and its commit.  A conflict is a 409.         *)
CreateContact ==
  /\ Request
  /\ \E row \in NewContacts :
       /\ ~Conflict(requests + 1, row)
       /\ ~InDoubt(Workers, row)
       /\ contacts' = [i \in DOMAIN contacts \cup {requests + 1} |->
                         IF i = requests + 1 THEN row ELSE contacts[i]]
  /\ UNCHANGED <<message_logs, opt_outs, lead_events, failed_events, sessions>>

(* create_message_log: the contact must exist; a provider id that is       *)
(* already logged is not looked for.                                       *)
CreateMessageLog ==
  /\ Request
  /\ \E new \in NewLogs, id \in DOMAIN contacts :
       message_logs' = message_logs \cup
         {[id |-> requests + 1, contact_id |-> id,
           provider_message_id |-> new.provider_message_id, body |-> new.body]}
  /\ UNCHANGED <<contacts, opt_outs, lead_events, failed_events, sessions>>

Next ==
  \/ \E w \in Workers :
       \/ ReceiveEvent(w) \/ RetryEvent(w) \/ DatabaseError(w)
       \/ FindContact(w) \/ FindNext(w) \/ FindNothingAgain(w)
       \/ InsertContact(w) \/ FindMessageLog(w) \/ CommitEvent(w) \/ FlushConflict(w)
       \/ ReadContact(w) \/ ReadMessageLogs(w) \/ CommitCall(w)
  \/ CreateContact \/ CreateMessageLog

Spec == Init /\ [][Next]_vars

-----------------------------------------------------------------------------
(* Properties.                                                             *)

(* No two contacts have the same external id, email or phone, whatever is  *)
(* delivered, retried, patched and erased at the same time: identities are *)
(* merged, never duplicated.                                               *)
IdentitiesUnique ==
  \A i, j \in DOMAIN contacts : i # j =>
    \A c \in Identities : contacts[i][c] = Null \/ contacts[i][c] # contacts[j][c]

(* An event never moves its contact back in the funnel.                    *)
StatusNeverRegresses ==
  [][\A w \in Workers : CommitEvent(w) =>
       \A id \in DOMAIN contacts :
         Rank(contacts'[id].status) >= Rank(contacts[id].status)]_vars

(* An event that moves its contact back in the funnel does not take it     *)
(* behind where it read it: only what was committed in between is undone,  *)
(* by an event with a status of its own.  All bounds are off for one that  *)
(* did not find the contact and met it by the unique index.                *)
StepsBackAreStale ==
  [][\A w \in Workers : CommitEvent(w) =>
       LET s == sessions[w] IN
       \A id \in DOMAIN contacts :
         Rank(contacts'[id].status) < Rank(contacts[id].status) =>
           /\ id = s.contact /\ s.held.status # s.seen.status
           /\ s.again \/ Rank(s.seen.status) <= Rank(contacts'[id].status)]_vars

(* Only an opt-in or a PATCH takes an opt-out back: no event, no erasure   *)
(* and no other request that read the contact before the opt-out does.     *)
OptOutKept ==
  [][\/ \E w \in Workers : CommitCall(w) /\ sessions[w].call.op \in {"opt_in", "patch"}
     \/ \A id \in DOMAIN contacts, ch \in Channels :
          contacts[id][Flag[ch]] => contacts'[id][Flag[ch]]]_vars

(* As long as nobody opts in or patches the flags, a channel is opted out  *)
(* exactly when the history has an opt-out of it or the contact is erased. *)
NoOptInsOffered ==
  \A call \in Calls : /\ call.op # "opt_in"
                      /\ call.op = "patch" => \A ch \in Channels : Flag[ch] \notin DOMAIN call.set
HistoryMatchesFlags ==
  NoOptInsOffered =>
    \A id \in DOMAIN contacts, ch \in Channels :
      contacts[id][Flag[ch]] <=> <<id, ch>> \in opt_outs \/ contacts[id].anonymized

(* When each external id, email and phone belongs to one person and nobody *)
(* is erased, no event fails on the unique indexes, however the first      *)
(* deliveries of a person's events race.                                   *)
OnePersonOneIdentity ==
  /\ \A b \in Bodies : b.external_contact_id # Null
  /\ \A b, c \in Bodies : (\E i \in Identities : b[i] # Null /\ b[i] = c[i]) =>
       /\ b.external_contact_id = c.external_contact_id
       /\ \A i \in Identities : Null \in {b[i], c[i]} \/ b[i] = c[i]
FirstDeliveriesMerge ==
  OnePersonOneIdentity /\ (\A id \in DOMAIN contacts : ~contacts[id].anonymized) =>
    \A w \in Workers : sessions[w].call \in Bodies =>
      /\ sessions[w].pc = "commit" /\ ~Pending(w)
           => ~Conflict(sessions[w].contact, Flushed(w))
      /\ sessions[w].pc = "find" /\ sessions[w].again /\ sessions[w].look = 3
           => Found(w) # {}

(* The events about one message share one message log.                     *)
OneLogPerMessage ==
  \A m, n \in message_logs :
    m.provider_message_id # Null /\ m.provider_message_id = n.provider_message_id => m = n

(* An anonymized contact has no identity left and no text in its message   *)
(* logs.                                                                   *)
AnonymizedHasNoPII ==
  \A id \in DOMAIN contacts : contacts[id].anonymized =>
    /\ \A c \in Identities : contacts[id][c] = Null
    /\ \A m \in message_logs : m.contact_id = id => ~m.body

-----------------------------------------------------------------------------
(* What the administrator may do.                                         *)

(* By hand a contact gets its identities when it is created, if at all.    *)
IdentitiesKeptByHand ==
  \A call \in Calls : call.op = "patch" => DOMAIN call.set \cap Identities = {}

NoIdentitiesByHand == \A row \in NewContacts, c \in Identities : row[c] = Null

-----------------------------------------------------------------------------
(* Why they hold: what an open session knows of the tables.                *)

(* A session that has a request has its number.  One that has a contact    *)
(* has it from the table, except an event that has inserted its own.       *)
SessionInv ==
  \A w \in Workers :
    LET s == sessions[w] IN
    /\ s.pc # "idle" => s.number \in 1..requests
    /\ s.pc \in {"find", "insert", "log"} => s.call \in Bodies
    /\ s.pc = "scrub" => s.call \in Calls
    /\ s.pc \in {"log", "commit"} /\ s.call \in Bodies
         => s.contact \in DOMAIN contacts \cup {s.number}
    /\ s.pc \in {"scrub", "commit"} /\ s.call \in Calls
         => s.contact \in DOMAIN contacts

(* Whatever a session other than an opt-in or a PATCH has set, it has set  *)
(* no opt-out flag to FALSE that it read as TRUE.                          *)
FlagsHeld ==
  \A w \in Workers :
    LET s == sessions[w] IN
    /\ s.pc \in {"find", "insert"} => s.seen = BlankContact
    /\ s.pc \in {"log", "scrub", "commit"} /\ (s.call \in Bodies \/ s.call.op \notin {"opt_in", "patch"})
         => \A ch \in Channels : s.seen[Flag[ch]] => s.held[Flag[ch]]

(* A contact that is inserted and not committed shares no identity with a  *)
(* committed one or with another session's.                                *)
PendingUnique ==
  \A w \in Workers : Pending(w) =>
    /\ \A id \in DOMAIN contacts : ~SameIdentity(sessions[w].held, contacts[id])
    /\ ~InDoubt(Workers \ {w}, sessions[w].held)

(* A session's number is its own, and no contact's before it inserts one.  *)
NumbersInv ==
  /\ \A v, w \in Workers : v # w /\ sessions[v].pc # "idle" /\ sessions[w].pc # "idle" =>
       sessions[v].number # sessions[w].number
  /\ \A w \in Workers : sessions[w].pc \in {"find", "insert"} =>
       sessions[w].number \notin DOMAIN contacts

AtRow(s) == s.pc \in {"log", "scrub", "commit"}

(* The columns that only ever turn TRUE, and what of them a request sets.  *)
MarkColumns == {"opted_out_sms", "opted_out_email", "anonymized"}
Marks == IF NoOptInsOffered THEN MarkColumns ELSE {"anonymized"}

Sets(call) ==
  IF call \in Bodies THEN {Flag[ch] : ch \in OptedOutBy(call.event_type)}
  ELSE CASE call.op = "opt_out" -> {Flag[ch] : ch \in call.channels}
         [] call.op = "anonymize" -> MarkColumns
         [] OTHER -> {}

(* A mark that a session has seen lasts, and it holds those it has seen    *)
(* and those it sets.                                                      *)
MarksLast ==
  \A w \in Workers : LET s == sessions[w] IN AtRow(s) =>
    \A c \in Marks :
      /\ s.seen[c] => s.contact \in DOMAIN contacts /\ contacts[s.contact][c]
      /\ s.held[c] <=> s.seen[c] \/ c \in Sets(s.call)

(* What an event sets as the status of its contact is not behind the one   *)
(* it read, nor is that of a contact it inserts behind a new one's.        *)
AheadOfRead ==
  \A w \in Workers : LET s == sessions[w] IN
    /\ s.pc = "insert" => Rank(s.derived) >= 0
    /\ AtRow(s) /\ s.call \in Bodies /\ ~s.again =>
         Rank(s.held.status) >= Rank(s.seen.status)

(* With one person to an identity: a contact is of the person whose        *)
(* identity it has.                                                        *)
Agrees(row) ==
  \A b \in Bodies : (\E c \in Identities : b[c] # Null /\ b[c] = row[c]) =>
    /\ row.external_contact_id = b.external_contact_id
    /\ \A c \in Identities : Null \in {row[c], b[c]} \/ row[c] = b[c]

NoneErased == \A id \in DOMAIN contacts : ~contacts[id].anonymized

(* The identities a session holds are those it saw, with the event's; a    *)
(* contact that is not there yet was blank.                                *)
IdentitiesHeld ==
  \A w \in Workers : LET s == sessions[w] IN AtRow(s) =>
    /\ s.contact \notin DOMAIN contacts => s.seen = BlankContact
    /\ \A c \in Identities :
         s.held[c] = IF s.call \in Bodies THEN Coalesce(s.seen[c], s.call[c])
                     ELSE IF s.call.op = "anonymize" THEN Null ELSE s.seen[c]

PersonsApart ==
  NoneErased =>
    /\ \A id \in DOMAIN contacts : Agrees(contacts[id])
    /\ \A w \in Workers : LET s == sessions[w] IN s.call \in Bodies =>
         /\ AtRow(s) /\ s.contact \in DOMAIN contacts =>
              contacts[s.contact].external_contact_id = s.call.external_contact_id
         /\ s.pc = "find" /\ s.again =>
              /\ s.look = 1
              /\ \E id \in DOMAIN contacts :
                   contacts[id].external_contact_id = s.call.external_contact_id

=============================================================================

--------------------------- MODULE ContactsProofs ---------------------------
(***************************************************************************)
(* Theorems about Contacts, for any bodies, calls and workers.             *)
(***************************************************************************)
EXTENDS Contacts, TLAPS

-----------------------------------------------------------------------------
(* The types of rows, and what becomes of the opt-out flags.               *)

LEMMA ChannelFlags ==
  ASSUME NEW ch \in Channels
  PROVE  Flag[ch] \in {"opted_out_sms", "opted_out_email"}
BY DEF Channels, Flag

LEMMA FunnelType == {"new", "contacted", "engaged", "converted"} \subseteq Statuses
BY DEF Statuses, FunnelStatuses, STATUS_RANK

LEMMA BlankType == BlankContact \in ContactRows
BY FunnelType DEF BlankContact, ContactRows

LEMMA OptOutType ==
  ASSUME NEW row \in ContactRows, NEW channels
  PROVE  /\ OptOut(row, channels) \in ContactRows
         /\ \A ch \in Channels : row[Flag[ch]] => OptOut(row, channels)[Flag[ch]]
<1>1. OptOut(row, channels) \in ContactRows
  BY DEF OptOut, ContactRows
<1>2. row.opted_out_sms => OptOut(row, channels).opted_out_sms
  BY DEF OptOut, ContactRows
<1>3. row.opted_out_email => OptOut(row, channels).opted_out_email
  BY DEF OptOut, ContactRows
<1> QED
  BY <1>1, <1>2, <1>3, ChannelFlags

LEMMA UpsertedType ==
  ASSUME NEW row \in ContactRows, NEW b \in Bodies, NEW status \in Statuses
  PROVE  /\ Upserted(row, b, status) \in ContactRows
         /\ \A ch \in Channels : row[Flag[ch]] => Upserted(row, b, status)[Flag[ch]]
<1> DEFINE merged == [row EXCEPT
                        !.external_contact_id = Coalesce(@, b.external_contact_id),
                        !.email = Coalesce(@, b.email),
                        !.normalized_phone = Coalesce(@, b.normalized_phone),
                        !.status = status]
<1>1. /\ b.external_contact_id \in Leads \cup {Null}
      /\ b.email \in Emails \cup {Null}
      /\ b.normalized_phone \in Phones \cup {Null}
  BY BodiesAssumption
<1>2. merged \in ContactRows
  BY <1>1 DEF ContactRows, Coalesce
<1>3. /\ merged.opted_out_sms = row.opted_out_sms
      /\ merged.opted_out_email = row.opted_out_email
  BY DEF ContactRows
<1>4. \A ch \in Channels : merged[Flag[ch]] = row[Flag[ch]]
  BY <1>3, ChannelFlags
<1>5. Upserted(row, b, status) = OptOut(merged, OptedOutBy(b.event_type))
  BY DEF Upserted
<1> HIDE DEF merged
<1> QED
  BY <1>2, <1>4, <1>5, OptOutType

LEMMA StatusType ==
  ASSUME NEW event_type, NEW current \in Statuses \cup {Null}
  PROVE  DeriveStatus(event_type, current) \in Statuses
BY FunnelType DEF DeriveStatus

(* A row made of the columns of other rows.                                *)
LEMMA RowType ==
  ASSUME NEW row,
         DOMAIN row = Columns, row = [c \in Columns |-> row[c]],
         row["external_contact_id"] \in Leads \cup {Null},
         row["email"] \in Emails \cup {Null},
         row["normalized_phone"] \in Phones \cup {Null},
         row["status"] \in Statuses, row["opted_out_sms"] \in BOOLEAN,
         row["opted_out_email"] \in BOOLEAN, row["opted_out_at"] \in BOOLEAN,
         row["anonymized"] \in BOOLEAN
  PROVE  row \in ContactRows
BY DEF ContactRows, Columns

LEMMA OverwrittenType ==
  ASSUME NEW row \in ContactRows, NEW set,
         Overwritten(BlankContact, set) \in ContactRows
  PROVE  Overwritten(row, set) \in ContactRows
<1> DEFINE new == Overwritten(row, set)
           other == Overwritten(BlankContact, set)
<1>1. \A c \in Columns : new[c] = other[c] \/ new[c] = row[c]
  BY DEF Overwritten
<1>2. DOMAIN new = Columns /\ new = [c \in Columns |-> new[c]]
  BY DEF Overwritten
<1> HIDE DEF new, other
<1>3. \A r \in ContactRows :
        /\ r["external_contact_id"] \in Leads \cup {Null}
        /\ r["email"] \in Emails \cup {Null}
        /\ r["normalized_phone"] \in Phones \cup {Null}
        /\ r["status"] \in Statuses /\ r["opted_out_sms"] \in BOOLEAN
        /\ r["opted_out_email"] \in BOOLEAN /\ r["opted_out_at"] \in BOOLEAN
        /\ r["anonymized"] \in BOOLEAN
  BY DEF ContactRows
<1>4. other \in ContactRows
  BY DEF other
<1> QED
  BY <1>1, <1>2, <1>3, <1>4, RowType DEF Columns, new

LEMMA AppliedType ==
  ASSUME NEW row \in ContactRows, NEW call \in Calls
  PROVE  /\ Applied(call, row) \in ContactRows
         /\ call.op \in {"opt_in", "patch"} \/
              \A ch \in Channels : row[Flag[ch]] => Applied(call, row)[Flag[ch]]
<1>1. CASE call \in [op : {"opt_out", "opt_in"}, channels : SUBSET Channels \ {{}}]
  <2>1. CASE call.op = "opt_out"
    BY <2>1, OptOutType DEF Applied
  <2>2. CASE call.op = "opt_in"
    <3>1. Applied(call, row) = OptIn(row, call.channels)
      BY <2>2 DEF Applied
    <3>2. OptIn(row, call.channels) \in ContactRows
      BY ZenonT(60) DEF OptIn, ContactRows
    <3> QED
      BY <2>2, <3>1, <3>2
  <2> QED
    BY <1>1, <2>1, <2>2
<1>2. CASE call = [op |-> "anonymize"]
  <2>1. Applied(call, row) = Anonymized(row)
    BY <1>2 DEF Applied
  <2>2. Anonymized(row) \in ContactRows
    BY DEF Anonymized, BlankContact, ContactRows
  <2>3. Anonymized(row).opted_out_sms /\ Anonymized(row).opted_out_email
    BY DEF Anonymized, BlankContact
  <2> QED
    BY <2>1, <2>2, <2>3, ChannelFlags
<1>3. CASE /\ call.op = "patch"
           /\ Overwritten(BlankContact, call.set) \in ContactRows
  <2>1. Applied(call, row) = Patched(row, call.set)
    BY <1>3 DEF Applied
  <2>2. Overwritten(row, call.set) \in ContactRows
    BY <1>3, OverwrittenType
  <2>3. Patched(row, call.set) \in ContactRows
    BY <2>2, ZenonT(60) DEF Patched, ContactRows
  <2> QED
    BY <1>3, <2>1, <2>3
<1> QED
  BY <1>1, <1>2, <1>3, CallsAssumption

LEMMA IdleType == IdleSession \in Sessions
<1>1. (CHOOSE b \in Bodies : TRUE) \in Bodies
  BY BodiesAssumption
<1> QED
  BY <1>1, BlankType, FunnelType DEF IdleSession, Sessions

-----------------------------------------------------------------------------
(* The types of the variables, with what the sessions know.                *)

(* SessionInv and FlagsHeld, of one session.                               *)
Knows(s, n, ids) ==
  /\ s.pc # "idle" => s.number \in 1..n
  /\ s.pc \in {"find", "insert", "log"} => s.call \in Bodies
  /\ s.pc = "scrub" => s.call \in Calls
  /\ s.pc \in {"log", "commit"} /\ s.call \in Bodies => s.contact \in ids \cup {s.number}
  /\ s.pc \in {"scrub", "commit"} /\ s.call \in Calls => s.contact \in ids
  /\ s.pc \in {"find", "insert"} => s.seen = BlankContact
  /\ s.pc \in {"log", "scrub", "commit"} /\ (s.call \in Bodies \/ s.call.op \notin {"opt_in", "patch"})
       => \A ch \in Channels : s.seen[Flag[ch]] => s.held[Flag[ch]]

LEMMA KnowsAll ==
  SessionInv /\ FlagsHeld
    <=> \A w \in Workers : Knows(sessions[w], requests, DOMAIN contacts)
BY DEF SessionInv, FlagsHeld, Knows

LEMMA KnowsIdle == ASSUME NEW n, NEW ids PROVE Knows(IdleSession, n, ids)
BY DEF Knows, IdleSession

(* A session keeps what it knows while the tables grow.                    *)
LEMMA KnowsMore ==
  ASSUME NEW s, NEW n \in Nat, NEW m \in Nat, n <= m, NEW ids, NEW more, ids \subseteq more,
         Knows(s, n, ids)
  PROVE  Knows(s, m, more)
<1>1. 1..n \subseteq 1..m
  OBVIOUS
<1> QED
  BY <1>1 DEF Knows

LEMMA SetSession ==
  ASSUME TypeOK, SessionInv, FlagsHeld, NEW w \in Workers, NEW s \in Sessions, Goto(w, s),
         requests' \in Nat, requests <= requests', DOMAIN contacts \subseteq DOMAIN contacts',
         Knows(s, requests', DOMAIN contacts')
  PROVE  /\ sessions' \in [Workers -> Sessions]
         /\ SessionInv' /\ FlagsHeld'
<1>1. /\ sessions' \in [Workers -> Sessions]
      /\ sessions'[w] = s
      /\ \A v \in Workers : v # w => sessions'[v] = sessions[v]
  BY DEF Goto, TypeOK
<1>2. requests \in Nat
  BY WorkersAssumption DEF TypeOK
<1>3. \A v \in Workers : Knows(sessions'[v], requests', DOMAIN contacts')
  <2> SUFFICES ASSUME NEW v \in Workers PROVE Knows(sessions'[v], requests', DOMAIN contacts')
    OBVIOUS
  <2>1. CASE v = w
    BY <1>1, <2>1
  <2>2. CASE v # w
    <3>1. Knows(sessions[v], requests, DOMAIN contacts)
      BY KnowsAll
    <3> QED
      BY <1>1, <1>2, <2>2, <3>1, KnowsMore
  <2> QED
    BY <2>1, <2>2
<1> QED
  BY <1>1, <1>3 DEF SessionInv, FlagsHeld, Knows

(* The parts of TypeOK that are about the tables.                          *)
LEMMA TablesKept ==
  ASSUME TypeOK, UNCHANGED tables
  PROVE  /\ DOMAIN contacts' = DOMAIN contacts
         /\ \A id \in DOMAIN contacts' : contacts'[id] \in ContactRows
         /\ message_logs' \subseteq MessageRows
         /\ opt_outs' \subseteq (DOMAIN contacts') \X Channels
         /\ lead_events' \subseteq Bodies /\ failed_events' \subseteq Bodies
BY DEF TypeOK, tables

Typed == TypeOK /\ SessionInv /\ FlagsHeld

(* A step that changes a session and no table.                             *)
LEMMA SessionOnly ==
  ASSUME Typed, NEW w \in Workers, NEW s \in Sessions, Goto(w, s), UNCHANGED tables,
         UNCHANGED requests \/ Request, Knows(s, requests', DOMAIN contacts)
  PROVE  Typed'
<1>1. requests \in Nat /\ requests' \in 0..MaxRequests /\ requests' \in Nat /\ requests <= requests'
  BY WorkersAssumption DEF Typed, TypeOK, Request
<1>2. DOMAIN contacts' = DOMAIN contacts /\ 1..requests \subseteq 1..requests'
  BY <1>1 DEF tables
<1>3. sessions' \in [Workers -> Sessions] /\ SessionInv' /\ FlagsHeld'
  BY <1>1, <1>2, SetSession DEF Typed
<1>4. DOMAIN contacts' \subseteq 1..requests'
  BY <1>2 DEF Typed, TypeOK
<1> QED
  BY <1>1, <1>3, <1>4, TablesKept DEF Typed, TypeOK

(* Of a session whose request came in earlier.                             *)
LEMMA SessionType ==
  ASSUME Typed, NEW w \in Workers
  PROVE  /\ sessions[w] \in Sessions
         /\ Knows(sessions[w], requests, DOMAIN contacts)
         /\ requests \in Nat /\ requests \in 0..MaxRequests
BY KnowsAll, WorkersAssumption DEF Typed, TypeOK

LEMMA BeginStep ==
  ASSUME Typed, NEW w \in Workers, NEW b \in Bodies, Begin(w, b)
  PROVE  Typed'
<1> DEFINE s == [IdleSession EXCEPT !.pc = "find", !.call = b, !.number = requests + 1]
<1>1. requests \in Nat /\ requests' = requests + 1
  BY SessionType DEF Begin, Request
<1>2. s \in Sessions
  <2>1. requests + 1 \in Nat /\ b \in Bodies \cup Calls
    BY <1>1
  <2> QED
    BY <2>1, IdleType, ZenonT(30) DEF Sessions
<1>3. s.pc = "find" /\ s.call = b /\ s.number = requests + 1 /\ s.seen = BlankContact
  BY DEF IdleSession
<1>4. Knows(s, requests', DOMAIN contacts)
  BY <1>1, <1>3 DEF Knows
<1>5. Goto(w, s) /\ UNCHANGED tables /\ Request
  BY DEF Begin
<1> HIDE DEF s
<1> QED
  BY <1>2, <1>4, <1>5, SessionOnly

LEMMA FailStep ==
  ASSUME Typed, NEW w \in Workers, Fail(w)
  PROVE  Typed'
<1>1. sessions' \in [Workers -> Sessions] /\ SessionInv' /\ FlagsHeld'
  <2>1. requests' = requests /\ contacts' = contacts /\ Goto(w, IdleSession)
    BY DEF Fail
  <2> QED
    BY <2>1, IdleType, KnowsIdle, SessionType, SetSession DEF Typed
<1> QED
  BY <1>1 DEF Fail, Typed, TypeOK

LEMMA FindContactStep ==
  ASSUME Typed, NEW w \in Workers, FindContact(w)
  PROVE  Typed'
<1> DEFINE s == sessions[w]
           b == s.call
<1>1. PICK id \in Found(w) :
        LET row == contacts[id]
            status == IF s.again THEN s.derived ELSE DeriveStatus(b.event_type, row.status) IN
        Goto(w, [s EXCEPT !.pc = AfterContact(b), !.contact = id, !.seen = row,
                          !.derived = status, !.held = Upserted(row, b, status)])
  BY DEF FindContact
<1> DEFINE row == contacts[id]
           status == IF s.again THEN s.derived ELSE DeriveStatus(b.event_type, row.status)
           r == [s EXCEPT !.pc = AfterContact(b), !.contact = id, !.seen = row,
                          !.derived = status, !.held = Upserted(row, b, status)]
<1>2. id \in DOMAIN contacts /\ row \in ContactRows /\ id \in Nat
  BY DEF Found, Typed, TypeOK
<1>3. b \in Bodies /\ s \in Sessions /\ s.number \in 1..requests
  BY SessionType DEF FindContact, Knows
<1>4. status \in Statuses
  <2>1. row.status \in Statuses /\ s.derived \in Statuses
    BY <1>2, <1>3 DEF ContactRows, Sessions
  <2> QED
    BY <2>1, StatusType
<1>5. AfterContact(b) \in {"log", "commit"}
  BY DEF AfterContact
<1>6. /\ Upserted(row, b, status) \in ContactRows
      /\ \A ch \in Channels : row[Flag[ch]] => Upserted(row, b, status)[Flag[ch]]
  BY <1>2, <1>3, <1>4, UpsertedType
<1> HIDE DEF row, status
<1>7. r \in Sessions
  BY <1>2, <1>3, <1>4, <1>5, <1>6 DEF Sessions
<1>8. /\ r.pc \in {"log", "commit"} /\ r.call = b /\ r.contact = id /\ r.number = s.number
      /\ r.seen = row /\ r.held = Upserted(row, b, status)
  BY <1>3, <1>5 DEF Sessions
<1>9. Goto(w, r) /\ UNCHANGED tables /\ UNCHANGED requests
  BY <1>1 DEF FindContact, row, status
<1> HIDE DEF r, s, b
<1>10. Knows(r, requests', DOMAIN contacts)
  BY <1>2, <1>3, <1>6, <1>8, <1>9, BodiesAssumption DEF Knows
<1> QED
  BY <1>7, <1>9, <1>10, SessionOnly

LEMMA FindNextStep ==
  ASSUME Typed, NEW w \in Workers, FindNext(w)
  PROVE  Typed'
<1> DEFINE s == sessions[w]
<1>0. s \in Sessions /\ s.pc = "find" /\ Knows(s, requests, DOMAIN contacts)
  BY SessionType DEF FindNext
<1>1. CASE s.look < 3 /\ Goto(w, [s EXCEPT !.look = @ + 1])
  <2> DEFINE r == [s EXCEPT !.look = @ + 1]
  <2>1. s.look + 1 \in 1..3
    BY <1>0, <1>1 DEF Sessions
  <2>2. r \in Sessions
    BY <1>0, <2>1, ZenonT(30) DEF Sessions
  <2>3. Knows(r, requests, DOMAIN contacts)
    BY <1>0 DEF Knows, Sessions
  <2> QED
    BY <1>1, <2>2, <2>3, SessionOnly DEF FindNext
<1>2. CASE Goto(w, [s EXCEPT !.pc = "insert", !.derived = DeriveStatus(s.call.event_type, Null)])
  <2> DEFINE d == DeriveStatus(s.call.event_type, Null)
             r == [s EXCEPT !.pc = "insert", !.derived = d]
  <2>1. d \in Statuses
    BY StatusType
  <2> HIDE DEF d
  <2>2. r \in Sessions
    BY <1>0, <2>1 DEF Sessions
  <2>3. Knows(r, requests, DOMAIN contacts)
    BY <1>0 DEF Knows, Sessions
  <2>4. Goto(w, r)
    BY <1>2 DEF d
  <2> QED
    BY <2>2, <2>3, <2>4, SessionOnly DEF FindNext
<1> QED
  BY <1>1, <1>2 DEF FindNext

LEMMA InsertContactStep ==
  ASSUME Typed, NEW w \in Workers, InsertContact(w)
  PROVE  Typed'
<1> DEFINE s == sessions[w]
           row == Upserted(BlankContact, s.call, s.derived)
<1>0. s \in Sessions /\ s.pc = "insert" /\ Knows(s, requests, DOMAIN contacts)
  BY SessionType DEF InsertContact
<1>1. s.call \in Bodies /\ s.seen = BlankContact /\ s.derived \in Statuses /\ s.number \in Nat
  BY <1>0 DEF Knows, Sessions
<1>2. /\ row \in ContactRows
      /\ \A ch \in Channels : BlankContact[Flag[ch]] => row[Flag[ch]]
  BY <1>1, BlankType, UpsertedType
<1>3. CASE Goto(w, [s EXCEPT !.pc = AfterContact(s.call), !.contact = s.number, !.held = row])
  <2> DEFINE r == [s EXCEPT !.pc = AfterContact(s.call), !.contact = s.number, !.held = row]
  <2>1. AfterContact(s.call) \in {"log", "commit"}
    BY DEF AfterContact
  <2> HIDE DEF row
  <2>2. r \in Sessions
    BY <1>0, <1>1, <1>2, <2>1 DEF Sessions
  <2>3. /\ r.pc \in {"log", "commit"} /\ r.call = s.call /\ r.contact = s.number
        /\ r.number = s.number /\ r.seen = BlankContact /\ r.held = row
    BY <1>0, <1>1, <2>1 DEF Sessions
  <2>4. s.number \in 1..requests /\ s.call \notin Calls
    BY <1>0, <1>1, BodiesAssumption DEF Knows
  <2>5. Goto(w, r)
    BY <1>3
  <2> HIDE DEF r
  <2>6. Knows(r, requests, DOMAIN contacts)
    BY <1>1, <1>2, <2>3, <2>4 DEF Knows
  <2> QED
    BY <2>2, <2>5, <2>6, SessionOnly DEF InsertContact
<1>4. CASE Goto(w, [s EXCEPT !.pc = "find", !.look = 1, !.again = TRUE])
  <2> DEFINE r == [s EXCEPT !.pc = "find", !.look = 1, !.again = TRUE]
  <2>1. r \in Sessions
    <3>1. 1 \in 1..3
      OBVIOUS
    <3> QED
      BY <1>0, <3>1, ZenonT(30) DEF Sessions
  <2>2. Knows(r, requests, DOMAIN contacts)
    BY <1>0 DEF Knows, Sessions
  <2> QED
    BY <1>4, <2>1, <2>2, SessionOnly DEF InsertContact
<1> QED
  BY <1>3, <1>4 DEF InsertContact

LEMMA LogIds ==
  ASSUME Typed, NEW S, S \subseteq message_logs
  PROVE  {m.id : m \in S} \in SUBSET Nat
BY DEF Typed, TypeOK, MessageRows

LEMMA FindMessageLogStep ==
  ASSUME Typed, NEW w \in Workers, FindMessageLog(w)
  PROVE  Typed'
<1> DEFINE s == sessions[w]
           same == {m \in message_logs : m.provider_message_id = s.call.provider_message_id}
           ids == {m.id : m \in same}
           r == [s EXCEPT !.pc = "commit", !.logs = ids]
<1>1. s \in Sessions /\ s.pc = "log" /\ Knows(s, requests, DOMAIN contacts)
  BY SessionType DEF FindMessageLog
<1>2. ids \in SUBSET Nat
  BY LogIds
<1>3. Goto(w, r) /\ UNCHANGED tables /\ UNCHANGED requests
  BY DEF FindMessageLog
<1> HIDE DEF ids
<1>4. r \in Sessions
  BY <1>1, <1>2 DEF Sessions
<1>5. s.call \notin Calls
  BY <1>1, BodiesAssumption DEF Knows
<1>6. Knows(r, requests, DOMAIN contacts)
  BY <1>1, <1>5 DEF Knows, Sessions
<1> QED
  BY <1>3, <1>4, <1>6, SessionOnly

LEMMA ReadMessageLogsStep ==
  ASSUME Typed, NEW w \in Workers, ReadMessageLogs(w)
  PROVE  Typed'
<1> DEFINE s == sessions[w]
           ids == {m.id : m \in {n \in message_logs : n.contact_id = s.contact}}
           r == [s EXCEPT !.pc = "commit", !.logs = ids]
<1>1. s \in Sessions /\ s.pc = "scrub" /\ Knows(s, requests, DOMAIN contacts)
  BY SessionType DEF ReadMessageLogs
<1>2. ids \in SUBSET Nat
  BY LogIds
<1>3. Goto(w, r) /\ UNCHANGED tables /\ UNCHANGED requests
  BY DEF ReadMessageLogs
<1> HIDE DEF ids
<1>4. r \in Sessions
  BY <1>1, <1>2 DEF Sessions
<1>5. s.call \notin Bodies
  BY <1>1, BodiesAssumption DEF Knows
<1>6. Knows(r, requests, DOMAIN contacts)
  BY <1>1, <1>5 DEF Knows, Sessions
<1> QED
  BY <1>3, <1>4, <1>6, SessionOnly

LEMMA ReadContactStep ==
  ASSUME Typed, NEW w \in Workers, ReadContact(w)
  PROVE  Typed'
<1>1. PICK call \in Calls, id \in DOMAIN contacts :
        Goto(w, [IdleSession EXCEPT
                   !.pc = IF call.op = "anonymize" THEN "scrub" ELSE "commit",
                   !.call = call, !.number = requests + 1, !.contact = id,
                   !.seen = contacts[id], !.held = Applied(call, contacts[id])])
  BY DEF ReadContact
<1> DEFINE pc == IF call.op = "anonymize" THEN "scrub" ELSE "commit"
           row == Applied(call, contacts[id])
           n == requests + 1
           r == [IdleSession EXCEPT !.pc = pc, !.call = call, !.number = n, !.contact = id,
                                    !.seen = contacts[id], !.held = row]
<1>2. n \in Nat /\ requests' = n /\ n \in 1..n /\ id \in Nat
  BY SessionType DEF ReadContact, Request, Typed, TypeOK
<1>3. contacts[id] \in ContactRows /\ pc \in {"scrub", "commit"} /\ call \notin Bodies
  BY BodiesAssumption DEF Typed, TypeOK
<1>4. /\ row \in ContactRows
      /\ call.op \in {"opt_in", "patch"} \/
           \A ch \in Channels : contacts[id][Flag[ch]] => row[Flag[ch]]
  BY <1>3, AppliedType
<1>5. Goto(w, r) /\ UNCHANGED tables /\ Request
  BY <1>1 DEF ReadContact
<1> HIDE DEF pc, row, n
<1>6. r \in Sessions
  BY <1>2, <1>3, <1>4, IdleType, ZenonT(30) DEF Sessions
<1>7. /\ r.pc \in {"scrub", "commit"} /\ r.call = call /\ r.number = n
      /\ r.contact = id /\ r.seen = contacts[id] /\ r.held = row
  BY <1>3 DEF IdleSession
<1> HIDE DEF r
<1>8. Knows(r, requests', DOMAIN contacts)
  BY <1>2, <1>3, <1>4, <1>7 DEF Knows
<1> QED
  BY <1>5, <1>6, <1>8, SessionOnly

(* What a commit writes: columns of the three rows, each in its place; and *)
(* a flag that was not set back is kept.                                   *)
LEMMA FlushedType ==
  ASSUME Typed, NEW w \in Workers, sessions[w].contact \in DOMAIN contacts
  PROVE  /\ Flushed(w) \in ContactRows
         /\ \A ch \in Channels :
              (sessions[w].seen[Flag[ch]] => sessions[w].held[Flag[ch]])
                => (contacts[sessions[w].contact][Flag[ch]] => Flushed(w)[Flag[ch]])
<1> DEFINE row == Flushed(w)
           now == contacts[sessions[w].contact]
           seen == sessions[w].seen
           held == sessions[w].held
<1>1. now \in ContactRows /\ seen \in ContactRows /\ held \in ContactRows
  BY DEF Typed, TypeOK, Sessions
<1>2. \A c \in Columns : row[c] = IF held[c] # seen[c] THEN held[c] ELSE now[c]
  BY DEF Flushed
<1>3. DOMAIN row = Columns /\ row = [c \in Columns |-> row[c]]
  BY DEF Flushed
<1> HIDE DEF row, now, seen, held
<1>4. \A r \in ContactRows :
        /\ r["external_contact_id"] \in Leads \cup {Null}
        /\ r["email"] \in Emails \cup {Null}
        /\ r["normalized_phone"] \in Phones \cup {Null}
        /\ r["status"] \in Statuses /\ r["opted_out_sms"] \in BOOLEAN
        /\ r["opted_out_email"] \in BOOLEAN /\ r["opted_out_at"] \in BOOLEAN
        /\ r["anonymized"] \in BOOLEAN
  BY DEF ContactRows
<1>5. row \in ContactRows
  BY <1>1, <1>2, <1>3, <1>4, RowType DEF Columns
<1>6. ASSUME NEW ch \in Channels, seen[Flag[ch]] => held[Flag[ch]], now[Flag[ch]]
      PROVE  row[Flag[ch]]
  <2>1. Flag[ch] \in Columns
    BY ChannelFlags DEF Columns
  <2>2. seen[Flag[ch]] \in BOOLEAN /\ held[Flag[ch]] \in BOOLEAN
    BY <1>1, <1>4, ChannelFlags
  <2>3. CASE held[Flag[ch]] # seen[Flag[ch]]
    <3>1. row[Flag[ch]] = held[Flag[ch]]
      BY <1>2, <2>1, <2>3
    <3>2. held[Flag[ch]]
      BY <1>6, <2>2, <2>3
    <3> QED
      BY <3>1, <3>2
  <2>4. CASE held[Flag[ch]] = seen[Flag[ch]]
    <3>1. row[Flag[ch]] = now[Flag[ch]]
      BY <1>2, <2>1, <2>4
    <3> QED
      BY <1>6, <3>1
  <2> QED
    BY <2>3, <2>4
<1> QED
  BY <1>5, <1>6 DEF row, now, seen, held

(* A session ends, whatever tables its commit has written.                 *)
LEMMA EndSession ==
  ASSUME Typed, NEW w \in Workers, Goto(w, IdleSession), UNCHANGED requests,
         DOMAIN contacts \subseteq DOMAIN contacts'
  PROVE  sessions' \in [Workers -> Sessions] /\ SessionInv' /\ FlagsHeld'
<1>1. requests' \in Nat /\ requests <= requests'
  BY SessionType
<1> QED
  BY <1>1, IdleType, KnowsIdle, SetSession DEF Typed

LEMMA CommitEventStep ==
  ASSUME Typed, NEW w \in Workers, CommitEvent(w)
  PROVE  Typed'
<1> DEFINE s == sessions[w]
           b == s.call
           id == s.contact
           row == IF Pending(w) THEN s.held ELSE Flushed(w)
           log == [id |-> s.number, contact_id |-> id,
                   provider_message_id |-> b.provider_message_id, body |-> b.text]
<1>1. /\ s \in Sessions /\ Knows(s, requests, DOMAIN contacts) /\ s.pc = "commit" /\ b \in Bodies
      /\ requests \in Nat
  BY SessionType DEF CommitEvent
<1>2. id \in DOMAIN contacts \cup {s.number} /\ s.number \in 1..requests
  BY <1>1 DEF Knows
<1>3. id \in 1..requests
  BY <1>2 DEF Typed, TypeOK
<1>4. row \in ContactRows
  <2>1. CASE Pending(w)
    BY <1>1, <2>1 DEF Sessions
  <2>2. CASE ~Pending(w)
    <3>1. id \in DOMAIN contacts
      BY <1>1, <2>2 DEF Pending
    <3> QED
      BY <2>2, <3>1, FlushedType
  <2> QED
    BY <2>1, <2>2
<1>5. contacts' = [i \in DOMAIN contacts \cup {id} |-> IF i = id THEN row ELSE contacts[i]]
  BY DEF CommitEvent
<1> HIDE DEF row
<1>6. /\ DOMAIN contacts' = DOMAIN contacts \cup {id}
      /\ \A i \in DOMAIN contacts' : contacts'[i] \in ContactRows
  BY <1>4, <1>5 DEF Typed, TypeOK
<1>7. log \in MessageRows
  BY <1>1, <1>2, <1>3, BodiesAssumption DEF MessageRows
<1>8. message_logs' \subseteq message_logs \cup {log}
  BY DEF CommitEvent
<1> HIDE DEF log
<1>9. message_logs' \subseteq MessageRows
  BY <1>7, <1>8 DEF Typed, TypeOK
<1>10. opt_outs' \subseteq (DOMAIN contacts') \X Channels
  <2>1. opt_outs' = opt_outs \cup ({id} \X OptedOutBy(b.event_type))
    BY DEF CommitEvent, RecordOptOut
  <2>2. OptedOutBy(b.event_type) \subseteq Channels
    BY DEF OptedOutBy
  <2> QED
    BY <1>6, <2>1, <2>2 DEF Typed, TypeOK
<1>11. lead_events' \subseteq Bodies /\ failed_events' \subseteq Bodies
  BY <1>1 DEF CommitEvent, Typed, TypeOK
<1>12. sessions' \in [Workers -> Sessions] /\ SessionInv' /\ FlagsHeld'
  BY <1>6, EndSession DEF CommitEvent
<1>13. DOMAIN contacts' \subseteq 1..requests' /\ requests' \in 0..MaxRequests
  BY <1>3, <1>6 DEF CommitEvent, Typed, TypeOK
<1> QED
  BY <1>6, <1>9, <1>10, <1>11, <1>12, <1>13 DEF Typed, TypeOK

LEMMA CommitCallStep ==
  ASSUME Typed, NEW w \in Workers, CommitCall(w)
  PROVE  Typed'
<1> DEFINE s == sessions[w]
           id == s.contact
           row == Flushed(w)
<1>1. id \in DOMAIN contacts /\ s.call \in Calls
  BY SessionType DEF CommitCall, Knows
<1>2. row \in ContactRows /\ contacts' = [contacts EXCEPT ![id] = row]
  BY <1>1, FlushedType DEF CommitCall
<1> HIDE DEF row
<1>3. /\ DOMAIN contacts' = DOMAIN contacts
      /\ \A i \in DOMAIN contacts' : contacts'[i] \in ContactRows
  BY <1>1, <1>2 DEF Typed, TypeOK
<1>4. message_logs' \subseteq MessageRows
  <2>1. ASSUME NEW m \in message_logs PROVE [m EXCEPT !.body = FALSE] \in MessageRows
    BY DEF Typed, TypeOK, MessageRows
  <2> QED
    BY <2>1 DEF CommitCall, Typed, TypeOK
<1>5. opt_outs' \subseteq (DOMAIN contacts') \X Channels
  <2>1. opt_outs' = opt_outs \cup ({id} \X (IF s.call.op = "opt_out" THEN s.call.channels ELSE {}))
    BY DEF CommitCall, RecordOptOut
  <2>2. s.call.op = "opt_out" => s.call.channels \subseteq Channels
    BY <1>1, CallsAssumption
  <2> QED
    BY <1>1, <1>3, <2>1, <2>2 DEF Typed, TypeOK
<1>6. sessions' \in [Workers -> Sessions] /\ SessionInv' /\ FlagsHeld'
  BY <1>3, EndSession DEF CommitCall
<1> QED
  BY <1>3, <1>4, <1>5, <1>6 DEF CommitCall, Typed, TypeOK

(* The sessions are as they were, the tables have grown.                   *)
LEMMA SessionsGrow ==
  ASSUME Typed, UNCHANGED sessions, requests' \in Nat, requests <= requests',
         DOMAIN contacts \subseteq DOMAIN contacts'
  PROVE  sessions' \in [Workers -> Sessions] /\ SessionInv' /\ FlagsHeld'
<1>1. \A v \in Workers : Knows(sessions[v], requests', DOMAIN contacts')
  BY SessionType, KnowsMore
<1>2. \A v \in Workers : Knows(sessions'[v], requests', DOMAIN contacts')
  BY <1>1
<1> QED
  BY <1>2 DEF Typed, TypeOK, SessionInv, FlagsHeld, Knows

LEMMA CreateContactStep ==
  ASSUME Typed, CreateContact
  PROVE  Typed'
<1> DEFINE n == requests + 1
<1>1. requests \in Nat /\ requests' = n /\ n \in 0..MaxRequests
  BY WorkersAssumption DEF CreateContact, Request, Typed, TypeOK
<1>2. PICK row \in NewContacts :
        contacts' = [i \in DOMAIN contacts \cup {n} |-> IF i = n THEN row ELSE contacts[i]]
  BY DEF CreateContact
<1>3. n \in 1..n /\ 1..requests \subseteq 1..n /\ requests <= n /\ n \in Nat
  BY <1>1
<1> HIDE DEF n
<1>4. row \in ContactRows
  BY CallsAssumption
<1>5. /\ DOMAIN contacts' = DOMAIN contacts \cup {n}
      /\ \A i \in DOMAIN contacts' : contacts'[i] \in ContactRows
  BY <1>2, <1>4 DEF Typed, TypeOK
<1>6. sessions' \in [Workers -> Sessions] /\ SessionInv' /\ FlagsHeld'
  BY <1>1, <1>3, <1>5, SessionsGrow DEF CreateContact
<1>7. DOMAIN contacts' \subseteq 1..requests'
  BY <1>1, <1>3, <1>5 DEF Typed, TypeOK
<1> QED
  BY <1>1, <1>5, <1>6, <1>7 DEF CreateContact, Typed, TypeOK

LEMMA CreateMessageLogStep ==
  ASSUME Typed, CreateMessageLog
  PROVE  Typed'
<1>1. requests \in Nat /\ requests' = requests + 1 /\ requests' \in 0..MaxRequests
  BY WorkersAssumption DEF CreateMessageLog, Request, Typed, TypeOK
<1>2. PICK new \in NewLogs, id \in DOMAIN contacts :
        message_logs' = message_logs \cup
          {[id |-> requests + 1, contact_id |-> id,
            provider_message_id |-> new.provider_message_id, body |-> new.body]}
  BY DEF CreateMessageLog
<1>3. message_logs' \subseteq MessageRows
  <2>1. id \in Nat
    BY DEF Typed, TypeOK
  <2>2. new.provider_message_id \in MessageIds \cup {Null} /\ new.body \in BOOLEAN
    BY CallsAssumption
  <2> QED
    BY <1>1, <1>2, <2>1, <2>2 DEF MessageRows, Typed, TypeOK
<1>4. requests <= requests' /\ requests' \in Nat /\ 1..requests \subseteq 1..requests'
  BY <1>1
<1>5. sessions' \in [Workers -> Sessions] /\ SessionInv' /\ FlagsHeld'
  BY <1>4, SessionsGrow DEF CreateMessageLog
<1>6. DOMAIN contacts' \subseteq 1..requests'
  BY <1>4 DEF CreateMessageLog, Typed, TypeOK
<1> QED
  BY <1>1, <1>3, <1>5, <1>6 DEF CreateMessageLog, Typed, TypeOK

LEMMA InitTyped == Init => Typed
<1> SUFFICES ASSUME Init PROVE Typed
  OBVIOUS
<1>1. \A w \in Workers : sessions[w] = IdleSession
  BY DEF Init
<1>2. SessionInv /\ FlagsHeld
  BY <1>1, KnowsIdle, KnowsAll
<1>3. 0 \in 0..MaxRequests
  BY WorkersAssumption
<1> QED
  BY <1>2, <1>3, IdleType DEF Init, Typed, TypeOK

LEMMA NextTyped == Typed /\ [Next]_vars => Typed'
<1> SUFFICES ASSUME Typed, [Next]_vars PROVE Typed'
  OBVIOUS
<1>1. CASE UNCHANGED vars
  BY <1>1 DEF vars, tables, Typed, TypeOK, SessionInv, FlagsHeld
<1>2. ASSUME NEW w \in Workers, ReceiveEvent(w) \/ RetryEvent(w) PROVE Typed'
  BY <1>2, BeginStep, CallsAssumption DEF ReceiveEvent, RetryEvent
<1>3. ASSUME NEW w \in Workers, DatabaseError(w) \/ FindNothingAgain(w) \/ FlushConflict(w)
      PROVE  Typed'
  BY <1>3, FailStep DEF DatabaseError, FindNothingAgain, FlushConflict
<1> QED
  BY <1>1, <1>2, <1>3, FindContactStep, FindNextStep, InsertContactStep, FindMessageLogStep,
     CommitEventStep, ReadContactStep, ReadMessageLogsStep, CommitCallStep,
     CreateContactStep, CreateMessageLogStep DEF Next

(* Every variable keeps its type, and a session that has a contact has it  *)
(* from the table or is about to insert it.                                *)
THEOREM TypeCorrect == Spec => []TypeOK
<1>1. Typed => TypeOK
  BY DEF Typed
<1> QED
  BY <1>1, InitTyped, NextTyped, PTL DEF Spec

-----------------------------------------------------------------------------
(* Opt-outs.                                                               *)

(* The next request's number is no contact's id yet.                       *)
LEMMA NumberIsNew ==
  ASSUME Typed
  PROVE  requests + 1 \notin DOMAIN contacts
<1>1. requests \in 0..MaxRequests
  BY DEF Typed, TypeOK
<1>2. DOMAIN contacts \subseteq 1..requests
  BY DEF Typed, TypeOK
<1> QED
  BY <1>1, <1>2, WorkersAssumption

LEMMA OptOutStep ==
  ASSUME Typed, [Next]_vars,
         ~\E w \in Workers : CommitCall(w) /\ sessions[w].call.op \in {"opt_in", "patch"},
         NEW id \in DOMAIN contacts, NEW ch \in Channels, contacts[id][Flag[ch]]
  PROVE  contacts'[id][Flag[ch]]
<1>1. CASE contacts' = contacts
  BY <1>1
<1>2. ASSUME NEW w \in Workers, CommitEvent(w), sessions[w].contact = id
      PROVE  contacts'[id][Flag[ch]]
  <2>1. ~Pending(w)
    BY <1>2 DEF Pending
  <2>2. contacts'[id] = Flushed(w)
    BY <1>2, <2>1 DEF CommitEvent
  <2>3. sessions[w].seen[Flag[ch]] => sessions[w].held[Flag[ch]]
    BY <1>2, SessionType DEF CommitEvent, Knows
  <2> QED
    BY <1>2, <2>2, <2>3, FlushedType
<1>3. ASSUME NEW w \in Workers, CommitCall(w), sessions[w].contact = id
      PROVE  contacts'[id][Flag[ch]]
  <2>1. contacts'[id] = Flushed(w)
    BY <1>3 DEF CommitCall, Typed, TypeOK
  <2>2. sessions[w].seen[Flag[ch]] => sessions[w].held[Flag[ch]]
    BY <1>3, SessionType DEF CommitCall, Knows
  <2> QED
    BY <1>3, <2>1, <2>2, FlushedType
<1>4. ASSUME NEW w \in Workers, CommitEvent(w) \/ CommitCall(w), sessions[w].contact # id
      PROVE  contacts'[id] = contacts[id]
  BY <1>4 DEF CommitEvent, CommitCall
<1>5. ASSUME CreateContact PROVE contacts'[id] = contacts[id]
  <2>1. id # requests + 1
    BY NumberIsNew, ZenonT(60)
  <2> QED
    BY <1>5, <2>1 DEF CreateContact
<1>6. ASSUME contacts' # contacts
      PROVE  CreateContact \/ \E w \in Workers : CommitEvent(w) \/ CommitCall(w)
  BY <1>6 DEF Next, vars, tables, ReceiveEvent, RetryEvent, Begin, DatabaseError, Fail,
          FindContact, FindNext, FindNothingAgain, InsertContact, FindMessageLog,
          FlushConflict, ReadContact, ReadMessageLogs, CreateMessageLog
<1> QED
  BY <1>1, <1>2, <1>3, <1>4, <1>5, <1>6

(* Only an opt-in or a PATCH takes an opt-out back, however old the object *)
(* is that another request writes.                                         *)
THEOREM OptOutsAreKept == Spec => OptOutKept
<1>1. ASSUME Typed, [Next]_vars
      PROVE  [\/ \E w \in Workers : CommitCall(w) /\ sessions[w].call.op \in {"opt_in", "patch"}
              \/ \A id \in DOMAIN contacts, ch \in Channels :
                   contacts[id][Flag[ch]] => contacts'[id][Flag[ch]]]_vars
  BY <1>1, OptOutStep
<1> QED
  BY <1>1, InitTyped, NextTyped, PTL DEF Spec, OptOutKept

-----------------------------------------------------------------------------
(* Identities.                                                             *)

LEMMA Symmetric ==
  ASSUME NEW a, NEW b, SameIdentity(a, b)
  PROVE  SameIdentity(b, a)
BY DEF SameIdentity

LEMMA UniqueRows ==
  IdentitiesUnique <=>
    \A i, j \in DOMAIN contacts : i # j => ~SameIdentity(contacts[i], contacts[j])
BY DEF IdentitiesUnique, SameIdentity

(* A row is written that is in no conflict.                                *)
LEMMA WriteRow ==
  ASSUME IdentitiesUnique, NEW id, NEW row, ~Conflict(id, row),
         DOMAIN contacts' = DOMAIN contacts \cup {id}, contacts'[id] = row,
         \A i \in DOMAIN contacts : i # id => contacts'[i] = contacts[i]
  PROVE  IdentitiesUnique'
<1>1. \A i, j \in DOMAIN contacts' : i # j => ~SameIdentity(contacts'[i], contacts'[j])
  <2> SUFFICES ASSUME NEW i \in DOMAIN contacts', NEW j \in DOMAIN contacts', i # j,
                      SameIdentity(contacts'[i], contacts'[j])
      PROVE FALSE
    OBVIOUS
  <2>1. CASE i = id
    <3>1. contacts'[i] = row /\ j \in DOMAIN contacts \ {id} /\ contacts'[j] = contacts[j]
      BY <2>1
    <3> QED
      BY <3>1 DEF Conflict
  <2>2. CASE j = id
    <3>1. contacts'[j] = row /\ i \in DOMAIN contacts \ {id} /\ contacts'[i] = contacts[i]
      BY <2>2
    <3>2. SameIdentity(row, contacts[i])
      BY <3>1, Symmetric
    <3> QED
      BY <3>1, <3>2 DEF Conflict
  <2>3. CASE i # id /\ j # id
    BY <2>3, UniqueRows
  <2> QED
    BY <2>1, <2>2, <2>3
<1> QED
  BY <1>1 DEF IdentitiesUnique, SameIdentity

(* Whoever waits with an inserted contact waited before, with the same one. *)
Waiting ==
  \A v \in Workers : Pending(v)' => Pending(v) /\ sessions'[v].held = sessions[v].held

LEMMA WaitingKept ==
  ASSUME PendingUnique, Waiting,
         \A v \in Workers : Pending(v)' =>
           \A i \in DOMAIN contacts' : ~SameIdentity(sessions[v].held, contacts'[i])
  PROVE  PendingUnique'
<1> SUFFICES ASSUME NEW v \in Workers, Pending(v)'
    PROVE /\ \A i \in DOMAIN contacts' : ~SameIdentity(sessions'[v].held, contacts'[i])
          /\ \A u \in Workers \ {v} : Pending(u)' => ~SameIdentity(sessions'[v].held, sessions'[u].held)
  BY DEF PendingUnique, InDoubt, SameIdentity
<1> QED
  BY DEF PendingUnique, InDoubt, Waiting

(* A step of one session that leaves it with no inserted contact.          *)
LEMMA WaitingAfter ==
  ASSUME Typed, NEW w \in Workers, NEW s, Goto(w, s), DOMAIN contacts \subseteq DOMAIN contacts',
         \/ s.pc \notin {"log", "commit"}
         \/ s.call \notin Bodies
         \/ s.contact \in DOMAIN contacts
  PROVE  Waiting /\ ~Pending(w)'
<1>1. sessions'[w] = s /\ \A v \in Workers : v # w => sessions'[v] = sessions[v]
  BY DEF Goto, Typed, TypeOK
<1> QED
  BY <1>1 DEF Waiting, Pending

LEMMA WriteStep ==
  ASSUME Typed, IdentitiesUnique, PendingUnique, NEW w \in Workers, NEW id, NEW row,
         Goto(w, IdleSession), ~Conflict(id, row), ~InDoubt(Workers \ {w}, row),
         DOMAIN contacts' = DOMAIN contacts \cup {id}, contacts'[id] = row,
         \A i \in DOMAIN contacts : i # id => contacts'[i] = contacts[i]
  PROVE  IdentitiesUnique' /\ PendingUnique'
<1>1. IdentitiesUnique'
  BY WriteRow
<1>2. Waiting /\ ~Pending(w)'
  BY WaitingAfter DEF IdleSession
<1>3. ASSUME NEW v \in Workers, Pending(v)', NEW i \in DOMAIN contacts'
      PROVE  ~SameIdentity(sessions[v].held, contacts'[i])
  <2>1. Pending(v) /\ v \in Workers \ {w}
    BY <1>2, <1>3 DEF Waiting
  <2>2. CASE i = id
    BY <2>1, <2>2, Symmetric DEF InDoubt
  <2>3. CASE i # id
    BY <2>1, <2>3 DEF PendingUnique
  <2> QED
    BY <2>2, <2>3
<1> QED
  BY <1>1, <1>2, <1>3, WaitingKept

(* A worker's step that writes no contact and inserts none.                *)
LEMMA ReadStep ==
  ASSUME Typed, NEW w \in Workers,
         \/ \E b \in Bodies : Begin(w, b)
         \/ Fail(w) \/ FindContact(w) \/ FindNext(w) \/ FindMessageLog(w)
         \/ ReadContact(w) \/ ReadMessageLogs(w)
  PROVE  Waiting /\ contacts' = contacts
<1>0. sessions[w] \in Sessions /\ Knows(sessions[w], requests, DOMAIN contacts)
  BY SessionType
<1>1. CASE \E b \in Bodies : Begin(w, b)
  <2>1. PICK b \in Bodies :
          Goto(w, [IdleSession EXCEPT !.pc = "find", !.call = b, !.number = requests + 1])
    BY <1>1 DEF Begin
  <2>2. contacts' = contacts
    BY <1>1 DEF Begin, tables
  <2> QED
    BY <2>1, <2>2, WaitingAfter DEF IdleSession
<1>2. CASE Fail(w)
  BY <1>2, WaitingAfter DEF Fail, IdleSession
<1>3. CASE FindContact(w)
  <2>1. PICK id \in Found(w) : \E pc, seen, derived, held :
          Goto(w, [sessions[w] EXCEPT !.pc = pc, !.contact = id, !.seen = seen,
                                      !.derived = derived, !.held = held])
    BY <1>3, ZenonT(60) DEF FindContact
  <2>2. PICK pc, seen, derived, held :
          Goto(w, [sessions[w] EXCEPT !.pc = pc, !.contact = id, !.seen = seen,
                                      !.derived = derived, !.held = held])
    BY <2>1
  <2>3. id \in DOMAIN contacts /\ contacts' = contacts
    BY <1>3 DEF FindContact, Found, tables
  <2> DEFINE r == [sessions[w] EXCEPT !.pc = pc, !.contact = id, !.seen = seen,
                                      !.derived = derived, !.held = held]
  <2>4. r.contact = id
    BY <1>0, ZenonT(30) DEF Sessions
  <2>5. Goto(w, r)
    BY <2>2
  <2> HIDE DEF r
  <2> QED
    BY <2>3, <2>4, <2>5, WaitingAfter
<1>4. CASE FindNext(w)
  <2>1. \/ Goto(w, [sessions[w] EXCEPT !.look = @ + 1]) /\ sessions[w].pc = "find"
        \/ \E d : Goto(w, [sessions[w] EXCEPT !.pc = "insert", !.derived = d])
    BY <1>4 DEF FindNext
  <2>2. contacts' = contacts
    BY <1>4 DEF FindNext, tables
  <2>3. CASE Goto(w, [sessions[w] EXCEPT !.look = @ + 1]) /\ sessions[w].pc = "find"
    <3> DEFINE r == [sessions[w] EXCEPT !.look = @ + 1]
    <3>1. r.pc = "find"
      BY <1>0, <2>3 DEF Sessions
    <3>2. Goto(w, r)
      BY <2>3
    <3> HIDE DEF r
    <3> QED
      BY <2>2, <3>1, <3>2, WaitingAfter
  <2>4. ASSUME NEW d, Goto(w, [sessions[w] EXCEPT !.pc = "insert", !.derived = d])
        PROVE  Waiting
    <3> DEFINE r == [sessions[w] EXCEPT !.pc = "insert", !.derived = d]
    <3>1. r.pc = "insert"
      BY <1>0 DEF Sessions
    <3>2. Goto(w, r)
      BY <2>4
    <3> HIDE DEF r
    <3> QED
      BY <2>2, <3>1, <3>2, WaitingAfter
  <2> QED
    BY <2>1, <2>2, <2>3, <2>4
<1>5. CASE FindMessageLog(w)
  <2>1. PICK ids : Goto(w, [sessions[w] EXCEPT !.pc = "commit", !.logs = ids])
    BY <1>5 DEF FindMessageLog
  <2>2. contacts' = contacts /\ sessions[w].pc = "log"
    BY <1>5 DEF FindMessageLog, tables
  <2>3. /\ sessions'[w] = [sessions[w] EXCEPT !.pc = "commit", !.logs = ids]
        /\ \A v \in Workers : v # w => sessions'[v] = sessions[v]
    BY <2>1 DEF Goto, Typed, TypeOK
  <2>4. /\ sessions'[w].call = sessions[w].call /\ sessions'[w].held = sessions[w].held
        /\ sessions'[w].contact = sessions[w].contact
    BY <1>0, <2>3 DEF Sessions
  <2> QED
    BY <2>2, <2>3, <2>4 DEF Waiting, Pending
<1>6. CASE ReadContact(w)
  <2>1. PICK call \in Calls, id \in DOMAIN contacts :
          Goto(w, [IdleSession EXCEPT
                     !.pc = IF call.op = "anonymize" THEN "scrub" ELSE "commit",
                     !.call = call, !.number = requests + 1, !.contact = id,
                     !.seen = contacts[id], !.held = Applied(call, contacts[id])])
    BY <1>6 DEF ReadContact
  <2>2. contacts' = contacts
    BY <1>6 DEF ReadContact, tables
  <2> QED
    BY <2>1, <2>2, WaitingAfter DEF IdleSession
<1>7. CASE ReadMessageLogs(w)
  <2>1. PICK ids : Goto(w, [sessions[w] EXCEPT !.pc = "commit", !.logs = ids])
    BY <1>7 DEF ReadMessageLogs
  <2> DEFINE r == [sessions[w] EXCEPT !.pc = "commit", !.logs = ids]
  <2>2. contacts' = contacts /\ sessions[w].call \in Calls
    BY <1>0, <1>7 DEF ReadMessageLogs, tables, Knows
  <2>3. r.call = sessions[w].call /\ Goto(w, r)
    BY <1>0, <2>1 DEF Sessions
  <2>4. r.call \notin Bodies
    BY <2>2, <2>3, BodiesAssumption
  <2> HIDE DEF r
  <2> QED
    BY <2>2, <2>3, <2>4, WaitingAfter
<1> QED
  BY <1>1, <1>2, <1>3, <1>4, <1>5, <1>6, <1>7

LEMMA InsertStep ==
  ASSUME Typed, PendingUnique, NEW w \in Workers, InsertContact(w)
  PROVE  PendingUnique'
<1> DEFINE s == sessions[w]
           row == Upserted(BlankContact, s.call, s.derived)
<1>0. s \in Sessions /\ s.pc = "insert" /\ contacts' = contacts
  BY SessionType DEF InsertContact, tables
<1>1. CASE /\ ~Conflict(s.number, row) /\ ~InDoubt(Workers \ {w}, row)
           /\ Goto(w, [s EXCEPT !.pc = AfterContact(s.call), !.contact = s.number, !.held = row])
  <2> HIDE DEF row
  <2>1. /\ sessions'[w] = [s EXCEPT !.pc = AfterContact(s.call), !.contact = s.number, !.held = row]
        /\ \A v \in Workers : v # w => sessions'[v] = sessions[v]
    BY <1>1 DEF Goto, Typed, TypeOK
  <2>2. sessions'[w].held = row /\ sessions'[w].contact = s.number
    BY <1>0, <2>1 DEF Sessions
  <2>3. \A v \in Workers : v # w /\ Pending(v)' => Pending(v)
    BY <1>0, <2>1 DEF Pending
  <2>4. Pending(w)' => \A i \in DOMAIN contacts : ~SameIdentity(row, contacts[i])
    BY <1>0, <1>1, <2>2 DEF Pending, Conflict
  <2>5. \A v \in Workers : v # w /\ Pending(v) =>
          ~SameIdentity(row, sessions[v].held) /\ ~SameIdentity(sessions[v].held, row)
    BY <1>1, Symmetric DEF InDoubt
  <2> QED
    BY <1>0, <2>1, <2>2, <2>3, <2>4, <2>5 DEF PendingUnique, InDoubt
<1>2. CASE Goto(w, [s EXCEPT !.pc = "find", !.look = 1, !.again = TRUE])
  <2> DEFINE r == [s EXCEPT !.pc = "find", !.look = 1, !.again = TRUE]
  <2>1. r.pc = "find" /\ Goto(w, r)
    BY <1>0, <1>2 DEF Sessions
  <2> HIDE DEF r
  <2>2. Waiting
    BY <1>0, <2>1, WaitingAfter
  <2> QED
    BY <1>0, <2>2, WaitingKept DEF PendingUnique, Waiting
<1> QED
  BY <1>1, <1>2 DEF InsertContact

LEMMA IdentityStep ==
  ASSUME Typed, IdentitiesUnique, PendingUnique, [Next]_vars
  PROVE  IdentitiesUnique' /\ PendingUnique'
<1>1. ASSUME Waiting, contacts' = contacts
      PROVE  IdentitiesUnique' /\ PendingUnique'
  <2>1. IdentitiesUnique'
    BY <1>1 DEF IdentitiesUnique
  <2>2. \A v \in Workers : Pending(v)' =>
          \A i \in DOMAIN contacts : ~SameIdentity(sessions[v].held, contacts[i])
    BY <1>1 DEF Waiting, PendingUnique
  <2>3. PendingUnique'
    BY <1>1, <2>2, WaitingKept
  <2> QED
    BY <2>1, <2>3
<1>2. ASSUME NEW w \in Workers, InsertContact(w)
      PROVE  IdentitiesUnique' /\ PendingUnique'
  <2>1. contacts' = contacts
    BY <1>2 DEF InsertContact, tables
  <2> QED
    BY <1>2, <2>1, InsertStep DEF IdentitiesUnique
<1>3. ASSUME NEW w \in Workers, CommitEvent(w)
      PROVE  IdentitiesUnique' /\ PendingUnique'
  <2> DEFINE id == sessions[w].contact
             row == IF Pending(w) THEN sessions[w].held ELSE Flushed(w)
  <2>1. Pending(w) \/ (~Conflict(id, row) /\ ~InDoubt(Workers \ {w}, row))
    BY <1>3 DEF CommitEvent
  <2>2. ~Conflict(id, row) /\ ~InDoubt(Workers \ {w}, row)
    BY <2>1 DEF PendingUnique, Conflict
  <2>3. /\ Goto(w, IdleSession)
        /\ contacts' = [i \in DOMAIN contacts \cup {id} |-> IF i = id THEN row ELSE contacts[i]]
    BY <1>3 DEF CommitEvent
  <2> HIDE DEF row
  <2> QED
    BY <2>2, <2>3, WriteStep
<1>4. ASSUME NEW w \in Workers, CommitCall(w)
      PROVE  IdentitiesUnique' /\ PendingUnique'
  <2> DEFINE id == sessions[w].contact
             row == Flushed(w)
  <2>1. /\ ~Conflict(id, row) /\ ~InDoubt(Workers \ {w}, row) /\ Goto(w, IdleSession)
        /\ contacts' = [contacts EXCEPT ![id] = row]
    BY <1>4 DEF CommitCall
  <2>2. id \in DOMAIN contacts
    BY <1>4, SessionType DEF CommitCall, Knows
  <2> HIDE DEF row
  <2> QED
    BY <2>1, <2>2, WriteStep
<1>5. ASSUME CreateContact PROVE IdentitiesUnique' /\ PendingUnique'
  <2> DEFINE id == requests + 1
  <2>1. PICK row \in NewContacts :
          /\ ~Conflict(id, row) /\ ~InDoubt(Workers, row)
          /\ contacts' = [i \in DOMAIN contacts \cup {id} |-> IF i = id THEN row ELSE contacts[i]]
    BY <1>5 DEF CreateContact
  <2>2. IdentitiesUnique'
    BY <2>1, WriteRow
  <2>3. Waiting
    BY <1>5, <2>1 DEF CreateContact, Waiting, Pending
  <2>4. ASSUME NEW v \in Workers, Pending(v)', NEW i \in DOMAIN contacts'
        PROVE  ~SameIdentity(sessions[v].held, contacts'[i])
    <3>1. Pending(v)
      BY <2>3, <2>4 DEF Waiting
    <3>2. CASE i = id
      BY <2>1, <3>1, <3>2, Symmetric DEF InDoubt
    <3>3. CASE i # id
      BY <2>1, <3>1, <3>3 DEF PendingUnique
    <3> QED
      BY <3>2, <3>3
  <2> QED
    BY <2>2, <2>3, <2>4, WaitingKept
<1>6. CASE UNCHANGED vars \/ CreateMessageLog
  BY <1>1, <1>6 DEF vars, tables, CreateMessageLog, Waiting, Pending
<1>7. ASSUME NEW w \in Workers,
             \/ ReceiveEvent(w) \/ RetryEvent(w) \/ DatabaseError(w) \/ FindNothingAgain(w)
             \/ FlushConflict(w) \/ FindContact(w) \/ FindNext(w) \/ FindMessageLog(w)
             \/ ReadContact(w) \/ ReadMessageLogs(w)
      PROVE  IdentitiesUnique' /\ PendingUnique'
  BY <1>1, <1>7, ReadStep, CallsAssumption
     DEF ReceiveEvent, RetryEvent, DatabaseError, FindNothingAgain, FlushConflict
<1> QED
  BY <1>2, <1>3, <1>4, <1>5, <1>6, <1>7 DEF Next

(* No two contacts share an external id, an email or a phone, whatever     *)
(* inserts, merges and PATCHes run at the same time.                       *)
THEOREM IdentitiesStayUnique == Spec => []IdentitiesUnique
<1> DEFINE IInv == Typed /\ IdentitiesUnique /\ PendingUnique
<1>1. Init => IInv
  <2> SUFFICES ASSUME Init PROVE IdentitiesUnique /\ PendingUnique
    BY InitTyped
  <2>1. \A w \in Workers : ~Pending(w)
    BY DEF Init, Pending, IdleSession
  <2> QED
    BY <2>1 DEF Init, IdentitiesUnique, PendingUnique
<1>2. IInv /\ [Next]_vars => IInv'
  BY NextTyped, IdentityStep
<1>3. IInv => IdentitiesUnique
  OBVIOUS
<1> QED
  BY <1>1, <1>2, <1>3, PTL DEF Spec

=============================================================================

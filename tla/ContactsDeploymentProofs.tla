---------------------- MODULE ContactsDeploymentProofs ----------------------
(***************************************************************************)
(* How far an event moves a contact back, and theorems about Contacts for  *)
(* some constants: when nobody opts in, when an identity is one person's.  *)
(***************************************************************************)
EXTENDS ContactsProofs

-----------------------------------------------------------------------------
(* The steps of a session that write no table but the dead letter, by what *)
(* they make of it.                                                        *)

Ends(w) == sessions'[w] = IdleSession

Begins(w) ==
  LET t == sessions'[w] IN
  /\ sessions[w].pc = "idle"
  /\ t.pc = "find" /\ t.call \in Bodies /\ t.look = 1 /\ ~t.again
  /\ t.number = requests + 1 /\ requests' = requests + 1

SameRequest(w) ==
  sessions'[w].call = sessions[w].call /\ sessions'[w].number = sessions[w].number

LooksOn(w) ==
  LET s == sessions[w] t == sessions'[w] IN
  /\ SameRequest(w) /\ Found(w) = {}
  /\ s.pc = "find" /\ s.look < 3
  /\ t.pc = "find" /\ t.look = s.look + 1 /\ t.again = s.again /\ t.derived = s.derived

FindsNone(w) ==
  LET s == sessions[w] t == sessions'[w] IN
  /\ SameRequest(w) /\ Found(w) = {}
  /\ s.pc = "find" /\ s.look = 3 /\ ~s.again
  /\ t.pc = "insert" /\ t.derived = DeriveStatus(s.call.event_type, Null)

Finds(w) ==
  LET s == sessions[w] t == sessions'[w] IN
  /\ SameRequest(w) /\ t.again = s.again /\ t.contact \in Found(w)
  /\ s.pc = "find" /\ t.pc = AfterContact(s.call)
  /\ t.seen = contacts[t.contact]
  /\ t.derived = IF s.again THEN s.derived ELSE DeriveStatus(s.call.event_type, t.seen.status)
  /\ t.held = Upserted(t.seen, s.call, t.derived)

Blank(w) == Upserted(BlankContact, sessions[w].call, sessions[w].derived)

Inserts(w) ==
  LET s == sessions[w] t == sessions'[w] IN
  /\ SameRequest(w)
  /\ s.pc = "insert" /\ t.pc = AfterContact(s.call)
  /\ t.contact = s.number /\ t.seen = BlankContact /\ t.held = Blank(w)

MeetsAnother(w) ==
  LET s == sessions[w] t == sessions'[w] IN
  /\ SameRequest(w) /\ Conflict(s.number, Blank(w))
  /\ s.pc = "insert" /\ t.pc = "find" /\ t.look = 1 /\ t.again /\ t.derived = s.derived

ReadsLogs(w) ==
  LET s == sessions[w] t == sessions'[w] IN
  /\ SameRequest(w) /\ t.again = s.again
  /\ s.pc \in {"log", "scrub"} /\ t.pc = "commit"
  /\ t.contact = s.contact /\ t.seen = s.seen /\ t.held = s.held

ReadsContact(w) ==
  LET t == sessions'[w] IN
  /\ sessions[w].pc = "idle" /\ t.number = requests + 1 /\ requests' = requests + 1
  /\ t.pc \in {"scrub", "commit"} /\ t.call \in Calls
  /\ t.contact \in DOMAIN contacts /\ t.seen = contacts[t.contact]
  /\ t.held = Applied(t.call, t.seen)

Turns(w) ==
  \/ Ends(w) \/ Begins(w) \/ LooksOn(w) \/ FindsNone(w) \/ Finds(w)
  \/ Inserts(w) \/ MeetsAnother(w) \/ ReadsLogs(w) \/ ReadsContact(w)

Alone(w) == \A v \in Workers : v # w => sessions'[v] = sessions[v]

LEMMA GotoAlone ==
  ASSUME Typed, NEW w \in Workers, NEW s, Goto(w, s)
  PROVE  sessions'[w] = s /\ Alone(w)
<1>1. TypeOK
  BY DEF Typed
<1>2. sessions \in [Workers -> Sessions]
  BY <1>1, SMTT(30) DEF TypeOK
<1> QED
  BY <1>2 DEF Goto, Alone

LEMMA SearchTurns ==
  ASSUME Typed, NEW w \in Workers, FindContact(w) \/ FindNext(w) \/ InsertContact(w)
  PROVE  Turns(w) /\ Alone(w) /\ UNCHANGED <<tables, requests>>
<1> DEFINE s == sessions[w]
           t == sessions'[w]
<1>0. s \in Sessions /\ Knows(s, requests, DOMAIN contacts)
  BY SessionType
<1>1. ASSUME FindContact(w) PROVE Finds(w) /\ Alone(w)
  <2>1. PICK id \in Found(w) :
          LET row == contacts[id]
              status == IF s.again THEN s.derived ELSE DeriveStatus(s.call.event_type, row.status) IN
          Goto(w, [s EXCEPT !.pc = AfterContact(s.call), !.contact = id, !.seen = row,
                            !.derived = status, !.held = Upserted(row, s.call, status)])
    BY <1>1 DEF FindContact
  <2> DEFINE row == contacts[id]
             status == IF s.again THEN s.derived ELSE DeriveStatus(s.call.event_type, row.status)
             pc == AfterContact(s.call)
             held == Upserted(row, s.call, status)
  <2>2. /\ t = [s EXCEPT !.pc = pc, !.contact = id, !.seen = row,
                         !.derived = status, !.held = held]
        /\ Alone(w)
    BY <2>1, GotoAlone
  <2> HIDE DEF row, status, pc, held
  <2>3. /\ t.pc = pc /\ t.contact = id /\ t.seen = row /\ t.derived = status /\ t.held = held
        /\ t.call = s.call /\ t.number = s.number /\ t.again = s.again
    BY <1>0, <2>2 DEF Sessions
  <2> QED
    BY <1>1, <2>2, <2>3 DEF FindContact, Finds, SameRequest, row, status, pc, held
<1>2. ASSUME FindNext(w) PROVE (LooksOn(w) \/ FindsNone(w)) /\ Alone(w)
  <2>1. CASE s.look < 3 /\ Goto(w, [s EXCEPT !.look = @ + 1])
    <3>1. t = [s EXCEPT !.look = @ + 1] /\ Alone(w)
      BY <2>1, GotoAlone
    <3>2. t.look = s.look + 1 /\ t.pc = s.pc /\ t.call = s.call /\ t.number = s.number
          /\ t.again = s.again /\ t.derived = s.derived
      BY <1>0, <3>1 DEF Sessions
    <3> QED
      BY <1>2, <2>1, <3>1, <3>2 DEF FindNext, LooksOn, SameRequest
  <2>2. CASE /\ s.look = 3 /\ ~s.again
             /\ Goto(w, [s EXCEPT !.pc = "insert",
                                  !.derived = DeriveStatus(s.call.event_type, Null)])
    <3> DEFINE d == DeriveStatus(s.call.event_type, Null)
    <3>1. t = [s EXCEPT !.pc = "insert", !.derived = d] /\ Alone(w)
      BY <2>2, GotoAlone
    <3> HIDE DEF d
    <3>2. t.pc = "insert" /\ t.derived = d /\ t.call = s.call /\ t.number = s.number
      BY <1>0, <3>1 DEF Sessions
    <3> QED
      BY <1>2, <2>2, <3>1, <3>2 DEF FindNext, FindsNone, SameRequest, d
  <2> QED
    BY <1>2, <2>1, <2>2 DEF FindNext
<1>3. ASSUME InsertContact(w) PROVE (Inserts(w) \/ MeetsAnother(w)) /\ Alone(w)
  <2>0. s.seen = BlankContact /\ s.pc = "insert"
    BY <1>0, <1>3 DEF InsertContact, Knows
  <2>1. CASE Goto(w, [s EXCEPT !.pc = AfterContact(s.call), !.contact = s.number, !.held = Blank(w)])
    <3> DEFINE pc == AfterContact(s.call)
               held == Blank(w)
    <3>1. t = [s EXCEPT !.pc = pc, !.contact = s.number, !.held = held] /\ Alone(w)
      BY <2>1, GotoAlone
    <3> HIDE DEF pc, held
    <3>2. t.pc = pc /\ t.contact = s.number /\ t.held = held /\ t.call = s.call
          /\ t.number = s.number /\ t.seen = s.seen
      BY <1>0, <3>1 DEF Sessions
    <3> QED
      BY <2>0, <3>1, <3>2 DEF Inserts, SameRequest, pc, held
  <2>2. CASE /\ Conflict(s.number, Blank(w))
             /\ Goto(w, [s EXCEPT !.pc = "find", !.look = 1, !.again = TRUE])
    <3>1. t = [s EXCEPT !.pc = "find", !.look = 1, !.again = TRUE] /\ Alone(w)
      BY <2>2, GotoAlone
    <3>2. t.pc = "find" /\ t.look = 1 /\ t.again /\ t.derived = s.derived
          /\ t.call = s.call /\ t.number = s.number
      BY <1>0, <3>1 DEF Sessions
    <3> QED
      BY <2>0, <2>2, <3>1, <3>2 DEF MeetsAnother, SameRequest
  <2> QED
    BY <1>3, <2>1, <2>2 DEF InsertContact, Blank
<1> QED
  BY <1>1, <1>2, <1>3 DEF Turns, FindContact, FindNext, InsertContact

LEMMA OtherTurns ==
  ASSUME Typed, NEW w \in Workers,
         \/ ReceiveEvent(w) \/ RetryEvent(w) \/ DatabaseError(w)
         \/ FindNothingAgain(w) \/ FlushConflict(w)
         \/ FindMessageLog(w) \/ ReadContact(w) \/ ReadMessageLogs(w)
  PROVE  /\ Turns(w) /\ Alone(w) /\ UNCHANGED <<contacts, message_logs, opt_outs>>
         /\ requests' \in {requests, requests + 1}
<1> DEFINE s == sessions[w]
           t == sessions'[w]
<1>0. s \in Sessions /\ Knows(s, requests, DOMAIN contacts)
  BY SessionType
<1>1. ASSUME ReceiveEvent(w) \/ RetryEvent(w)
      PROVE  Begins(w) /\ Alone(w) /\ UNCHANGED tables /\ requests' = requests + 1
  <2>1. PICK b \in Bodies : Begin(w, b)
    BY <1>1, CallsAssumption DEF ReceiveEvent, RetryEvent
  <2>2. /\ t = [IdleSession EXCEPT !.pc = "find", !.call = b, !.number = requests + 1]
        /\ Alone(w)
    BY <2>1, GotoAlone DEF Begin
  <2>3. t.pc = "find" /\ t.call = b /\ t.number = requests + 1 /\ t.look = 1 /\ ~t.again
    BY <2>2 DEF IdleSession
  <2> QED
    BY <2>1, <2>2, <2>3 DEF Begins, Begin, Request
<1>2. ASSUME DatabaseError(w) \/ FindNothingAgain(w) \/ FlushConflict(w)
      PROVE  Ends(w) /\ Alone(w) /\ UNCHANGED <<contacts, message_logs, opt_outs, requests>>
  <2>1. Fail(w)
    BY <1>2 DEF DatabaseError, FindNothingAgain, FlushConflict
  <2>2. t = IdleSession /\ Alone(w)
    BY <2>1, GotoAlone DEF Fail
  <2> QED
    BY <2>1, <2>2 DEF Ends, Fail
<1>3. ASSUME FindMessageLog(w) \/ ReadMessageLogs(w)
      PROVE  ReadsLogs(w) /\ Alone(w) /\ UNCHANGED <<tables, requests>>
  <2>1. PICK ids : /\ Goto(w, [s EXCEPT !.pc = "commit", !.logs = ids])
                   /\ s.pc \in {"log", "scrub"}
    BY <1>3 DEF FindMessageLog, ReadMessageLogs
  <2>2. t = [s EXCEPT !.pc = "commit", !.logs = ids] /\ Alone(w)
    BY <2>1, GotoAlone
  <2>3. /\ t.pc = "commit" /\ t.call = s.call /\ t.number = s.number
        /\ t.contact = s.contact /\ t.seen = s.seen /\ t.held = s.held /\ t.again = s.again
    BY <1>0, <2>2 DEF Sessions
  <2> QED
    BY <1>3, <2>1, <2>2, <2>3
    DEF ReadsLogs, SameRequest, FindMessageLog, ReadMessageLogs
<1>4. ASSUME ReadContact(w)
      PROVE  ReadsContact(w) /\ Alone(w) /\ UNCHANGED tables /\ requests' = requests + 1
  <2>1. PICK call \in Calls, id \in DOMAIN contacts :
          Goto(w, [IdleSession EXCEPT
                     !.pc = IF call.op = "anonymize" THEN "scrub" ELSE "commit",
                     !.call = call, !.number = requests + 1, !.contact = id,
                     !.seen = contacts[id], !.held = Applied(call, contacts[id])])
    BY <1>4 DEF ReadContact
  <2> DEFINE pc == IF call.op = "anonymize" THEN "scrub" ELSE "commit"
             held == Applied(call, contacts[id])
  <2>2. /\ t = [IdleSession EXCEPT !.pc = pc, !.call = call, !.number = requests + 1,
                                   !.contact = id, !.seen = contacts[id], !.held = held]
        /\ Alone(w)
    BY <2>1, GotoAlone
  <2>3. pc \in {"scrub", "commit"}
    OBVIOUS
  <2> HIDE DEF pc, held
  <2>4. /\ t.pc = pc /\ t.call = call /\ t.number = requests + 1 /\ t.contact = id
        /\ t.seen = contacts[id] /\ t.held = held
    BY <2>2 DEF IdleSession
  <2> QED
    BY <1>4, <2>2, <2>3, <2>4 DEF ReadsContact, ReadContact, Request, held
<1> QED
  BY <1>1, <1>2, <1>3, <1>4 DEF Turns, tables

(* Every step is a turn of one session, or a write: a commit or a POST.    *)
Turn(w) ==
  /\ Turns(w) /\ Alone(w) /\ UNCHANGED <<contacts, message_logs, opt_outs>>
  /\ requests' \in {requests, requests + 1}

LEMMA Steps ==
  ASSUME Typed, [Next]_vars
  PROVE  \/ UNCHANGED vars
         \/ \E w \in Workers : Turn(w) \/ CommitEvent(w) \/ CommitCall(w)
         \/ CreateContact \/ CreateMessageLog
<1>1. ASSUME NEW w \in Workers, FindContact(w) \/ FindNext(w) \/ InsertContact(w)
      PROVE  Turn(w)
  <2>1. Turns(w) /\ Alone(w) /\ UNCHANGED <<tables, requests>>
    BY <1>1, SearchTurns
  <2> QED
    BY <2>1 DEF Turn, tables
<1>2. ASSUME NEW w \in Workers,
         \/ ReceiveEvent(w) \/ RetryEvent(w) \/ DatabaseError(w)
         \/ FindNothingAgain(w) \/ FlushConflict(w)
         \/ FindMessageLog(w) \/ ReadContact(w) \/ ReadMessageLogs(w)
      PROVE  Turn(w)
  BY <1>2, OtherTurns DEF Turn
<1> QED
  BY <1>1, <1>2 DEF Next

(* A commit ends its session and writes one row.                           *)
Written(w) ==
  IF Pending(w) THEN sessions[w].held ELSE Flushed(w)

Commits(w) ==
  LET id == sessions[w].contact IN
  /\ sessions[w].pc = "commit" /\ Ends(w) /\ Alone(w) /\ requests' = requests
  /\ DOMAIN contacts' = DOMAIN contacts \cup {id} /\ contacts'[id] = Written(w)
  /\ \A i \in DOMAIN contacts : i # id => contacts'[i] = contacts[i]

LEMMA CommitWrites ==
  ASSUME Typed, NEW w \in Workers, CommitEvent(w) \/ CommitCall(w)
  PROVE  Commits(w)
<1>1. ASSUME CommitEvent(w) PROVE Commits(w)
  <2>1. Ends(w) /\ Alone(w)
    BY <1>1, GotoAlone DEF CommitEvent, Ends
  <2>2. contacts' = [i \in DOMAIN contacts \cup {sessions[w].contact} |->
                       IF i = sessions[w].contact THEN Written(w) ELSE contacts[i]]
    BY <1>1 DEF CommitEvent, Written
  <2> QED
    BY <1>1, <2>1, <2>2 DEF CommitEvent, Commits
<1>2. ASSUME CommitCall(w) PROVE Commits(w)
  <2>1. Ends(w) /\ Alone(w)
    BY <1>2, GotoAlone DEF CommitCall, Ends
  <2>2. sessions[w].contact \in DOMAIN contacts
    BY <1>2, SessionType DEF CommitCall, Knows
  <2>3. Written(w) = Flushed(w)
    BY <2>2 DEF Pending, Written
  <2>4. contacts' = [contacts EXCEPT ![sessions[w].contact] = Written(w)]
    BY <1>2, <2>3 DEF CommitCall
  <2> HIDE DEF Written
  <2> QED
    BY <1>2, <2>1, <2>2, <2>4 DEF CommitCall, Commits
<1> QED
  BY <1>1, <1>2

-----------------------------------------------------------------------------
(* The rows that sessions hold.                                            *)

LEMMA RowsTaken ==
  ASSUME NEW w \in Workers, Turns(w), AtRow(sessions'[w])
  PROVE  Finds(w) \/ Inserts(w) \/ ReadsLogs(w) \/ ReadsContact(w)
BY DEF Turns, AtRow, Ends, IdleSession, Begins, LooksOn, FindsNone, MeetsAnother

LEMMA UpsertedRow ==
  ASSUME NEW row \in ContactRows, NEW b \in Bodies, NEW status
  PROVE  /\ \A c \in MarkColumns : Upserted(row, b, status)[c] <=> row[c] \/ c \in Sets(b)
         /\ \A c \in Identities : Upserted(row, b, status)[c] = Coalesce(row[c], b[c])
         /\ Upserted(row, b, status).status = status
<1> DEFINE channels == OptedOutBy(b.event_type)
           ext == Coalesce(row.external_contact_id, b.external_contact_id)
           email == Coalesce(row.email, b.email)
           phone == Coalesce(row.normalized_phone, b.normalized_phone)
           merged == [row EXCEPT !.external_contact_id = ext, !.email = email,
                                 !.normalized_phone = phone, !.status = status]
           new == Upserted(row, b, status)
<1>1. new = OptOut(merged, channels)
  BY DEF Upserted, ContactRows
<1>2. /\ merged.external_contact_id = ext /\ merged.email = email
      /\ merged.normalized_phone = phone /\ merged.status = status
      /\ merged.opted_out_sms = row.opted_out_sms
      /\ merged.opted_out_email = row.opted_out_email
      /\ merged.anonymized = row.anonymized
      /\ DOMAIN merged = Columns
  BY DEF ContactRows, Columns
<1>3. channels \subseteq Channels
  BY DEF OptedOutBy
<1> HIDE DEF merged, ext, email, phone, channels
<1>4. /\ new.external_contact_id = ext /\ new.email = email
      /\ new.normalized_phone = phone /\ new.status = status
      /\ new.anonymized = row.anonymized
      /\ new.opted_out_sms <=> row.opted_out_sms \/ "sms" \in channels
      /\ new.opted_out_email <=> row.opted_out_email \/ "email" \in channels
  BY <1>1, <1>2 DEF OptOut, Columns
<1>5. Sets(b) = {Flag[ch] : ch \in channels}
  BY DEF Sets, channels
<1>6. /\ "opted_out_sms" \in Sets(b) <=> "sms" \in channels
      /\ "opted_out_email" \in Sets(b) <=> "email" \in channels
      /\ "anonymized" \notin Sets(b)
  BY <1>3, <1>5 DEF Channels, Flag
<1> HIDE DEF new
<1>7. \A c \in MarkColumns : new[c] <=> row[c] \/ c \in Sets(b)
  BY <1>4, <1>6 DEF MarkColumns
<1>8. \A c \in Identities : new[c] = Coalesce(row[c], b[c])
  BY <1>4 DEF Identities, IdentityColumns, ext, email, phone
<1> QED
  BY <1>4, <1>7, <1>8 DEF new

LEMMA AppliedMarks ==
  ASSUME NEW row \in ContactRows, NEW call \in Calls
  PROVE  \A c \in Marks : Applied(call, row)[c] <=> row[c] \/ c \in Sets(call)
<1>0. call \notin Bodies
  BY BodiesAssumption
<1>1. CASE call \in [op : {"opt_out", "opt_in"}, channels : SUBSET Channels \ {{}}]
  <2>1. CASE call.op = "opt_out"
    <3> DEFINE new == OptOut(row, call.channels)
    <3>1. Applied(call, row) = new /\ Sets(call) = {Flag[ch] : ch \in call.channels}
      BY <1>0, <2>1 DEF Applied, Sets
    <3>2. /\ new.anonymized = row.anonymized
          /\ new.opted_out_sms <=> row.opted_out_sms \/ "sms" \in call.channels
          /\ new.opted_out_email <=> row.opted_out_email \/ "email" \in call.channels
      BY DEF OptOut, ContactRows
    <3>3. /\ "opted_out_sms" \in Sets(call) <=> "sms" \in call.channels
          /\ "opted_out_email" \in Sets(call) <=> "email" \in call.channels
          /\ "anonymized" \notin Sets(call)
      BY <1>1, <3>1 DEF Channels, Flag
    <3> HIDE DEF new
    <3> QED
      BY <3>1, <3>2, <3>3 DEF Marks, MarkColumns
  <2>2. CASE call.op = "opt_in"
    <3>1. Marks = {"anonymized"}
      BY <2>2 DEF Marks, NoOptInsOffered
    <3>2. Applied(call, row) = OptIn(row, call.channels) /\ Sets(call) = {}
      BY <1>0, <2>2 DEF Applied, Sets
    <3>3. OptIn(row, call.channels).anonymized = row.anonymized
      BY DEF OptIn, ContactRows
    <3> QED
      BY <3>1, <3>2, <3>3
  <2> QED
    BY <1>1, <2>1, <2>2
<1>2. CASE call = [op |-> "anonymize"]
  <2>1. Applied(call, row) = Anonymized(row) /\ Sets(call) = MarkColumns
    BY <1>0, <1>2 DEF Applied, Sets
  <2>2. /\ Anonymized(row).opted_out_sms /\ Anonymized(row).opted_out_email
        /\ Anonymized(row).anonymized
    BY DEF Anonymized, BlankContact
  <2> QED
    BY <2>1, <2>2 DEF Marks, MarkColumns
<1>3. CASE /\ call.op = "patch"
           /\ DOMAIN call.set \subseteq Columns \ {"external_contact_id", "opted_out_at", "anonymized"}
  <2> DEFINE new == Overwritten(row, call.set)
  <2>1. Applied(call, row) = Patched(row, call.set) /\ Sets(call) = {}
    BY <1>0, <1>3 DEF Applied, Sets
  <2>2. \A c \in MarkColumns : Patched(row, call.set)[c] = new[c]
    BY DEF Patched, Overwritten, MarkColumns, Columns
  <2>3. \A c \in Marks : c \in MarkColumns /\ c \in Columns /\ c \notin DOMAIN call.set
    <3>1. CASE NoOptInsOffered
      <4>1. "opted_out_sms" \notin DOMAIN call.set /\ "opted_out_email" \notin DOMAIN call.set
        BY <1>3, <3>1 DEF NoOptInsOffered, Channels, Flag
      <4> QED
        BY <1>3, <4>1 DEF Marks, MarkColumns, Columns
    <3>2. CASE ~NoOptInsOffered
      BY <1>3, <3>2 DEF Marks, MarkColumns, Columns
    <3> QED
      BY <3>1, <3>2
  <2>4. \A c \in Marks : new[c] = row[c]
    BY <2>3 DEF Overwritten
  <2> QED
    BY <2>1, <2>2, <2>3, <2>4
<1> QED
  BY <1>1, <1>2, <1>3, CallsAssumption

-----------------------------------------------------------------------------
(* Marks: what sessions know of the flags, and what they write.            *)

LEMMA MarkTypes ==
  ASSUME NEW row \in ContactRows, NEW c \in Marks
  PROVE  row[c] \in BOOLEAN /\ c \in Columns
BY DEF Marks, MarkColumns, ContactRows, Columns

LEMMA WrittenColumns ==
  ASSUME NEW w \in Workers, sessions[w].contact \in DOMAIN contacts
  PROVE  LET s == sessions[w] IN
         \A c \in Columns :
           Written(w)[c] = IF s.held[c] # s.seen[c] THEN s.held[c] ELSE contacts[s.contact][c]
BY DEF Written, Pending, Flushed

LEMMA WrittenPending ==
  ASSUME Typed, NEW w \in Workers, Commits(w), sessions[w].contact \notin DOMAIN contacts
  PROVE  /\ Written(w) = sessions[w].held /\ sessions[w].call \in Bodies
         /\ sessions[w].contact = sessions[w].number
<1>1. sessions[w].pc = "commit" /\ Knows(sessions[w], requests, DOMAIN contacts)
  BY SessionType DEF Commits
<1>2. sessions[w].call \in Bodies
  BY <1>1, SessionType DEF Knows, Sessions
<1> QED
  BY <1>1, <1>2 DEF Written, Pending, Knows

LEMMA MarkWritten ==
  ASSUME Typed, MarksLast, NEW w \in Workers, Commits(w), NEW c \in Marks
  PROVE  LET s == sessions[w] IN
         Written(w)[c] <=> \/ s.contact \in DOMAIN contacts /\ contacts[s.contact][c]
                           \/ c \in Sets(s.call)
<1> DEFINE s == sessions[w]
<1>1. /\ s.seen[c] => s.contact \in DOMAIN contacts /\ contacts[s.contact][c]
      /\ s.held[c] <=> s.seen[c] \/ c \in Sets(s.call)
  BY DEF MarksLast, Commits, AtRow
<1>2. s.seen \in ContactRows /\ s.held \in ContactRows
  BY SessionType DEF Sessions
<1>3. s.seen[c] \in BOOLEAN /\ s.held[c] \in BOOLEAN /\ c \in Columns
  BY <1>2, MarkTypes
<1>4. CASE s.contact \in DOMAIN contacts
  <2>1. contacts[s.contact][c] \in BOOLEAN
    BY <1>4, MarkTypes DEF Typed, TypeOK
  <2>2. CASE s.held[c] # s.seen[c]
    <3>1. Written(w)[c] = s.held[c]
      BY <1>3, <1>4, <2>2, WrittenColumns
    <3> QED
      BY <1>1, <1>3, <2>1, <2>2, <3>1
  <2>3. CASE s.held[c] = s.seen[c]
    <3>1. Written(w)[c] = contacts[s.contact][c]
      BY <1>3, <1>4, <2>3, WrittenColumns
    <3> QED
      BY <1>1, <1>3, <1>4, <2>1, <2>3, <3>1
  <2> QED
    BY <2>2, <2>3
<1>5. CASE s.contact \notin DOMAIN contacts
  <2>1. Written(w)[c] = s.held[c]
    BY <1>5, WrittenPending
  <2> QED
    BY <1>1, <1>5, <2>1
<1> QED
  BY <1>4, <1>5

(* A contact once there stays, with its marks.                             *)
Lasting ==
  \A id \in DOMAIN contacts :
    /\ id \in DOMAIN contacts'
    /\ \A c \in Marks : contacts[id][c] => contacts'[id][c]

LEMMA MarksKept ==
  ASSUME MarksLast, Lasting,
         \A v \in Workers : sessions'[v] = sessions[v] \/ ~AtRow(sessions'[v])
  PROVE  MarksLast'
<1> SUFFICES ASSUME NEW v \in Workers, AtRow(sessions'[v]), NEW c \in Marks
    PROVE LET s == sessions'[v] IN
          /\ s.seen[c] => s.contact \in DOMAIN contacts' /\ contacts'[s.contact][c]
          /\ s.held[c] <=> s.seen[c] \/ c \in Sets(s.call)
  BY DEF MarksLast, AtRow
<1>1. sessions'[v] = sessions[v]
  OBVIOUS
<1> QED
  BY <1>1 DEF MarksLast, Lasting

LEMMA MarksTaken ==
  ASSUME Typed, MarksLast, NEW w \in Workers, Turn(w)
  PROVE  MarksLast'
<1> DEFINE s == sessions[w]
           t == sessions'[w]
<1>0. contacts' = contacts /\ \A v \in Workers : v # w => sessions'[v] = sessions[v]
  BY DEF Turn, Alone
<1>1. SUFFICES ASSUME AtRow(t), NEW c \in Marks
               PROVE  /\ t.seen[c] => t.contact \in DOMAIN contacts /\ contacts[t.contact][c]
                      /\ t.held[c] <=> t.seen[c] \/ c \in Sets(t.call)
  BY <1>0 DEF MarksLast, AtRow
<1>2. c \in MarkColumns
  BY DEF Marks, MarkColumns
<1>3. CASE Finds(w)
  <2>1. t.contact \in DOMAIN contacts /\ t.seen = contacts[t.contact] /\ t.seen \in ContactRows
    BY <1>3 DEF Finds, Found, Typed, TypeOK
  <2>2. t.call = s.call /\ s.call \in Bodies /\ t.held = Upserted(t.seen, s.call, t.derived)
    BY <1>3, SessionType DEF Finds, SameRequest, Knows
  <2> QED
    BY <1>2, <2>1, <2>2, UpsertedRow
<1>4. CASE Inserts(w)
  <2>1. t.seen = BlankContact /\ ~BlankContact[c]
    BY <1>2, <1>4 DEF Inserts, BlankContact, MarkColumns
  <2>2. t.call = s.call /\ s.call \in Bodies /\ t.held = Upserted(BlankContact, s.call, s.derived)
    BY <1>4, SessionType DEF Inserts, SameRequest, Knows, Blank
  <2> QED
    BY <1>2, <2>1, <2>2, BlankType, UpsertedRow
<1>5. CASE ReadsLogs(w)
  <2>1. /\ t.seen = s.seen /\ t.held = s.held /\ t.contact = s.contact /\ t.call = s.call
        /\ AtRow(s)
    BY <1>5 DEF ReadsLogs, SameRequest, AtRow
  <2> QED
    BY <2>1 DEF MarksLast
<1>6. CASE ReadsContact(w)
  <2>1. /\ t.contact \in DOMAIN contacts /\ t.seen = contacts[t.contact] /\ t.seen \in ContactRows
        /\ t.call \in Calls /\ t.held = Applied(t.call, t.seen)
    BY <1>6 DEF ReadsContact, Typed, TypeOK
  <2> QED
    BY <2>1, AppliedMarks
<1> QED
  BY <1>1, <1>3, <1>4, <1>5, <1>6, RowsTaken DEF Turn

LEMMA MarksStep ==
  ASSUME Typed, MarksLast, [Next]_vars
  PROVE  MarksLast' /\ Lasting
<1>1. ASSUME UNCHANGED <<contacts, sessions>> PROVE MarksLast' /\ Lasting
  BY <1>1, MarksKept DEF Lasting
<1>2. ASSUME NEW w \in Workers, Turn(w) PROVE MarksLast' /\ Lasting
  BY <1>2, MarksTaken DEF Turn, Lasting
<1>3. ASSUME NEW w \in Workers, Commits(w) PROVE MarksLast' /\ Lasting
  <2>1. Lasting
    <3> SUFFICES ASSUME NEW id \in DOMAIN contacts
        PROVE id \in DOMAIN contacts' /\ \A c \in Marks : contacts[id][c] => contacts'[id][c]
      BY DEF Lasting
    <3>1. CASE id = sessions[w].contact
      BY <1>3, <3>1, MarkWritten DEF Commits
    <3>2. CASE id # sessions[w].contact
      BY <1>3, <3>2 DEF Commits
    <3> QED
      BY <3>1, <3>2
  <2>2. \A v \in Workers : sessions'[v] = sessions[v] \/ ~AtRow(sessions'[v])
    BY <1>3 DEF Commits, Alone, Ends, IdleSession, AtRow
  <2> QED
    BY <2>1, <2>2, MarksKept
<1>4. ASSUME CreateContact PROVE MarksLast' /\ Lasting
  <2>1. Lasting
    BY <1>4, NumberIsNew DEF CreateContact, Lasting
  <2> QED
    BY <1>4, <2>1, MarksKept DEF CreateContact
<1> QED
  BY <1>1, <1>2, <1>3, <1>4, Steps, CommitWrites DEF vars, tables, CreateMessageLog

LEMMA InitMarks == Init => MarksLast
BY DEF Init, MarksLast, IdleSession, AtRow

-----------------------------------------------------------------------------
(* The history of opt-outs.                                                *)

(* What the commit of a request adds to the history of its contact.        *)
Recorded(call) ==
  IF call \in Bodies THEN OptedOutBy(call.event_type)
  ELSE IF call.op = "opt_out" THEN call.channels ELSE {}

LEMMA RecordedChannels ==
  ASSUME NEW call \in Bodies \cup Calls, NEW ch \in Channels
  PROVE  Flag[ch] \in Sets(call) <=> ch \in Recorded(call) \/ "anonymized" \in Sets(call)
<1>1. /\ \A chs : chs \subseteq Channels =>
           (Flag[ch] \in {Flag[x] : x \in chs} <=> ch \in chs)
      /\ \A chs : chs \subseteq Channels => "anonymized" \notin {Flag[x] : x \in chs}
      /\ Flag[ch] \in MarkColumns
  BY DEF Channels, Flag, MarkColumns
<1>2. CASE call \in Bodies
  <2>1. OptedOutBy(call.event_type) \subseteq Channels
    BY DEF OptedOutBy
  <2> QED
    BY <1>1, <1>2, <2>1 DEF Sets, Recorded
<1>3. CASE call \notin Bodies /\ call.op = "opt_out"
  <2>1. call.channels \subseteq Channels
    BY <1>3, CallsAssumption
  <2>2. Sets(call) = {Flag[x] : x \in call.channels} /\ Recorded(call) = call.channels
    BY <1>3 DEF Sets, Recorded
  <2> QED
    BY <1>1, <2>1, <2>2
<1>4. CASE call \notin Bodies /\ call.op = "anonymize"
  <2>1. Sets(call) = MarkColumns
    BY <1>4 DEF Sets
  <2> QED
    BY <1>1, <2>1 DEF MarkColumns
<1>5. CASE call \notin Bodies /\ call.op \notin {"opt_out", "anonymize"}
  BY <1>5 DEF Sets, Recorded
<1> QED
  BY <1>2, <1>3, <1>4, <1>5

LEMMA CommitRecords ==
  ASSUME NEW w \in Workers, CommitEvent(w) \/ CommitCall(w)
  PROVE  opt_outs' = opt_outs \cup ({sessions[w].contact} \X Recorded(sessions[w].call))
<1>1. ASSUME CommitCall(w) PROVE sessions[w].call \notin Bodies
  BY <1>1, BodiesAssumption DEF CommitCall
<1> QED
  BY <1>1 DEF CommitEvent, CommitCall, RecordOptOut, Recorded

Recording(id) ==
  \A ch \in Channels :
    contacts[id][Flag[ch]] <=> <<id, ch>> \in opt_outs \/ contacts[id].anonymized

LEMMA HistoryStep ==
  ASSUME Typed, MarksLast, NoOptInsOffered, [Next]_vars,
         \A id \in DOMAIN contacts : Recording(id)
  PROVE  \A id \in DOMAIN contacts' : Recording(id)'
<1>0. \A ch \in Channels : Flag[ch] \in Marks /\ Flag[ch] \in MarkColumns /\ "anonymized" \in Marks
  BY DEF Marks, MarkColumns, Channels, Flag
<1>1. ASSUME UNCHANGED <<contacts, opt_outs>> PROVE \A id \in DOMAIN contacts' : Recording(id)'
  BY <1>1 DEF Recording
<1>2. ASSUME NEW w \in Workers, CommitEvent(w) \/ CommitCall(w)
      PROVE  \A id \in DOMAIN contacts' : Recording(id)'
  <2> DEFINE s == sessions[w]
             old == s.contact \in DOMAIN contacts
  <2>1. Commits(w) /\ opt_outs' = opt_outs \cup ({s.contact} \X Recorded(s.call))
    BY <1>2, CommitWrites, CommitRecords
  <2> SUFFICES ASSUME NEW id \in DOMAIN contacts', NEW ch \in Channels
      PROVE contacts'[id][Flag[ch]] <=> <<id, ch>> \in opt_outs' \/ contacts'[id].anonymized
    BY DEF Recording
  <2>2. CASE id # s.contact
    <3>1. id \in DOMAIN contacts /\ contacts'[id] = contacts[id]
      BY <2>1, <2>2 DEF Commits
    <3>2. <<id, ch>> \in opt_outs' <=> <<id, ch>> \in opt_outs
      BY <2>1, <2>2
    <3> QED
      BY <3>1, <3>2 DEF Recording
  <2>3. CASE id = s.contact
    <3>1. /\ contacts'[id][Flag[ch]] <=> (old /\ contacts[id][Flag[ch]]) \/ Flag[ch] \in Sets(s.call)
          /\ contacts'[id].anonymized <=> (old /\ contacts[id].anonymized) \/ "anonymized" \in Sets(s.call)
      <4>1. contacts'[id] = Written(w)
        BY <2>1, <2>3 DEF Commits
      <4>2. \A c \in Marks : Written(w)[c] <=> (old /\ contacts[id][c]) \/ c \in Sets(s.call)
        BY <2>1, <2>3, MarkWritten
      <4> QED
        BY <1>0, <4>1, <4>2
    <3>2. s.call \in Bodies \cup Calls
      BY SessionType DEF Sessions
    <3>3. <<id, ch>> \in opt_outs' <=> <<id, ch>> \in opt_outs \/ ch \in Recorded(s.call)
      BY <2>1, <2>3
    <3>4. ~old => <<id, ch>> \notin opt_outs
      BY <2>3 DEF Typed, TypeOK
    <3>5. old => (contacts[id][Flag[ch]] <=> <<id, ch>> \in opt_outs \/ contacts[id].anonymized)
      BY <2>3 DEF Recording
    <3> QED
      BY <3>1, <3>2, <3>3, <3>4, <3>5, RecordedChannels
  <2> QED
    BY <2>2, <2>3
<1>3. ASSUME CreateContact PROVE \A id \in DOMAIN contacts' : Recording(id)'
  <2> DEFINE n == requests + 1
  <2>1. PICK row \in NewContacts :
          contacts' = [i \in DOMAIN contacts \cup {n} |-> IF i = n THEN row ELSE contacts[i]]
    BY <1>3 DEF CreateContact
  <2>2. opt_outs' = opt_outs /\ n \notin DOMAIN contacts
    BY <1>3, NumberIsNew DEF CreateContact
  <2> HIDE DEF n
  <2>3. ~(row.opted_out_sms \/ row.opted_out_email \/ row.anonymized)
    BY CallsAssumption
  <2> SUFFICES ASSUME NEW id \in DOMAIN contacts' PROVE Recording(id)'
    OBVIOUS
  <2>4. CASE id = n
    <3>1. contacts'[id] = row
      BY <2>1, <2>4
    <3>2. \A ch \in Channels : <<id, ch>> \notin opt_outs
      BY <2>2, <2>4 DEF Typed, TypeOK
    <3>3. \A ch \in Channels : ~row[Flag[ch]]
      BY <2>3, ChannelFlags
    <3> QED
      BY <2>2, <2>3, <3>1, <3>2, <3>3 DEF Recording
  <2>5. CASE id # n
    BY <2>1, <2>2, <2>5 DEF Recording
  <2> QED
    BY <2>4, <2>5
<1> QED
  BY <1>1, <1>2, <1>3, Steps DEF Turn, vars, tables, CreateMessageLog

(* As long as nobody opts in, a contact's flags say what the history says, *)
(* whatever events, opt-outs and erasures work on old objects of it.       *)
THEOREM HistoryIsTrue == Spec => []HistoryMatchesFlags
<1> DEFINE Faithful == NoOptInsOffered => \A id \in DOMAIN contacts : Recording(id)
           IInv == Typed /\ MarksLast /\ Faithful
<1>1. Init => IInv
  BY InitTyped, InitMarks DEF Init
<1>2. IInv /\ [Next]_vars => IInv'
  <2> SUFFICES ASSUME IInv, [Next]_vars PROVE IInv'
    OBVIOUS
  <2>1. Typed' /\ MarksLast'
    BY NextTyped, MarksStep
  <2>2. Faithful'
    BY HistoryStep
  <2> QED
    BY <2>1, <2>2
<1>3. IInv => HistoryMatchesFlags
  BY DEF HistoryMatchesFlags, Recording
<1> QED
  BY <1>1, <1>2, <1>3, PTL DEF Spec

-----------------------------------------------------------------------------
(* Numbers and identities.                                                 *)

LEMMA NumbersStep ==
  ASSUME Typed, NumbersInv, [Next]_vars
  PROVE  NumbersInv'
<1>0. requests \in Nat /\ DOMAIN contacts \subseteq 1..requests
  BY SessionType DEF Typed, TypeOK
<1>1. \A v \in Workers : sessions[v].pc # "idle" => sessions[v].number \in 1..requests
  BY SessionType DEF Knows
<1>2. requests + 1 \notin 1..requests
  BY <1>0
<1>3. ASSUME UNCHANGED <<contacts, sessions>> PROVE NumbersInv'
  BY <1>3 DEF NumbersInv
<1>4. ASSUME NEW w \in Workers, Turn(w) PROVE NumbersInv'
  <2>1. contacts' = contacts /\ \A v \in Workers : v # w => sessions'[v] = sessions[v]
    BY <1>4 DEF Turn, Alone
  <2>2. CASE Ends(w)
    BY <2>1, <2>2 DEF NumbersInv, Ends, IdleSession
  <2>3. CASE Begins(w) \/ ReadsContact(w)
    <3>1. sessions'[w].number = requests + 1
      BY <2>3 DEF Begins, ReadsContact
    <3> QED
      BY <1>0, <1>1, <1>2, <2>1, <3>1 DEF NumbersInv
  <2>4. CASE LooksOn(w) \/ FindsNone(w) \/ Finds(w) \/ Inserts(w) \/ MeetsAnother(w) \/ ReadsLogs(w)
    <3>1. /\ sessions[w].pc # "idle" /\ sessions'[w].number = sessions[w].number
          /\ sessions'[w].pc \in {"find", "insert"} => sessions[w].pc \in {"find", "insert"}
      BY <2>4 DEF LooksOn, FindsNone, Finds, Inserts, MeetsAnother, ReadsLogs, SameRequest
    <3> QED
      BY <2>1, <3>1 DEF NumbersInv
  <2> QED
    BY <1>4, <2>2, <2>3, <2>4 DEF Turn, Turns
<1>5. ASSUME NEW w \in Workers, Commits(w) PROVE NumbersInv'
  <2>1. /\ \A v \in Workers : v # w => sessions'[v] = sessions[v]
        /\ sessions'[w].pc = "idle" /\ sessions[w].pc = "commit"
        /\ DOMAIN contacts' = DOMAIN contacts \cup {sessions[w].contact}
    BY <1>5 DEF Commits, Alone, Ends, IdleSession
  <2>2. sessions[w].contact \in DOMAIN contacts \cup {sessions[w].number}
    BY <1>5, WrittenPending
  <2> QED
    BY <2>1, <2>2 DEF NumbersInv
<1>6. ASSUME CreateContact PROVE NumbersInv'
  <2>1. sessions' = sessions /\ DOMAIN contacts' = DOMAIN contacts \cup {requests + 1}
    BY <1>6 DEF CreateContact
  <2> QED
    BY <1>1, <1>2, <2>1 DEF NumbersInv
<1> QED
  BY <1>3, <1>4, <1>5, <1>6, Steps, CommitWrites DEF vars, tables, CreateMessageLog

LEMMA AppliedIdentities ==
  ASSUME IdentitiesKeptByHand, NEW row \in ContactRows, NEW call \in Calls
  PROVE  \A c \in Identities :
           Applied(call, row)[c] = IF call.op = "anonymize" THEN Null ELSE row[c]
<1>0. Identities = {"external_contact_id", "email", "normalized_phone"}
  BY DEF Identities, IdentityColumns
<1>1. CASE call \in [op : {"opt_out", "opt_in"}, channels : SUBSET Channels \ {{}}]
  <2>1. Applied(call, row) \in {OptOut(row, call.channels), OptIn(row, call.channels)}
        /\ call.op # "anonymize"
    BY <1>1 DEF Applied
  <2>2. \A c \in Identities : OptOut(row, call.channels)[c] = row[c]
    BY <1>0 DEF OptOut, ContactRows
  <2>3. \A c \in Identities : OptIn(row, call.channels)[c] = row[c]
    BY <1>0 DEF OptIn, ContactRows
  <2> QED
    BY <2>1, <2>2, <2>3
<1>2. CASE call = [op |-> "anonymize"]
  <2>1. Applied(call, row) = Anonymized(row)
    BY <1>2 DEF Applied
  <2>2. /\ Anonymized(row).external_contact_id = Null /\ Anonymized(row).email = Null
        /\ Anonymized(row).normalized_phone = Null
    BY DEF Anonymized, BlankContact
  <2>3. call.op = "anonymize"
    BY <1>2
  <2> QED
    BY <1>0, <2>1, <2>2, <2>3
<1>3. CASE call.op = "patch"
  <2>1. Applied(call, row) = Patched(row, call.set)
    BY <1>3 DEF Applied
  <2>2. \A c \in Identities : Patched(row, call.set)[c] = Overwritten(row, call.set)[c]
    BY <1>0 DEF Patched, Overwritten, Columns
  <2>3. \A c \in Identities : c \in Columns /\ c \notin DOMAIN call.set
    BY <1>0, <1>3 DEF Columns, IdentitiesKeptByHand
  <2>4. \A c \in Identities : Overwritten(row, call.set)[c] = row[c]
    BY <2>3 DEF Overwritten
  <2> QED
    BY <1>3, <2>1, <2>2, <2>4
<1> QED
  BY <1>1, <1>2, <1>3, CallsAssumption

LEMMA HeldTurn ==
  ASSUME Typed, IdentitiesKeptByHand, IdentitiesHeld, NEW w \in Workers, Turn(w)
  PROVE  IdentitiesHeld'
<1> DEFINE s == sessions[w]
           t == sessions'[w]
<1>1. contacts' = contacts /\ \A v \in Workers : v # w => sessions'[v] = sessions[v]
  BY DEF Turn, Alone
<1>2. SUFFICES ASSUME AtRow(t)
               PROVE  /\ t.contact \notin DOMAIN contacts => t.seen = BlankContact
                      /\ \A c \in Identities :
                           t.held[c] = IF t.call \in Bodies THEN Coalesce(t.seen[c], t.call[c])
                                       ELSE IF t.call.op = "anonymize" THEN Null ELSE t.seen[c]
  BY <1>1 DEF IdentitiesHeld, AtRow
<1>3. CASE Finds(w)
  <2>1. t.contact \in DOMAIN contacts /\ t.seen \in ContactRows
    BY <1>3 DEF Finds, Found, Typed, TypeOK
  <2>2. t.call = s.call /\ s.call \in Bodies /\ t.held = Upserted(t.seen, s.call, t.derived)
    BY <1>3, SessionType DEF Finds, SameRequest, Knows
  <2> QED
    BY <2>1, <2>2, UpsertedRow
<1>4. CASE Inserts(w)
  <2>1. /\ t.seen = BlankContact /\ t.call = s.call /\ s.call \in Bodies
        /\ t.held = Upserted(BlankContact, s.call, s.derived)
    BY <1>4, SessionType DEF Inserts, SameRequest, Knows, Blank
  <2> QED
    BY <2>1, BlankType, UpsertedRow
<1>5. CASE ReadsLogs(w)
  <2>1. /\ t.seen = s.seen /\ t.held = s.held /\ t.call = s.call /\ t.contact = s.contact
        /\ AtRow(s)
    BY <1>5 DEF ReadsLogs, SameRequest, AtRow
  <2> QED
    BY <2>1 DEF IdentitiesHeld
<1>6. CASE ReadsContact(w)
  <2>1. /\ t.contact \in DOMAIN contacts /\ t.seen \in ContactRows
        /\ t.call \in Calls /\ t.call \notin Bodies /\ t.held = Applied(t.call, t.seen)
    BY <1>6, BodiesAssumption DEF ReadsContact, Typed, TypeOK
  <2> QED
    BY <2>1, AppliedIdentities
<1> QED
  BY <1>2, <1>3, <1>4, <1>5, <1>6, RowsTaken DEF Turn

LEMMA HeldStep ==
  ASSUME Typed, IdentitiesKeptByHand, IdentitiesHeld, [Next]_vars
  PROVE  IdentitiesHeld'
<1>1. ASSUME DOMAIN contacts \subseteq DOMAIN contacts',
             \A v \in Workers : sessions'[v] = sessions[v] \/ ~AtRow(sessions'[v])
      PROVE  IdentitiesHeld'
  BY <1>1 DEF IdentitiesHeld, AtRow
<1>2. ASSUME NEW w \in Workers, Commits(w) PROVE IdentitiesHeld'
  <2>1. \A v \in Workers : sessions'[v] = sessions[v] \/ ~AtRow(sessions'[v])
    BY <1>2 DEF Commits, Alone, Ends, IdleSession, AtRow
  <2> QED
    BY <1>1, <1>2, <2>1 DEF Commits
<1>3. ASSUME CreateContact PROVE IdentitiesHeld'
  BY <1>1, <1>3 DEF CreateContact
<1> QED
  BY <1>1, <1>2, <1>3, HeldTurn, Steps, CommitWrites DEF vars, tables, CreateMessageLog

-----------------------------------------------------------------------------
(* Statuses.                                                               *)

LEMMA Ranks ==
  /\ \A status : Rank(status) \in -1..3
  /\ Rank("new") = 0 /\ Rank("contacted") = 1 /\ Rank("engaged") = 2 /\ Rank("converted") = 3
BY DEF Rank, FunnelStatuses, STATUS_RANK

(* A derived status is in the funnel, and no step back, or no change.      *)
LEMMA DeriveForward ==
  ASSUME NEW event_type, NEW current
  PROVE  LET derived == DeriveStatus(event_type, current) IN
         /\ current = Null => Rank(derived) >= 0
         /\ current # Null /\ derived # current =>
              Rank(derived) >= 0 /\ Rank(derived) >= Rank(current)
<1> DEFINE now == IF current = Null THEN "new" ELSE current
           candidate == IF event_type \in CONTACT_STATUS_CONVERTED THEN "converted"
                        ELSE IF event_type \in CONTACT_STATUS_ENGAGED THEN "engaged"
                        ELSE IF event_type \in CONTACT_STATUS_CONTACTED THEN "contacted"
                        ELSE now
           derived == DeriveStatus(event_type, current)
<1>1. derived = IF Rank(candidate) >= Rank(now) THEN candidate ELSE now
  BY DEF DeriveStatus
<1>2. candidate \in {"converted", "engaged", "contacted", now}
  OBVIOUS
<1>3. now = (IF current = Null THEN "new" ELSE current)
  OBVIOUS
<1> HIDE DEF now, candidate, derived
<1>4. Rank(now) \in -1..3 /\ Rank(candidate) \in -1..3
  BY Ranks
<1>5. candidate # now => Rank(candidate) >= 0
  BY <1>2, Ranks
<1>6. derived \in {now, candidate} /\ (derived # now => Rank(derived) >= Rank(now))
  BY <1>1
<1>7. CASE derived = now
  <2>1. current = Null => Rank(derived) = 0
    BY <1>3, <1>7, Ranks
  <2>2. 0 >= 0
    OBVIOUS
  <2> QED
    BY <1>3, <1>7, <2>1, <2>2 DEF derived
<1>8. CASE derived # now
  <2>1. Rank(derived) >= 0 /\ Rank(derived) >= Rank(now)
    BY <1>5, <1>6, <1>8
  <2>2. current # Null => now = current
    BY <1>3
  <2> QED
    BY <2>1, <2>2 DEF derived
<1> QED
  BY <1>7, <1>8

(* What AheadOfRead says of one session.                                   *)
Forward(s) ==
  /\ s.pc = "insert" => Rank(s.derived) >= 0
  /\ AtRow(s) /\ s.call \in Bodies /\ ~s.again => Rank(s.held.status) >= Rank(s.seen.status)

LEMMA ForwardTurn ==
  ASSUME Typed, AheadOfRead, NEW w \in Workers, Turn(w)
  PROVE  Forward(sessions'[w])
<1> DEFINE s == sessions[w]
           t == sessions'[w]
<1>0. s \in Sessions /\ Forward(s)
  BY SessionType DEF AheadOfRead, Forward
<1>1. CASE FindsNone(w)
  <2>1. Rank(t.derived) >= 0 /\ t.pc = "insert"
    BY <1>1, DeriveForward DEF FindsNone
  <2> QED
    BY <2>1 DEF Forward, AtRow
<1>2. CASE Finds(w)
  <2>1. /\ t.call = s.call /\ s.call \in Bodies /\ t.again = s.again
        /\ t.seen = contacts[t.contact] /\ t.contact \in DOMAIN contacts
        /\ t.held = Upserted(t.seen, s.call, t.derived) /\ t.pc \in {"log", "commit"}
    BY <1>2, SessionType DEF Finds, SameRequest, Knows, Found, AfterContact
  <2>2. t.seen \in ContactRows
    BY <2>1 DEF Typed, TypeOK
  <2>3. t.held.status = t.derived
    BY <2>1, <2>2, UpsertedRow
  <2>4. ~t.again => t.derived = DeriveStatus(s.call.event_type, t.seen.status)
    BY <1>2, <2>1 DEF Finds
  <2>5. t.seen.status # Null
    BY <2>2, NullAssumption DEF ContactRows
  <2>6. ~t.again => Rank(t.held.status) >= Rank(t.seen.status)
    <3>1. Rank(t.seen.status) \in Int /\ Rank(t.seen.status) >= Rank(t.seen.status)
      BY Ranks
    <3> QED
      BY <2>3, <2>4, <2>5, <3>1, DeriveForward
  <2> QED
    BY <2>1, <2>6 DEF Forward
<1>3. CASE Inserts(w)
  <2>1. /\ s.pc = "insert" /\ t.call = s.call /\ s.call \in Bodies /\ t.seen = BlankContact
        /\ t.held = Upserted(BlankContact, s.call, s.derived) /\ t.pc \in {"log", "commit"}
    BY <1>3, SessionType DEF Inserts, SameRequest, Blank, Knows, AfterContact
  <2>2. t.held.status = s.derived /\ Rank(s.derived) >= 0
    BY <1>0, <2>1, BlankType, UpsertedRow DEF Forward
  <2>3. Rank(t.seen.status) = 0
    BY <2>1, Ranks DEF BlankContact
  <2> QED
    BY <2>1, <2>2, <2>3 DEF Forward
<1>4. CASE ReadsLogs(w)
  <2>1. /\ t.seen = s.seen /\ t.held = s.held /\ t.call = s.call /\ t.again = s.again
        /\ AtRow(s) /\ t.pc = "commit"
    BY <1>4 DEF ReadsLogs, SameRequest, AtRow
  <2> QED
    BY <1>0, <2>1 DEF Forward
<1>5. CASE ReadsContact(w)
  BY <1>5, BodiesAssumption DEF ReadsContact, Forward
<1>6. CASE Ends(w) \/ Begins(w) \/ LooksOn(w) \/ MeetsAnother(w)
  BY <1>6 DEF Ends, IdleSession, Begins, LooksOn, MeetsAnother, Forward, AtRow
<1> QED
  BY <1>1, <1>2, <1>3, <1>4, <1>5, <1>6 DEF Turn, Turns

LEMMA ForwardStep ==
  ASSUME Typed, AheadOfRead, [Next]_vars
  PROVE  AheadOfRead'
<1>1. ASSUME NEW w \in Workers, NEW v \in Workers, Turn(w) \/ Commits(w)
      PROVE  Forward(sessions'[v])
  <2>1. CASE v # w
    BY <1>1, <2>1 DEF Turn, Commits, Alone, AheadOfRead, Forward
  <2>2. CASE Commits(w)
    <3>1. sessions'[w].pc = "idle"
      BY <2>2 DEF Commits, Ends, IdleSession
    <3> QED
      BY <2>1, <3>1 DEF Forward, AtRow
  <2> QED
    BY <1>1, <2>1, <2>2, ForwardTurn
<1>2. ASSUME UNCHANGED sessions PROVE AheadOfRead'
  BY <1>2 DEF AheadOfRead, AtRow
<1>3. ASSUME NEW w \in Workers, Turn(w) \/ Commits(w) PROVE AheadOfRead'
  BY <1>1, <1>3 DEF AheadOfRead, Forward, AtRow
<1> QED
  BY <1>2, <1>3, Steps, CommitWrites DEF vars, CreateContact, CreateMessageLog

LEMMA StepBack ==
  ASSUME Typed, AheadOfRead, NEW w \in Workers, CommitEvent(w), NEW id \in DOMAIN contacts,
         Rank(contacts'[id].status) < Rank(contacts[id].status)
  PROVE  LET s == sessions[w] IN
         /\ id = s.contact /\ s.held.status # s.seen.status
         /\ s.again \/ Rank(s.seen.status) <= Rank(contacts'[id].status)
<1> DEFINE s == sessions[w]
<1>1. Commits(w) /\ s.pc = "commit" /\ s.call \in Bodies
  BY CommitWrites DEF CommitEvent
<1>2. Rank(contacts[id].status) \in Int /\ Rank(s.held.status) \in Int /\ Rank(s.seen.status) \in Int
  BY Ranks
<1>3. contacts'[id] # contacts[id]
  BY <1>2
<1>4. id = s.contact
  BY <1>1, <1>3 DEF Commits
<1>5. contacts'[id].status = IF s.held.status # s.seen.status THEN s.held.status
                                                            ELSE contacts[id].status
  BY <1>1, <1>4, WrittenColumns DEF Commits, Columns
<1>6. s.held.status # s.seen.status /\ contacts'[id].status = s.held.status
  BY <1>2, <1>5
<1>7. ~s.again => Rank(s.held.status) >= Rank(s.seen.status)
  BY <1>1 DEF AheadOfRead, AtRow
<1> QED
  BY <1>2, <1>4, <1>6, <1>7

(* However the events, retries and requests of several processes overlap,  *)
(* an event undoes no progress of its contact but what was committed since *)
(* it read the contact, unless it met the contact by the unique index.     *)
THEOREM StepsBackAreBounded == Spec => StepsBackAreStale
<1> DEFINE IInv == Typed /\ AheadOfRead
<1>1. Init => IInv
  BY InitTyped DEF Init, AheadOfRead, IdleSession, AtRow
<1>2. IInv /\ [Next]_vars => IInv'
  BY NextTyped, ForwardStep
<1>3. ASSUME IInv
      PROVE  [\A w \in Workers : CommitEvent(w) =>
                LET s == sessions[w] IN
                \A id \in DOMAIN contacts :
                  Rank(contacts'[id].status) < Rank(contacts[id].status) =>
                    /\ id = s.contact /\ s.held.status # s.seen.status
                    /\ s.again \/ Rank(s.seen.status) <= Rank(contacts'[id].status)]_vars
  <2> SUFFICES ASSUME NEW w \in Workers, CommitEvent(w), NEW id \in DOMAIN contacts,
                      Rank(contacts'[id].status) < Rank(contacts[id].status)
               PROVE  LET s == sessions[w] IN
                      /\ id = s.contact /\ s.held.status # s.seen.status
                      /\ s.again \/ Rank(s.seen.status) <= Rank(contacts'[id].status)
    OBVIOUS
  <2> QED
    BY <1>3, StepBack
<1> QED
  BY <1>1, <1>2, <1>3, PTL DEF Spec, StepsBackAreStale

-----------------------------------------------------------------------------
(* Persons.                                                                *)

(* What an event writes agrees with everything known of its person.        *)
LEMMA Merge ==
  ASSUME OnePersonOneIdentity, NEW b \in Bodies, NEW now, NEW row,
         Agrees(now), now.external_contact_id = b.external_contact_id,
         row.external_contact_id = b.external_contact_id,
         \A c \in Identities : row[c] \in {now[c], b[c]}
  PROVE  Agrees(row)
<1>0. b.external_contact_id # Null /\ "external_contact_id" \in Identities
  BY DEF OnePersonOneIdentity, Identities, IdentityColumns
<1> SUFFICES ASSUME NEW other \in Bodies,
                    NEW i \in Identities, other[i] # Null, other[i] = row[i]
             PROVE  /\ row.external_contact_id = other.external_contact_id
                    /\ \A c \in Identities : Null \in {row[c], other[c]} \/ row[c] = other[c]
  BY DEF Agrees
<1>1. other.external_contact_id = b.external_contact_id
  <2>1. CASE row[i] = now[i]
    BY <2>1 DEF Agrees
  <2>2. CASE row[i] = b[i]
    BY <2>2 DEF OnePersonOneIdentity
  <2> QED
    BY <2>1, <2>2
<1>2. /\ \A c \in Identities : Null \in {now[c], other[c]} \/ now[c] = other[c]
      /\ \A c \in Identities : Null \in {b[c], other[c]} \/ b[c] = other[c]
  BY <1>0, <1>1 DEF Agrees, OnePersonOneIdentity
<1> QED
  BY <1>1, <1>2

LEMMA AgreesSame ==
  ASSUME NEW now, NEW row, Agrees(now), \A c \in Identities : row[c] = now[c]
  PROVE  Agrees(row)
<1>1. row.external_contact_id = now.external_contact_id
  BY DEF Identities, IdentityColumns
<1> QED
  BY <1>1 DEF Agrees

LEMMA AgreesBody ==
  ASSUME OnePersonOneIdentity, NEW b \in Bodies PROVE Agrees(b)
BY DEF Agrees, OnePersonOneIdentity

(* A row of another person's or nobody's is none of this event's.          *)
LEMMA SamePerson ==
  ASSUME NEW b \in Bodies, NEW row, Agrees(row), NEW c \in Identities,
         b[c] # Null, row[c] = b[c]
  PROVE  row.external_contact_id = b.external_contact_id
BY DEF Agrees

(* The identities that an event's commit writes.                           *)
LEMMA EventWrites ==
  ASSUME Typed, IdentitiesHeld, NEW w \in Workers, Commits(w), sessions[w].call \in Bodies
  PROVE  LET s == sessions[w] IN
         \A c \in Identities :
           IF s.contact \in DOMAIN contacts
           THEN Written(w)[c] \in {contacts[s.contact][c], s.call[c]}
           ELSE Written(w)[c] = s.call[c]
<1> DEFINE s == sessions[w]
<1> SUFFICES ASSUME NEW c \in Identities
             PROVE  IF s.contact \in DOMAIN contacts
                    THEN Written(w)[c] \in {contacts[s.contact][c], s.call[c]}
                    ELSE Written(w)[c] = s.call[c]
  OBVIOUS
<1>1. c \in Columns /\ BlankContact[c] = Null
  BY DEF Columns, Identities, IdentityColumns, BlankContact
<1>2. /\ s.held[c] = Coalesce(s.seen[c], s.call[c])
      /\ s.contact \notin DOMAIN contacts => s.seen = BlankContact
  BY DEF IdentitiesHeld, Commits, AtRow
<1>3. CASE s.contact \in DOMAIN contacts
  BY <1>1, <1>2, <1>3, WrittenColumns DEF Coalesce
<1>4. CASE s.contact \notin DOMAIN contacts
  BY <1>1, <1>2, <1>4, WrittenPending DEF Coalesce
<1> QED
  BY <1>3, <1>4

LEMMA PersonsTurn ==
  ASSUME Typed, OnePersonOneIdentity, NumbersInv, PersonsApart, NEW w \in Workers, Turn(w)
  PROVE  PersonsApart'
<1> DEFINE s == sessions[w]
           t == sessions'[w]
<1>0. contacts' = contacts /\ \A v \in Workers : v # w => sessions'[v] = sessions[v]
  BY DEF Turn, Alone
<1>1. SUFFICES ASSUME NoneErased, t.call \in Bodies
               PROVE  /\ AtRow(t) /\ t.contact \in DOMAIN contacts =>
                           contacts[t.contact].external_contact_id = t.call.external_contact_id
                      /\ t.pc = "find" /\ t.again =>
                           /\ t.look = 1
                           /\ \E id \in DOMAIN contacts :
                                contacts[id].external_contact_id = t.call.external_contact_id
  BY <1>0 DEF PersonsApart, NoneErased, AtRow
<1>2. \A id \in DOMAIN contacts : Agrees(contacts[id])
  BY <1>1 DEF PersonsApart
<1>3. /\ "log" \notin {"find", "idle", "insert"} /\ "commit" \notin {"find", "idle", "insert"}
      /\ AfterContact(s.call) # "find"
  BY DEF AfterContact
<1>4. CASE Finds(w)
  <2> DEFINE c == IdentityColumns[s.look]
  <2>1. /\ s.call[c] # Null /\ contacts[t.contact][c] = s.call[c] /\ t.call = s.call
        /\ t.contact \in DOMAIN contacts /\ t.pc # "find" /\ s.look \in 1..3
    BY <1>3, <1>4, SessionType DEF Finds, Found, SameRequest, Sessions
  <2>2. c \in Identities
    BY <2>1 DEF Identities
  <2> HIDE DEF c
  <2> QED
    BY <1>1, <1>2, <2>1, <2>2, SamePerson
<1>5. CASE Inserts(w)
  <2>1. t.contact \notin DOMAIN contacts /\ t.pc # "find"
    BY <1>3, <1>5 DEF Inserts, NumbersInv
  <2> QED
    BY <2>1
<1>6. CASE MeetsAnother(w)
  <2>1. /\ s.pc = "insert" /\ t.pc = "find" /\ t.look = 1 /\ t.call = s.call
        /\ Conflict(s.number, Blank(w))
    BY <1>6 DEF MeetsAnother, SameRequest
  <2>2. PICK id \in DOMAIN contacts, c \in Identities :
          Blank(w)[c] # Null /\ Blank(w)[c] = contacts[id][c]
    BY <2>1 DEF Conflict, SameIdentity
  <2>3. Blank(w)[c] = s.call[c]
    <3>1. Blank(w)[c] = Coalesce(BlankContact[c], s.call[c])
      BY <1>1, <2>1, BlankType, UpsertedRow DEF Blank
    <3>2. BlankContact[c] = Null
      BY DEF BlankContact, Identities, IdentityColumns
    <3> QED
      BY <3>1, <3>2 DEF Coalesce
  <2>4. contacts[id].external_contact_id = s.call.external_contact_id
    BY <1>1, <1>2, <2>1, <2>2, <2>3, SamePerson
  <2> QED
    BY <2>1, <2>4 DEF AtRow
<1>7. CASE LooksOn(w)
  <2>1. s.pc = "find" /\ t.pc = "find" /\ t.call = s.call /\ t.again = s.again /\ Found(w) = {}
    BY <1>7 DEF LooksOn, SameRequest
  <2>2. ~s.again
    <3> SUFFICES ASSUME s.again PROVE FALSE
      OBVIOUS
    <3>1. s.look = 1 /\ s.call.external_contact_id # Null
      BY <1>1, <2>1 DEF PersonsApart, OnePersonOneIdentity
    <3>2. PICK id \in DOMAIN contacts :
            contacts[id].external_contact_id = s.call.external_contact_id
      BY <1>1, <2>1 DEF PersonsApart
    <3> QED
      BY <2>1, <3>1, <3>2 DEF Found, IdentityColumns
  <2> QED
    BY <2>1, <2>2 DEF AtRow
<1>8. CASE ReadsLogs(w)
  <2>1. AtRow(s) /\ t.pc = "commit" /\ t.contact = s.contact /\ t.call = s.call
    BY <1>8 DEF ReadsLogs, SameRequest, AtRow
  <2> QED
    BY <1>1, <2>1 DEF PersonsApart
<1>9. CASE Ends(w) \/ Begins(w) \/ FindsNone(w) \/ ReadsContact(w)
  BY <1>1, <1>9, BodiesAssumption
  DEF Ends, Begins, FindsNone, ReadsContact, IdleSession, AtRow
<1> QED
  BY <1>4, <1>5, <1>6, <1>7, <1>8, <1>9 DEF Turn, Turns

(* A commit leaves every contact to the person it is of.                   *)
LEMMA PersonWritten ==
  ASSUME Typed, OnePersonOneIdentity, IdentitiesKeptByHand, MarksLast, IdentitiesHeld,
         PersonsApart, NoneErased, NoneErased', NEW w \in Workers, Commits(w)
  PROVE  LET id == sessions[w].contact IN
         /\ Agrees(Written(w))
         /\ id \in DOMAIN contacts =>
              Written(w).external_contact_id = contacts[id].external_contact_id
<1> DEFINE s == sessions[w]
           row == Written(w)
<1>0. "external_contact_id" \in Identities /\ AtRow(s) /\ Identities \subseteq Columns
  BY DEF Identities, IdentityColumns, Columns, Commits, AtRow
<1>1. CASE s.call \in Bodies /\ s.contact \in DOMAIN contacts
  <2>1. \A c \in Identities : row[c] \in {contacts[s.contact][c], s.call[c]}
    BY <1>1, EventWrites
  <2>2. contacts[s.contact].external_contact_id = s.call.external_contact_id
        /\ Agrees(contacts[s.contact])
    BY <1>0, <1>1 DEF PersonsApart
  <2>3. row.external_contact_id = s.call.external_contact_id
    BY <1>0, <2>1, <2>2
  <2> QED
    BY <1>1, <2>1, <2>2, <2>3, Merge
<1>2. CASE s.contact \notin DOMAIN contacts
  <2>1. s.call \in Bodies
    BY <1>2, WrittenPending
  <2>2. \A c \in Identities : row[c] = s.call[c]
    BY <1>2, <2>1, EventWrites
  <2> QED
    BY <1>2, <2>1, <2>2, AgreesBody, AgreesSame
<1>3. CASE s.call \notin Bodies /\ s.contact \in DOMAIN contacts
  <2>1. s.call.op # "anonymize"
    <3> SUFFICES ASSUME s.call.op = "anonymize" PROVE FALSE
      OBVIOUS
    <3>1. "anonymized" \in Marks /\ "anonymized" \in Sets(s.call)
      BY <1>3 DEF Marks, MarkColumns, Sets
    <3>2. contacts'[s.contact].anonymized /\ s.contact \in DOMAIN contacts'
      BY <1>3, <3>1, MarkWritten DEF Commits
    <3> QED
      BY <3>2 DEF NoneErased
  <2>2. \A c \in Identities : s.held[c] = s.seen[c]
    BY <1>0, <1>3, <2>1 DEF IdentitiesHeld
  <2>3. \A c \in Identities : row[c] = contacts[s.contact][c]
    BY <1>0, <1>3, <2>2, WrittenColumns
  <2> QED
    BY <1>0, <1>3, <2>3, AgreesSame DEF PersonsApart
<1> QED
  BY <1>1, <1>2, <1>3

LEMMA PersonsCommit ==
  ASSUME Typed, OnePersonOneIdentity, IdentitiesKeptByHand, MarksLast, IdentitiesHeld,
         NumbersInv, PersonsApart, Lasting, NEW w \in Workers, Commits(w)
  PROVE  PersonsApart'
<1> SUFFICES ASSUME NoneErased' PROVE PersonsApart'
  BY DEF PersonsApart
<1> DEFINE id == sessions[w].contact
<1>1. NoneErased
  BY DEF NoneErased, Lasting, Marks, MarkColumns
<1>2. /\ DOMAIN contacts' = DOMAIN contacts \cup {id} /\ contacts'[id] = Written(w)
      /\ \A i \in DOMAIN contacts : i # id => contacts'[i] = contacts[i]
      /\ sessions'[w].pc = "idle" /\ sessions[w].pc = "commit"
      /\ \A v \in Workers : v # w => sessions'[v] = sessions[v]
  BY DEF Commits, Alone, Ends, IdleSession
<1>3. \A i \in DOMAIN contacts :
        contacts'[i].external_contact_id = contacts[i].external_contact_id
  BY <1>1, <1>2, PersonWritten
<1>4. \A i \in DOMAIN contacts' : Agrees(contacts'[i])
  BY <1>1, <1>2, PersonWritten DEF PersonsApart
<1>5. ASSUME NEW v \in Workers, sessions'[v].call \in Bodies, AtRow(sessions'[v]),
             sessions'[v].contact \in DOMAIN contacts'
      PROVE  contacts'[sessions'[v].contact].external_contact_id
               = sessions'[v].call.external_contact_id
  <2>1. v # w /\ sessions'[v] = sessions[v]
    BY <1>2, <1>5 DEF AtRow
  <2>2. sessions[v].contact \in DOMAIN contacts
    <3> SUFFICES ASSUME sessions[v].contact \notin DOMAIN contacts PROVE FALSE
      OBVIOUS
    <3>1. sessions[v].contact = id /\ id = sessions[w].number
      BY <1>2, <1>5, <2>1, WrittenPending
    <3>2. sessions[v].contact = sessions[v].number /\ sessions[v].pc # "idle"
      BY <1>5, <2>1, SessionType, BodiesAssumption DEF Knows, AtRow
    <3> QED
      BY <1>2, <2>1, <3>1, <3>2 DEF NumbersInv
  <2> QED
    BY <1>1, <1>3, <1>5, <2>1, <2>2 DEF PersonsApart
<1>6. ASSUME NEW v \in Workers, sessions'[v].call \in Bodies,
             sessions'[v].pc = "find", sessions'[v].again
      PROVE  /\ sessions'[v].look = 1
             /\ \E i \in DOMAIN contacts' :
                  contacts'[i].external_contact_id = sessions'[v].call.external_contact_id
  <2>1. sessions'[v] = sessions[v]
    BY <1>2, <1>6
  <2> QED
    BY <1>1, <1>2, <1>3, <1>6, <2>1 DEF PersonsApart
<1> QED
  BY <1>4, <1>5, <1>6 DEF PersonsApart, AtRow

LEMMA PersonsStep ==
  ASSUME Typed, OnePersonOneIdentity, IdentitiesKeptByHand, NoIdentitiesByHand, MarksLast,
         IdentitiesHeld, NumbersInv, PersonsApart, [Next]_vars
  PROVE  PersonsApart'
<1>1. ASSUME UNCHANGED <<contacts, sessions>> PROVE PersonsApart'
  BY <1>1 DEF PersonsApart, NoneErased
<1>2. ASSUME CreateContact PROVE PersonsApart'
  <2> SUFFICES ASSUME NoneErased' PROVE PersonsApart'
    BY DEF PersonsApart
  <2>1. PICK row \in NewContacts :
          contacts' = [i \in DOMAIN contacts \cup {requests + 1} |->
                         IF i = requests + 1 THEN row ELSE contacts[i]]
    BY <1>2 DEF CreateContact
  <2>2. /\ requests + 1 \notin DOMAIN contacts /\ sessions' = sessions
        /\ \A v \in Workers : sessions[v].call \in Bodies /\ AtRow(sessions[v]) =>
             sessions[v].contact # requests + 1
    <3>1. requests \in Nat /\ DOMAIN contacts \subseteq 1..requests
      BY SessionType DEF Typed, TypeOK
    <3>2. \A v \in Workers : sessions[v].call \in Bodies /\ AtRow(sessions[v]) =>
            /\ sessions[v].contact \in DOMAIN contacts \cup {sessions[v].number}
            /\ sessions[v].number \in 1..requests
      BY SessionType, BodiesAssumption DEF Knows, AtRow
    <3> QED
      BY <1>2, <3>1, <3>2 DEF CreateContact
  <2>3. /\ DOMAIN contacts' = DOMAIN contacts \cup {requests + 1}
        /\ contacts'[requests + 1] = row
        /\ \A i \in DOMAIN contacts : contacts'[i] = contacts[i]
    BY <2>1, <2>2
  <2>4. NoneErased
    BY <2>3 DEF NoneErased
  <2>5. Agrees(row)
    BY DEF Agrees, NoIdentitiesByHand
  <2>6. \A i \in DOMAIN contacts' : Agrees(contacts'[i])
    BY <2>3, <2>4, <2>5 DEF PersonsApart
  <2> QED
    BY <2>2, <2>3, <2>4, <2>6 DEF PersonsApart, AtRow
<1> QED
  BY <1>1, <1>2, Steps, CommitWrites, MarksStep, PersonsTurn, PersonsCommit
  DEF vars, tables, CreateMessageLog

LEMMA MergeFound ==
  ASSUME Typed, IdentitiesHeld, IdentitiesUnique, OnePersonOneIdentity, PersonsApart, NoneErased,
         NEW w \in Workers, sessions[w].call \in Bodies, sessions[w].pc = "commit", ~Pending(w)
  PROVE  ~Conflict(sessions[w].contact, Flushed(w))
<1> DEFINE s == sessions[w]
<1>1. s.contact \in DOMAIN contacts /\ AtRow(s)
  BY DEF Pending, AtRow
<1> SUFFICES ASSUME NEW other \in DOMAIN contacts, other # s.contact, NEW c \in Identities,
                    Flushed(w)[c] # Null, Flushed(w)[c] = contacts[other][c]
             PROVE  FALSE
  BY DEF Conflict, SameIdentity
<1>2. Flushed(w)[c] = IF s.held[c] # s.seen[c] THEN s.held[c] ELSE contacts[s.contact][c]
  BY DEF Flushed, Identities, IdentityColumns, Columns
<1>3. Flushed(w)[c] \in {contacts[s.contact][c], s.call[c]}
  <2>1. s.held[c] = Coalesce(s.seen[c], s.call[c])
    BY <1>1 DEF IdentitiesHeld
  <2> QED
    BY <1>2, <2>1 DEF Coalesce
<1>4. CASE Flushed(w)[c] = contacts[s.contact][c]
  BY <1>1, <1>4 DEF IdentitiesUnique
<1>5. CASE Flushed(w)[c] = s.call[c]
  <2>1. contacts[other].external_contact_id = s.call.external_contact_id
    BY <1>5, SamePerson DEF PersonsApart
  <2>2. contacts[s.contact].external_contact_id = s.call.external_contact_id
    BY <1>1 DEF PersonsApart
  <2>3. s.call.external_contact_id # Null /\ "external_contact_id" \in Identities
    BY DEF OnePersonOneIdentity, Identities, IdentityColumns
  <2> QED
    BY <1>1, <2>1, <2>2, <2>3 DEF IdentitiesUnique
<1> QED
  BY <1>3, <1>4, <1>5

(* As long as every event has an external id, an identity is one person's, *)
(* identities come from events alone and nobody is erased, no event of     *)
(* racing first deliveries fails on a unique index.                        *)
THEOREM FirstDeliveriesDoMerge ==
  ASSUME IdentitiesKeptByHand, NoIdentitiesByHand
  PROVE  Spec => []FirstDeliveriesMerge
<1> DEFINE IInv == /\ Typed /\ MarksLast /\ NumbersInv /\ IdentitiesHeld
                   /\ IdentitiesUnique /\ PendingUnique
                   /\ OnePersonOneIdentity => PersonsApart
<1>1. Init => IInv
  <2> SUFFICES ASSUME Init
               PROVE  /\ NumbersInv /\ IdentitiesHeld /\ IdentitiesUnique
                      /\ PendingUnique /\ PersonsApart
    BY InitTyped, InitMarks
  <2>1. contacts = << >> /\ \A w \in Workers : sessions[w].pc = "idle"
    BY DEF Init, IdleSession
  <2>2. PendingUnique
    BY <2>1 DEF PendingUnique, Pending
  <2> QED
    BY <2>1, <2>2 DEF NumbersInv, IdentitiesHeld, IdentitiesUnique, PersonsApart, AtRow
<1>2. IInv /\ [Next]_vars => IInv'
  <2> SUFFICES ASSUME IInv, [Next]_vars PROVE IInv'
    OBVIOUS
  <2>1. Typed' /\ MarksLast' /\ NumbersInv' /\ IdentitiesHeld'
    BY NextTyped, MarksStep, NumbersStep, HeldStep
  <2>2. IdentitiesUnique' /\ PendingUnique'
    BY IdentityStep
  <2>3. OnePersonOneIdentity => PersonsApart'
    BY PersonsStep
  <2> QED
    BY <2>1, <2>2, <2>3 DEF OnePersonOneIdentity
<1>3. IInv => FirstDeliveriesMerge
  <2> SUFFICES ASSUME IInv, OnePersonOneIdentity, NoneErased,
                      NEW w \in Workers, sessions[w].call \in Bodies
      PROVE /\ sessions[w].pc = "commit" /\ ~Pending(w)
                 => ~Conflict(sessions[w].contact, Flushed(w))
            /\ sessions[w].pc = "find" /\ sessions[w].again /\ sessions[w].look = 3
                 => Found(w) # {}
    BY DEF FirstDeliveriesMerge, NoneErased
  <2>1. sessions[w].pc = "find" /\ sessions[w].again => sessions[w].look = 1
    BY DEF PersonsApart
  <2> QED
    BY <2>1, MergeFound
<1> QED
  BY <1>1, <1>2, <1>3, PTL DEF Spec

=============================================================================

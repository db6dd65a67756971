-------------------------- MODULE LockOrderProofs ---------------------------
(***************************************************************************)
(* The deadlocks of ingestion and the contact routes: each has a           *)
(* transaction that gives a contact that is there an identity.  For any    *)
(* workers, clerks, events, contacts and identities.                       *)
(***************************************************************************)
EXTENDS LockOrder, EventIngestionProofs

-----------------------------------------------------------------------------
(* Every step is one of EventIngestion, or changes nothing of it: what is  *)
(* proved there of open transactions holds here.                           *)
LEMMA LocksStep == [LocksNext]_all_vars => [Next]_vars
<1> SUFFICES ASSUME [LocksNext]_all_vars PROVE [Next]_vars
  OBVIOUS
<1>1. CASE UNCHANGED all_vars
  BY <1>1 DEF all_vars
<1>2. ASSUME NEW a \in Actors, Proceed(a) PROVE [Next]_vars
  <2>1. CASE AddEntry(a) \/ LockRow(a)
    BY <2>1 DEF AddEntry, LockRow, SetClaim
  <2>2. CASE EntryTaken(a)
    BY <2>2 DEF EntryTaken, SetClaim, Next
  <2>3. CASE a \in Workers /\ (FindContact(a) \/ FindAgain(a))
    BY <2>3 DEF FindContact, FindAgain, UpdateFound, SetClaim, Next
  <2>4. CASE a \in Workers /\ (FlushAndCommit(a) \/ Statement(a))
    <3>1. Advance(a)
      BY <2>4 DEF Statement, FlushAndCommit, Advance
    <3> QED
      BY <2>4, <3>1 DEF Next
  <2>5. CASE CommitContact(a) \/ ContactGone(a)
    BY <2>5 DEF CommitContact, ContactGone, SetClaim
  <2> QED
    BY <1>2, <2>1, <2>2, <2>3, <2>4, <2>5 DEF Proceed
<1>3. CASE BreakDeadlock
  BY <1>3 DEF BreakDeadlock, SetClaim, Next
<1>4. ASSUME NEW k \in Clerks, ContactRequests(k) PROVE [Next]_vars
  BY <1>4 DEF ContactRequests, CreateContact, PatchContact, OptContact, AnonymizeContact,
              ContactRequest, ContactError, SetClaim
<1>5. CASE Around
  BY <1>5 DEF Around, Next
<1> QED
  BY <1>1, <1>2, <1>3, <1>4, <1>5 DEF LocksNext

-----------------------------------------------------------------------------
(* Claims.                                                                 *)

LEMMA NoClaimIs ==
  /\ NoClaim \in Claims
  /\ NoClaim.stage = "" /\ NoClaim.contact = Nobody /\ NoClaim.todo = {}
  /\ NoClaim.held = {} /\ NoClaim.columns = {} /\ NoClaim.opts = FALSE /\ NoClaim.mode = ""
<1>1. PICK e \in Events : TRUE
  BY EventsAssumption
<1>2. e.tenant_id \in Tenants
  BY <1>1, EventsAssumption DEF EventFields
<1>3. (CHOOSE t \in Tenants : TRUE) \in Tenants
  BY <1>2
<1> QED
  BY <1>3 DEF NoClaim, ClaimOf, Claims, Nobody

LEMMA ClaimTypes ==
  ASSUME NEW t \in Tenants, NEW c \in Nat, NEW ids \in SUBSET Identities,
         NEW columns \in SUBSET Indexes, NEW opts \in BOOLEAN
  PROVE  /\ Inserting(t, ids) \in Claims
         /\ Updating(t, c, ids, columns, opts) \in Claims
BY DEF Inserting, Updating, ClaimOf, Claims, Nobody

LEMMA IndexType ==
  ASSUME NEW i \in Identities PROVE Index[i] \in Indexes /\ Index[i] \in 1..3
BY IdentitiesAssumption DEF Indexes

(* A claim of an actor without a transaction, of one that begins to insert *)
(* a contact, and of one that is to update one, are sound.                 *)
LEMMA NoClaimSound == ASSUME NEW a PROVE Sound(a, NoClaim)
BY NoClaimIs DEF Sound, OneEach

LEMMA InsertingSound ==
  ASSUME NEW a \in Actors, NEW t \in Tenants, NEW ids \in SUBSET Identities, OneEach(ids),
         a \in Workers => sessions[a].pc = "campaign"
  PROVE  Sound(a, Inserting(t, ids))
<1>1. CASE ids = {}
  BY <1>1 DEF Sound, Inserting, ClaimOf, Inserted, OneEach, Nobody
<1>2. CASE ids # {}
  BY <1>2 DEF Sound, Inserting, ClaimOf, Inserted, Nobody
<1> QED
  BY <1>1, <1>2

LEMMA UpdatingSound ==
  ASSUME NEW a \in Actors, NEW t \in Tenants, NEW c \in Nat \ {Nobody},
         NEW ids \in SUBSET Identities, OneEach(ids),
         NEW columns \in SUBSET Indexes, NEW opts \in BOOLEAN,
         opts /\ ExternalId \in columns => ids # {},
         a \in Workers => sessions[a].pc \in Inserted
  PROVE  Sound(a, Updating(t, c, ids, columns, opts))
BY DEF Sound, Updating, ClaimOf

LocksInv == LocksTypeOK /\ TransactionInv /\ ClaimsInv

(* A sound claim may be set while the requests of ingestion stand still.   *)
LEMMA SetStep ==
  ASSUME LocksInv, NEW a \in Actors, NEW c \in Claims, Sound(a, c),
         claim' = [claim EXCEPT ![a] = c], UNCHANGED sessions
  PROVE  claim' \in [Actors -> Claims] /\ ClaimsInv'
<1>1. claim \in [Actors -> Claims]
  BY DEF LocksInv, LocksTypeOK
<1>2. claim'[a] = c /\ \A b \in Actors : b # a => claim'[b] = claim[b]
  BY <1>1
<1>3. ASSUME NEW b \in Actors PROVE Sound(b, claim[b])'
  <2>1. Sound(b, claim'[b])
    BY <1>2 DEF LocksInv, ClaimsInv
  <2> QED
    BY <2>1 DEF Sound
<1> QED
  BY <1>1, <1>3 DEF ClaimsInv

(* The claims at the end of a step of EventIngestion.                      *)
LEMMA EndStep ==
  ASSUME LocksInv, EndTransactions,
         \A w \in Workers : claim[w].stage \in {"insert", "again"} \/ claim[w].mode # "" =>
           sessions'[w].pc = sessions[w].pc \/ sessions'[w].pc \notin Inserted
  PROVE  claim' \in [Actors -> Claims] /\ ClaimsInv'
<1>1. claim \in [Actors -> Claims]
  BY DEF LocksInv, LocksTypeOK
<1>2. claim' \in [Actors -> Claims]
  BY <1>1, NoClaimIs DEF EndTransactions
<1>3. ASSUME NEW a \in Actors PROVE Sound(a, claim[a])'
  <2>1. CASE a \in Workers /\ sessions'[a].pc \notin Inserted
    <3>1. claim'[a] = NoClaim
      BY <2>1 DEF EndTransactions
    <3> QED
      BY <3>1, NoClaimIs DEF Sound, OneEach
  <2>2. CASE a \notin Workers
    <3>1. claim'[a] = claim[a] /\ Sound(a, claim[a])
      BY <2>2 DEF EndTransactions, LocksInv, ClaimsInv
    <3> QED
      BY <2>2, <3>1 DEF Sound
  <2>3. CASE a \in Workers /\ sessions'[a].pc \in Inserted
    <3>1. claim'[a] = claim[a] /\ Sound(a, claim[a])
      BY <2>3 DEF EndTransactions, LocksInv, ClaimsInv
    <3> QED
      BY <2>3, <3>1 DEF Sound
  <2> QED
    BY <2>1, <2>2, <2>3
<1> QED
  BY <1>2, <1>3 DEF ClaimsInv

(* Only the worker that takes a step of Advance, or fails, changes its     *)
(* session; a failing one leaves its transaction.                          *)
LEMMA OneSession ==
  ASSUME TypeOK, NEW w \in Workers, Advance(w) \/ DatabaseError(w)
  PROVE  /\ \A v \in Workers : v # w => sessions'[v] = sessions[v]
         /\ DatabaseError(w) => sessions'[w].pc \notin Inserted
<1>1. CASE DatabaseError(w)
  BY <1>1, ZenonT(60) DEF DatabaseError, Fail, TypeOK, Sessions, Inserted
<1>2. CASE Advance(w)
  <2>1. \A v \in Workers : v # w => sessions'[v] = sessions[v]
    BY <1>2, ZenonT(60) DEF Advance, InsertLeadEvent, UpsertCampaignStats, UpsertWorkflowStats,
                UpsertRevenueSnapshot, CommitEvent, CommitDuplicate, StoreFailedEvent,
                RefreshFailedEvent, NoteRetryFailure, Reply, Answer500, Goto, Fail, TypeOK
  <2> QED
    BY <1>1, <2>1
<1> QED
  BY <1>1, <1>2

(* A failure ends the claim with the transaction.                          *)
LEMMA FailEnds ==
  ASSUME LocksInv, NEW w \in Workers, DatabaseError(w), EndTransactions
  PROVE  claim' \in [Actors -> Claims] /\ ClaimsInv'
<1>1. \A v \in Workers : sessions'[v].pc = sessions[v].pc \/ sessions'[v].pc \notin Inserted
  BY OneSession DEF LocksInv, LocksTypeOK
<1> QED
  BY <1>1, EndStep

(* The identities an event brings, and the contacts that have them.        *)
LEMMA EventContact ==
  ASSUME LocksTypeOK, NEW w \in Workers
  PROVE  /\ sessions[w].event.tenant_id \in Tenants
         /\ Brings(w) \in SUBSET Identities /\ OneEach(Brings(w))
         /\ \A i \in Brings(w) : Has(w, i) \in Nat
<1>1. sessions[w].event \in Events
  BY DEF LocksTypeOK, TypeOK, Sessions
<1>2. sessions[w].event.tenant_id \in Tenants
  BY <1>1, EventsAssumption DEF EventFields
<1>3. Brings(w) \in SUBSET Identities /\ OneEach(Brings(w))
  BY <1>1, IdentitiesAssumption DEF Brings
<1> QED
  BY <1>2, <1>3 DEF LocksTypeOK, Entries, Has

LEMMA UpdateFoundStep ==
  ASSUME LocksInv, NEW w \in Workers, sessions[w].pc = "campaign", UpdateFound(w)
  PROVE  claim' \in [Actors -> Claims] /\ ClaimsInv'
<1>0. LocksTypeOK /\ w \in Actors
  BY DEF LocksInv, Actors
<1> DEFINE t == sessions[w].event.tenant_id
           given(i) == {j \in Brings(w) : Has(w, j) # Has(w, i)}
           columns(i) == {Index[j] : j \in given(i)}
           opts == sessions[w].event.event_type \in OPT_OUT_ALL_EVENTS
<1>1. PICK i \in Brings(w) :
        Has(w, i) # Nobody /\ SetClaim(w, Updating(t, Has(w, i), given(i), columns(i), opts))
  BY DEF UpdateFound
<1>2. t \in Tenants /\ Has(w, i) \in Nat \ {Nobody} /\ given(i) \in SUBSET Identities
  BY <1>0, <1>1, EventContact
<1>3. OneEach(given(i))
  BY <1>0, EventContact DEF OneEach
<1>4. columns(i) \in SUBSET Indexes /\ opts \in BOOLEAN
  BY <1>2, IndexType
<1>5. opts /\ ExternalId \in columns(i) => given(i) # {}
  OBVIOUS
<1>6. sessions[w].pc \in Inserted
  BY DEF Inserted
<1>7. Sound(w, Updating(t, Has(w, i), given(i), columns(i), opts))
  BY <1>0, <1>2, <1>3, <1>4, <1>5, <1>6, UpdatingSound
<1>8. Updating(t, Has(w, i), given(i), columns(i), opts) \in Claims
  BY <1>2, <1>4, ClaimTypes
<1> QED
  BY <1>0, <1>1, <1>7, <1>8, SetStep DEF SetClaim, vars

LEMMA FindStep ==
  ASSUME LocksInv, NEW w \in Workers, FindContact(w) \/ FindAgain(w)
  PROVE  claim' \in [Actors -> Claims] /\ ClaimsInv'
<1>0. LocksTypeOK /\ w \in Actors /\ Sound(w, claim[w])
  BY DEF LocksInv, Actors, ClaimsInv
<1>1. sessions[w].pc = "campaign"
  BY <1>0 DEF FindContact, FindAgain, Sound
<1>2. CASE UpdateFound(w)
  BY <1>1, <1>2, UpdateFoundStep
<1>3. CASE SetClaim(w, Inserting(sessions[w].event.tenant_id, Brings(w)))
  <2>1. sessions[w].event.tenant_id \in Tenants /\ Brings(w) \in SUBSET Identities
        /\ OneEach(Brings(w))
    BY <1>0, EventContact
  <2>2. Sound(w, Inserting(sessions[w].event.tenant_id, Brings(w)))
    BY <1>0, <1>1, <2>1, InsertingSound
  <2>3. 1 \in Nat /\ {} \in SUBSET Indexes /\ TRUE \in BOOLEAN
    OBVIOUS
  <2>4. Inserting(sessions[w].event.tenant_id, Brings(w)) \in Claims
    BY <2>1, <2>3, ClaimTypes
  <2> QED
    BY <1>0, <1>3, <2>2, <2>4, SetStep DEF SetClaim, vars
<1>4. CASE DatabaseError(w) /\ EndTransactions
  BY <1>4, FailEnds
<1> QED
  BY <1>2, <1>3, <1>4 DEF FindContact, FindAgain

LEMMA AddEntryStep ==
  ASSUME LocksInv, NEW a \in Actors, AddEntry(a)
  PROVE  claim' \in [Actors -> Claims] /\ ClaimsInv'
<1> DEFINE c == claim[a]
<1>0. c \in Claims /\ Sound(a, c)
  BY DEF LocksInv, LocksTypeOK, ClaimsInv
<1>1. PICK i \in Identities :
        /\ Adding(a, i)
        /\ SetClaim(a, [c EXCEPT !.todo = @ \ {i}, !.held = @ \cup {i},
                                 !.stage = IF c.todo = {i} THEN "settled" ELSE @])
  BY DEF AddEntry
<1> DEFINE d == [c EXCEPT !.todo = @ \ {i}, !.held = @ \cup {i},
                          !.stage = IF c.todo = {i} THEN "settled" ELSE @]
<1>2. /\ d \in Claims
      /\ d.todo = c.todo \ {i} /\ d.held = c.held \cup {i}
      /\ d.stage = (IF c.todo = {i} THEN "settled" ELSE c.stage)
      /\ d.contact = c.contact /\ d.columns = c.columns /\ d.opts = c.opts /\ d.mode = c.mode
  BY <1>0 DEF Claims
<1>s. SetClaim(a, d)
  BY <1>1
<1> HIDE DEF d
<1>3. i \in c.todo /\ \A j \in c.todo : Index[i] <= Index[j]
  BY <1>1 DEF Adding, NextEntry
<1>4. \/ c.stage = "insert" /\ c.contact = Nobody
      \/ c.stage = "settled" /\ c.contact # Nobody /\ c.mode \in Written
  BY <1>0, <1>1 DEF Adding, Flushing, Sound
<1>5. \A h \in d.held, j \in d.todo : Index[h] < Index[j]
  <2> SUFFICES ASSUME NEW h \in d.held, NEW j \in d.todo PROVE Index[h] < Index[j]
    OBVIOUS
  <2>1. j \in c.todo /\ j # i
    BY <1>2
  <2>2. CASE h \in c.held
    BY <1>0, <2>1, <2>2 DEF Sound
  <2>3. CASE h = i
    <3>1. Index[i] <= Index[j] /\ Index[i] # Index[j]
      BY <1>0, <1>3, <2>1 DEF Sound, OneEach
    <3>2. Index[i] \in 1..3 /\ Index[j] \in 1..3
      BY <1>0, <1>3, <2>1, IndexType DEF Claims
    <3> QED
      BY <2>3, <3>1, <3>2
  <2> QED
    BY <1>2, <2>2, <2>3
<1>6. OneEach(d.todo)
  BY <1>0, <1>2 DEF Sound, OneEach
<1>7. d # NoClaim /\ (a \in Workers => sessions[a].pc \in Inserted)
  <2>1. c # NoClaim
    BY <1>4, NoClaimIs
  <2>2. d.stage # ""
    BY <1>2, <1>4
  <2> QED
    BY <1>0, <2>1, <2>2, NoClaimIs DEF Sound
<1>8. Sound(a, d)
  <2>1. a \in Workers /\ d.stage \in {"insert", "again"} => sessions[a].pc = "campaign"
    BY <1>0, <1>2 DEF Sound
  <2>2. d.stage \in {"insert", "settled"} /\ (d.stage = "insert" => d.contact = Nobody)
    BY <1>2, <1>4
  <2>3. d.contact = Nobody => ~d.opts /\ (d.stage = "settled" => d.todo = {})
    BY <1>0, <1>2, <1>4 DEF Sound
  <2>4. d.contact # Nobody => d.mode \in Written
    BY <1>2, <1>4
  <2>5. d.mode # "" => /\ d.stage = "settled" /\ d.contact # Nobody
                       /\ a \in Workers => sessions[a].pc = "commit"
    BY <1>0, <1>2, <1>4 DEF Sound
  <2>6. d.mode = "share" => d.opts
    BY <1>0, <1>2 DEF Sound
  <2> QED
    BY <1>5, <1>6, <1>7, <2>1, <2>2, <2>3, <2>4, <2>5, <2>6 DEF Sound
<1> QED
  BY <1>s, <1>2, <1>8, SetStep DEF SetClaim, vars

LEMMA LockRowStep ==
  ASSUME LocksInv, NEW a \in Actors, LockRow(a)
  PROVE  claim' \in [Actors -> Claims] /\ ClaimsInv'
<1> DEFINE c == claim[a]
<1>0. c \in Claims /\ Sound(a, c)
  BY DEF LocksInv, LocksTypeOK, ClaimsInv
<1>1. PICK mode \in {"share", "nokey", "key"} :
        Locking(a, mode) /\ SetClaim(a, [c EXCEPT !.mode = mode])
  BY DEF LockRow
<1> DEFINE d == [c EXCEPT !.mode = mode]
<1>2. /\ d \in Claims /\ d.mode = mode
      /\ d.todo = c.todo /\ d.held = c.held /\ d.stage = c.stage
      /\ d.contact = c.contact /\ d.columns = c.columns /\ d.opts = c.opts
  BY <1>0, <1>1 DEF Claims, Written
<1>3. /\ c.stage = "settled" /\ c.contact # Nobody /\ c.mode \notin Written
      /\ a \in Workers => sessions[a].pc = "commit"
      /\ mode = "share" => c.opts
  BY <1>1 DEF Locking, Flushing
<1>4. Sound(a, d)
  BY <1>0, <1>2, <1>3 DEF Sound, Inserted
<1> QED
  BY <1>1, <1>2, <1>4, SetStep DEF SetClaim, vars

(* To end a transaction by itself.                                         *)
LEMMA ReleaseStep ==
  ASSUME LocksInv, NEW a \in Actors, claim' = [claim EXCEPT ![a] = NoClaim], UNCHANGED sessions
  PROVE  claim' \in [Actors -> Claims] /\ ClaimsInv'
BY NoClaimIs, NoClaimSound, SetStep

LEMMA EntryTakenStep ==
  ASSUME LocksInv, NEW a \in Actors, EntryTaken(a)
  PROVE  claim' \in [Actors -> Claims] /\ ClaimsInv'
<1>0. Sound(a, claim[a])
  BY DEF LocksInv, ClaimsInv
<1>1. CASE SetClaim(a, NoClaim)
  BY <1>1, ReleaseStep DEF SetClaim, vars
<1>2. CASE /\ a \in Workers /\ claim[a].stage = "insert"
           /\ SetClaim(a, [NoClaim EXCEPT !.stage = "again"])
  <2> DEFINE d == [NoClaim EXCEPT !.stage = "again"]
  <2>1. /\ d \in Claims /\ d.stage = "again" /\ d.contact = Nobody /\ d.todo = {}
        /\ d.held = {} /\ d.columns = {} /\ d.opts = FALSE /\ d.mode = ""
    BY NoClaimIs DEF Claims
  <2>2. sessions[a].pc = "campaign"
    BY <1>0, <1>2 DEF Sound
  <2>3. Sound(a, d)
    BY <2>1, <2>2 DEF Sound, OneEach, Inserted
  <2> QED
    BY <1>2, <2>1, <2>3, SetStep DEF SetClaim, vars
<1>3. CASE a \in Workers /\ DatabaseError(a) /\ EndTransactions
  BY <1>3, FailEnds
<1> QED
  BY <1>1, <1>2, <1>3 DEF EntryTaken

(* The other statements of an event wait for no contact.                   *)
LEMMA StatementClaims ==
  ASSUME LocksInv, NEW w \in Workers, Statement(w) \/ FlushAndCommit(w)
  PROVE  claim' \in [Actors -> Claims] /\ ClaimsInv'
<1>0. Sound(w, claim[w]) /\ TypeOK
  BY DEF LocksInv, LocksTypeOK, ClaimsInv, Actors
<1>1. Advance(w)
  BY DEF Statement, FlushAndCommit, Advance
<1>2. \A v \in Workers : v # w => sessions'[v] = sessions[v]
  BY <1>0, <1>1, OneSession
<1>3. EndTransactions
  BY DEF Statement, FlushAndCommit
<1>4. CASE FlushAndCommit(w)
  <2>1. sessions'[w].pc \notin Inserted
    BY <1>0, <1>4, ZenonT(40) DEF FlushAndCommit, CommitEvent, TypeOK, Sessions, Inserted
  <2> QED
    BY <1>2, <1>3, <2>1, EndStep
<1>5. CASE Statement(w)
  <2>1. ~(claim[w].stage \in {"insert", "again"} \/ claim[w].mode # "")
    <3>1. claim[w].stage \in {"insert", "again"} => sessions[w].pc = "campaign"
      BY <1>0 DEF Sound
    <3>2. claim[w].mode # "" => sessions[w].pc = "commit"
      BY <1>0 DEF Sound
    <3>3. sessions[w].pc # "commit" /\ (sessions[w].pc = "campaign" => claim[w].stage = "settled")
      BY <1>5 DEF Statement, InsertLeadEvent, UpsertCampaignStats, UpsertWorkflowStats,
                  UpsertRevenueSnapshot, CommitDuplicate, StoreFailedEvent,
                  RefreshFailedEvent, NoteRetryFailure, Reply
    <3> QED
      BY <3>1, <3>2, <3>3
  <2> QED
    BY <1>2, <1>3, <2>1, EndStep
<1> QED
  BY <1>4, <1>5

(* What a commit stores of a contact.                                      *)
LEMMA StoreType ==
  ASSUME LocksTypeOK, NEW a \in Actors, StoreContact(a)
  PROVE  /\ contacts' \subseteq Tenants \X (Nat \ {Nobody})
         /\ owner' \in [Entries -> Nat]
         /\ next_contact' \in Nat \ {Nobody}
<1> DEFINE c == claim[a]
           id == IF c.contact = Nobody THEN next_contact ELSE c.contact
<1>1. c \in Claims /\ next_contact \in Nat \ {Nobody} /\ owner \in [Entries -> Nat]
      /\ contacts \subseteq Tenants \X (Nat \ {Nobody})
  BY DEF LocksTypeOK
<1>2. c.tenant \in Tenants /\ id \in Nat \ {Nobody}
  BY <1>1 DEF Claims
<1>3. contacts' = contacts \cup {<<c.tenant, id>>}
  BY DEF StoreContact
<1>4. owner' = [x \in Entries |->
         IF x[1] = c.tenant /\ x[2] \in c.held THEN id
         ELSE IF x[1] = c.tenant /\ owner[x] = id /\ Index[x[2]] \in c.columns THEN Nobody
         ELSE owner[x]]
  BY DEF StoreContact
<1>5. next_contact' = next_contact + 1 \/ next_contact' = next_contact
  BY DEF StoreContact
<1> HIDE DEF id, c
<1>6. owner' \in [Entries -> Nat]
  BY <1>1, <1>2, <1>4 DEF Nobody
<1>7. next_contact' \in Nat \ {Nobody}
  BY <1>1, <1>5 DEF Nobody
<1> QED
  BY <1>1, <1>2, <1>3, <1>6, <1>7

(* A clerk that begins to update a contact.                                *)
LEMMA BeginUpdate ==
  ASSUME LocksInv, NEW k \in Clerks, NEW t \in Tenants, NEW c \in Nat \ {Nobody},
         NEW ids \in SUBSET Identities, OneEach(ids),
         NEW columns \in SUBSET Indexes, NEW opts \in BOOLEAN,
         opts /\ ExternalId \in columns => ids # {},
         claim' = [claim EXCEPT ![k] = Updating(t, c, ids, columns, opts)],
         UNCHANGED sessions
  PROVE  claim' \in [Actors -> Claims] /\ ClaimsInv'
<1>1. k \in Actors /\ k \notin Workers
  BY ClerksAssumption DEF Actors
<1>2. Sound(k, Updating(t, c, ids, columns, opts))
  BY <1>1, UpdatingSound
<1>3. Updating(t, c, ids, columns, opts) \in Claims
  BY ClaimTypes
<1> QED
  BY <1>1, <1>2, <1>3, SetStep

(* A request about a contact begins with a sound claim.                    *)
LEMMA RequestStep ==
  ASSUME LocksInv, NEW k \in Clerks, ContactRequests(k)
  PROVE  /\ claim' \in [Actors -> Claims] /\ ClaimsInv'
         /\ UNCHANGED <<vars, contact_vars>> /\ contact_requests' \in Nat
<1>0. /\ k \in Actors /\ k \notin Workers
      /\ contact_requests \in Nat /\ contacts \subseteq Tenants \X (Nat \ {Nobody})
      /\ tenants \subseteq Tenants
  BY ClerksAssumption DEF LocksInv, Actors, LocksTypeOK, TypeOK
<1>1. /\ UNCHANGED <<vars, contact_vars>>
      /\ contact_requests' = contact_requests + 1 \/ contact_requests' = contact_requests
  <2>1. CASE CreateContact(k)
    BY <2>1, Zenon DEF CreateContact, ContactRequest
  <2>2. CASE PatchContact(k)
    BY <2>2, Zenon DEF PatchContact, ContactRequest
  <2>3. CASE OptContact(k)
    BY <2>3, Zenon DEF OptContact, ContactRequest
  <2>4. CASE AnonymizeContact(k)
    BY <2>4, Zenon DEF AnonymizeContact, ContactRequest
  <2>5. CASE ContactError(k)
    BY <2>5, Zenon DEF ContactError, SetClaim
  <2> QED
    BY <2>1, <2>2, <2>3, <2>4, <2>5 DEF ContactRequests
<1>2. UNCHANGED sessions
  BY <1>1 DEF vars
<1>3. \A c \in contacts : c[1] \in Tenants /\ c[2] \in Nat \ {Nobody}
  BY <1>0
<1>4. CASE CreateContact(k)
  <2>1. PICK t \in tenants, ids \in Drafts : claim' = [claim EXCEPT ![k] = Inserting(t, ids)]
    BY <1>4 DEF CreateContact, ContactRequest
  <2>2. t \in Tenants /\ ids \in SUBSET Identities /\ OneEach(ids)
    BY <1>0, <2>1, IdentitiesAssumption
  <2>3. Sound(k, Inserting(t, ids))
    BY <1>0, <2>2, InsertingSound
  <2>4. Inserting(t, ids) \in Claims
    <3>1. 1 \in Nat /\ {} \in SUBSET Indexes /\ TRUE \in BOOLEAN
      OBVIOUS
    <3> QED
      BY <2>2, <3>1, ClaimTypes
  <2>5. claim' \in [Actors -> Claims] /\ ClaimsInv'
    BY <1>0, <1>2, <2>1, <2>3, <2>4, SetStep
  <2> QED
    BY <1>0, <1>1, <2>5
<1>5. CASE PatchContact(k)
  <2>1. PICK c \in contacts, ids \in Drafts : \E emptied \in SUBSET {Index[i] : i \in Owned(c)} :
          claim' = [claim EXCEPT ![k] =
            Updating(c[1], c[2], ids \ Owned(c),
                     emptied \cup {Index[i] : i \in ids \ Owned(c)}, FALSE)]
    BY <1>5, Zenon DEF PatchContact, ContactRequest
  <2>2. PICK emptied \in SUBSET {Index[i] : i \in Owned(c)} :
          claim' = [claim EXCEPT ![k] =
            Updating(c[1], c[2], ids \ Owned(c),
                     emptied \cup {Index[i] : i \in ids \ Owned(c)}, FALSE)]
    BY <2>1
  <2> DEFINE given == ids \ Owned(c)
             columns == emptied \cup {Index[i] : i \in given}
  <2>3. given \in SUBSET Identities /\ OneEach(given)
    BY IdentitiesAssumption DEF OneEach
  <2>4. columns \in SUBSET Indexes
    BY <2>3, IndexType DEF Owned
  <2>5. claim' = [claim EXCEPT ![k] = Updating(c[1], c[2], given, columns, FALSE)]
    BY <2>2
  <2> HIDE DEF given, columns
  <2>6. c[1] \in Tenants /\ c[2] \in Nat \ {Nobody} /\ FALSE \in BOOLEAN
    BY <1>3
  <2>7. claim' \in [Actors -> Claims] /\ ClaimsInv'
    BY <1>2, <2>3, <2>4, <2>5, <2>6, BeginUpdate
  <2> QED
    BY <1>0, <1>1, <2>7
<1>6. CASE OptContact(k)
  <2>1. PICK c \in contacts, out \in BOOLEAN :
          claim' = [claim EXCEPT ![k] = Updating(c[1], c[2], {}, {}, out)]
    BY <1>6 DEF OptContact, ContactRequest
  <2>2. OneEach({}) /\ {} \in SUBSET Identities /\ {} \in SUBSET Indexes /\ ExternalId \notin {}
    BY DEF OneEach
  <2>3. c[1] \in Tenants /\ c[2] \in Nat \ {Nobody}
    BY <1>3
  <2>4. claim' \in [Actors -> Claims] /\ ClaimsInv'
    BY <1>2, <2>1, <2>2, <2>3, BeginUpdate
  <2> QED
    BY <1>0, <1>1, <2>4
<1>7. CASE AnonymizeContact(k)
  <2>1. PICK c \in contacts :
          claim' = [claim EXCEPT ![k] =
            Updating(c[1], c[2], {}, {Index[i] : i \in Owned(c)}, FALSE)]
    BY <1>7, Zenon DEF AnonymizeContact, ContactRequest
  <2> DEFINE columns == {Index[i] : i \in Owned(c)}
  <2>2. OneEach({}) /\ {} \in SUBSET Identities /\ FALSE \in BOOLEAN
    BY DEF OneEach
  <2>3. columns \in SUBSET Indexes
    BY IndexType DEF Owned
  <2>4. claim' = [claim EXCEPT ![k] = Updating(c[1], c[2], {}, columns, FALSE)]
    BY <2>1
  <2> HIDE DEF columns
  <2>5. c[1] \in Tenants /\ c[2] \in Nat \ {Nobody}
    BY <1>3
  <2>6. claim' \in [Actors -> Claims] /\ ClaimsInv'
    BY <1>2, <2>2, <2>3, <2>4, <2>5, BeginUpdate
  <2> QED
    BY <1>0, <1>1, <2>6
<1>8. CASE ContactError(k)
  <2>1. claim' \in [Actors -> Claims] /\ ClaimsInv'
    BY <1>0, <1>2, <1>8, ReleaseStep DEF ContactError, SetClaim
  <2> QED
    BY <1>0, <1>1, <2>1
<1> QED
  BY <1>4, <1>5, <1>6, <1>7, <1>8 DEF ContactRequests

(* What happens around the requests moves no transaction on.               *)
LEMMA AroundStep ==
  ASSUME LocksInv, Around
  PROVE  /\ claim' \in [Actors -> Claims] /\ ClaimsInv'
         /\ contacts' \subseteq Tenants \X (Nat \ {Nobody}) /\ owner' \in [Entries -> Nat]
         /\ next_contact' \in Nat \ {Nobody} /\ contact_requests' \in Nat
<1>0. LocksTypeOK /\ TypeOK
  BY DEF LocksInv, LocksTypeOK
<1>1. /\ contacts' \subseteq Tenants \X (Nat \ {Nobody})
      /\ next_contact' \in Nat \ {Nobody} /\ contact_requests' \in Nat
  BY <1>0 DEF Around, LocksTypeOK, EndTransactions
<1>2. owner' \in [Entries -> Nat]
  BY <1>0 DEF Around, LocksTypeOK, Nobody
<1>3. ASSUME NEW w \in Workers, DatabaseError(w)
      PROVE  \A v \in Workers : sessions'[v].pc = sessions[v].pc \/ sessions'[v].pc \notin Inserted
  BY <1>0, <1>3, OneSession
<1>4. ASSUME NEW w \in Workers, DeliverWebhook(w) \/ RetryFailedEvent(w)
      PROVE  \A v \in Workers : sessions'[v].pc = sessions[v].pc \/ sessions'[v].pc \notin Inserted
  <2>1. sessions'[w].pc = "insert"
    BY <1>0, <1>4, ZenonT(60) DEF DeliverWebhook, RetryFailedEvent, IdleSession, TypeOK
  <2>2. \A v \in Workers : v # w => sessions'[v] = sessions[v]
    BY <1>0, <1>4, ZenonT(60) DEF DeliverWebhook, RetryFailedEvent, TypeOK
  <2> QED
    BY <2>1, <2>2, Zenon DEF Inserted
<1>5. ASSUME NEW p \in Processes, Crash(p)
      PROVE  \A v \in Workers : sessions'[v].pc = sessions[v].pc \/ sessions'[v].pc \notin Inserted
  BY <1>5 DEF Crash, IdleSession, Inserted
<1>6. ASSUME DeleteFailedEvent \/ \E t \in Tenants : DeleteTenant(t)
      PROVE  \A v \in Workers : sessions'[v].pc = sessions[v].pc \/ sessions'[v].pc \notin Inserted
  BY <1>6 DEF DeleteFailedEvent, DeleteTenant
<1>7. \A v \in Workers : sessions'[v].pc = sessions[v].pc \/ sessions'[v].pc \notin Inserted
  BY <1>3, <1>4, <1>5, <1>6 DEF Around
<1>8. EndTransactions
  BY DEF Around
<1>9. claim' \in [Actors -> Claims] /\ ClaimsInv'
  BY <1>7, <1>8, EndStep
<1> QED
  BY <1>1, <1>2, <1>9

LEMMA LocksInitially == LocksInit => LocksInv
<1> SUFFICES ASSUME LocksInit PROVE LocksInv
  OBVIOUS
<1>1. TypeOK /\ TransactionInv
  BY InitType, InitTransaction DEF LocksInit
<1>2. contacts \subseteq Tenants \X (Nat \ {Nobody})
  BY IdentitiesAssumption DEF LocksInit, Nobody
<1>3. claim \in [Actors -> Claims] /\ \A a \in Actors : claim[a] = NoClaim
  BY NoClaimIs DEF LocksInit
<1>4. ClaimsInv
  BY <1>3, NoClaimSound DEF ClaimsInv
<1>5. LocksTypeOK
  BY <1>1, <1>2, <1>3, IdentitiesAssumption DEF LocksInit, LocksTypeOK
<1> QED
  BY <1>1, <1>4, <1>5 DEF LocksInv

LEMMA LocksInductive == LocksInv /\ [LocksNext]_all_vars => LocksInv'
<1> SUFFICES ASSUME LocksInv, [LocksNext]_all_vars PROVE LocksInv'
  OBVIOUS
<1>0. LocksTypeOK /\ TypeOK /\ TransactionInv /\ ClaimsInv
  BY DEF LocksInv, LocksTypeOK
<1>1. TypeOK' /\ TransactionInv'
  BY <1>0, LocksStep, NextType, NextTransaction
<1> DEFINE Rest == /\ contacts' \subseteq Tenants \X (Nat \ {Nobody})
                   /\ owner' \in [Entries -> Nat]
                   /\ next_contact' \in Nat \ {Nobody} /\ contact_requests' \in Nat
           Claimed == claim' \in [Actors -> Claims] /\ ClaimsInv'
<1> SUFFICES Rest /\ Claimed
  BY <1>1 DEF LocksInv, LocksTypeOK
<1>2. UNCHANGED contact_vars /\ contact_requests' \in Nat => Rest
  BY <1>0 DEF contact_vars, LocksTypeOK
<1>3. UNCHANGED <<contact_vars, contact_requests>> => Rest
  BY <1>0, <1>2 DEF LocksTypeOK
<1> HIDE DEF Rest, Claimed
<1>4. CASE UNCHANGED all_vars
  <2>1. UNCHANGED <<claim, sessions, contact_vars, contact_requests>>
    BY <1>4 DEF all_vars, lock_vars, vars
  <2>2. ASSUME NEW a \in Actors PROVE Sound(a, claim[a])'
    BY <1>0, <2>1 DEF ClaimsInv, Sound
  <2>3. Claimed
    BY <1>0, <2>1, <2>2 DEF Claimed, ClaimsInv, LocksTypeOK
  <2> QED
    BY <1>3, <2>1, <2>3
<1>5. ASSUME NEW a \in Actors, Proceed(a) PROVE Rest /\ Claimed
  <2>1. CASE AddEntry(a)
    <3>1. UNCHANGED <<contact_vars, contact_requests>>
      BY <2>1 DEF AddEntry, SetClaim
    <3> QED
      BY <1>3, <2>1, <3>1, AddEntryStep DEF Claimed
  <2>2. CASE EntryTaken(a)
    <3>1. UNCHANGED <<contact_vars, contact_requests>>
      BY <2>2 DEF EntryTaken, SetClaim, EndTransactions
    <3> QED
      BY <1>3, <2>2, <3>1, EntryTakenStep DEF Claimed
  <2>3. CASE LockRow(a)
    <3>1. UNCHANGED <<contact_vars, contact_requests>>
      BY <2>3 DEF LockRow, SetClaim
    <3> QED
      BY <1>3, <2>3, <3>1, LockRowStep DEF Claimed
  <2>4. CASE a \in Workers /\ (FindContact(a) \/ FindAgain(a))
    <3>1. UNCHANGED <<contact_vars, contact_requests>>
      BY <2>4 DEF FindContact, FindAgain, UpdateFound, SetClaim, EndTransactions
    <3> QED
      BY <1>3, <2>4, <3>1, FindStep DEF Claimed
  <2>5. CASE a \in Workers /\ FlushAndCommit(a)
    <3>1. StoreContact(a) /\ contact_requests' = contact_requests
      BY <2>5 DEF FlushAndCommit, EndTransactions
    <3>2. Rest
      BY <1>0, <3>1, StoreType DEF Rest, LocksTypeOK
    <3> QED
      BY <2>5, <3>2, StatementClaims DEF Claimed
  <2>6. CASE a \in Workers /\ Statement(a)
    <3>1. UNCHANGED <<contact_vars, contact_requests>>
      BY <2>6 DEF Statement, EndTransactions
    <3> QED
      BY <1>3, <2>6, <3>1, StatementClaims DEF Claimed
  <2>7. CASE CommitContact(a)
    <3>1. /\ StoreContact(a) /\ contact_requests' = contact_requests
          /\ claim' = [claim EXCEPT ![a] = NoClaim] /\ UNCHANGED sessions
      BY <2>7 DEF CommitContact, vars
    <3>2. Rest
      BY <1>0, <3>1, StoreType DEF Rest, LocksTypeOK
    <3> QED
      BY <3>1, <3>2, ReleaseStep DEF Claimed
  <2>8. CASE ContactGone(a)
    <3>1. /\ UNCHANGED <<contact_vars, contact_requests, sessions>>
          /\ claim' = [claim EXCEPT ![a] = NoClaim]
      BY <2>8 DEF ContactGone, SetClaim, vars
    <3> QED
      BY <1>3, <3>1, ReleaseStep DEF Claimed
  <2> QED
    BY <1>5, <2>1, <2>2, <2>3, <2>4, <2>5, <2>6, <2>7, <2>8 DEF Proceed
<1>6. CASE BreakDeadlock
  <2>1. ASSUME NEW w \in Workers, DatabaseError(w), EndTransactions, UNCHANGED contact_vars
        PROVE  Rest /\ Claimed
    BY <1>3, <2>1, FailEnds DEF Claimed, EndTransactions
  <2>2. ASSUME NEW k \in Actors, SetClaim(k, NoClaim) PROVE Rest /\ Claimed
    <3>1. /\ UNCHANGED <<contact_vars, contact_requests, sessions>>
          /\ claim' = [claim EXCEPT ![k] = NoClaim]
      BY <2>2 DEF SetClaim, vars
    <3> QED
      BY <1>3, <3>1, ReleaseStep DEF Claimed
  <2> QED
    BY <1>6, <2>1, <2>2 DEF BreakDeadlock
<1>7. ASSUME NEW k \in Clerks, ContactRequests(k) PROVE Rest /\ Claimed
  BY <1>2, <1>7, RequestStep DEF Claimed
<1>8. CASE Around
  BY <1>8, AroundStep DEF Rest, Claimed
<1> QED
  BY <1>4, <1>5, <1>6, <1>7, <1>8 DEF LocksNext

(* Every variable keeps its type.                                          *)
THEOREM LocksTypeCorrect == LocksSpec => []LocksTypeOK
<1>1. LocksInv => LocksTypeOK
  BY DEF LocksInv
<1> QED
  BY <1>1, LocksInitially, LocksInductive, PTL DEF LocksSpec

-----------------------------------------------------------------------------
(* Deadlocks.                                                              *)

(* Where a worker is that has written an aggregate row.                    *)
LEMMA WritersGoOn ==
  ASSUME LocksInv, NEW v \in Workers, NEW e \in Events
  PROVE  /\ e.campaign_id # NoId /\ row_lock[CampaignRow(e)] = v
              => sessions[v].pc \in {"workflow", "revenue", "commit"}
         /\ e.workflow_id # NoId /\ row_lock[WorkflowRow(e)] = v
              => sessions[v].pc \in {"revenue", "commit"}
         /\ row_lock[RevenueRow(e)] = v => sessions[v].pc = "commit"
<1>1. \A r \in Rows : row_lock[r] = v => Wrote(v, r)
  BY DEF LocksInv, TransactionInv, LocksFollowWrites
<1> QED
  BY <1>1, EventRows, RowFacts DEF Wrote

(* Without a member that gives an identity nobody in a deadlock has locked *)
(* a contact to write it, so nobody waits to flush; so no event is past    *)
(* its contact; and of those that insert a contact each waits for one that *)
(* is at a later index, of which there are three.                          *)
LEMMA DeadlocksAre == LocksInv => DeadlocksGiveIdentities
<1> SUFFICES ASSUME LocksInv, NEW as \in SUBSET Actors, Deadlock(as),
                    \A a \in as : Flushing(a) => claim[a].todo = {}
             PROVE  FALSE
  BY DEF DeadlocksGiveIdentities, GivesIdentity
<1>0. ASSUME NEW a \in as
      PROVE  /\ a \in Actors /\ claim[a] \in Claims /\ Sound(a, claim[a])
             /\ a \in Workers => sessions[a].event \in Events
             /\ \E b \in as : Waits(a, b)
  BY DEF LocksInv, LocksTypeOK, TypeOK, Sessions, ClaimsInv, Deadlock
<1>1. ASSUME NEW a \in as PROVE claim[a].mode \notin Written
  <2> SUFFICES ASSUME claim[a].mode \in Written PROVE FALSE
    OBVIOUS
  <2>1. Flushing(a)
    BY <1>0 DEF Sound, Flushing, Written
  <2>2. claim[a].todo = {} /\ (a \in Workers => sessions[a].pc = "commit")
    BY <2>1 DEF Flushing
  <2> QED
    BY <1>0, <2>2 DEF Waits, WaitsForKey, WaitsForAggregate, Adding, NextEntry, Locking
<1>2. ASSUME NEW a \in as PROVE ~Flushing(a)
  <2> SUFFICES ASSUME Flushing(a) PROVE FALSE
    OBVIOUS
  <2>1. ASSUME NEW c \in as, Flushing(c)
        PROVE  \E mode \in {"share", "nokey", "key"}, d \in as : Locking(c, mode) /\ RowLocked(c, mode, d)
    <3>1. claim[c].todo = {} /\ (c \in Workers => sessions[c].pc = "commit")
      BY <2>1 DEF Flushing
    <3> QED
      BY <1>0, <3>1 DEF Waits, WaitsForKey, WaitsForAggregate, Adding, NextEntry
  <2>2. PICK mode \in {"share", "nokey", "key"}, b \in as : Locking(a, mode) /\ RowLocked(a, mode, b)
    BY <2>1
  <2>3. claim[b].mode = "share"
    BY <1>1, <2>2 DEF RowLocked, Conflicts, Written
  <2>4. /\ Flushing(b) /\ claim[b].opts
        /\ ExternalId \in claim[b].columns => claim[b].todo # {}
    BY <1>0, <1>1, <2>3 DEF Sound, Flushing
  <2>5. ExternalId \notin claim[b].columns
    BY <2>4
  <2>6. PICK next \in {"share", "nokey", "key"}, d \in as : Locking(b, next) /\ RowLocked(b, next, d)
    BY <2>1, <2>4
  <2>7. next = "nokey"
    BY <2>3, <2>5, <2>6 DEF Locking
  <2> QED
    BY <1>1, <2>6, <2>7 DEF RowLocked, Conflicts, Written
<1>3. ASSUME NEW a \in as
      PROVE  /\ \A i \in Identities : Adding(a, i) => claim[a].stage = "insert"
             /\ \A mode : ~Locking(a, mode)
  BY <1>2 DEF Adding, Locking
<1>4. ASSUME NEW a \in as, a \in Workers, claim[a].stage = "insert"
      PROVE  sessions[a].pc = "campaign"
  BY <1>0, <1>4 DEF Sound
<1>5. \A a \in as : a \in Workers => sessions[a].pc # "commit"
  <2> SUFFICES ASSUME NEW a \in as, a \in Workers, sessions[a].pc = "commit" PROVE FALSE
    OBVIOUS
  <2>1. PICK b \in as : Waits(a, b)
    BY <1>0
  <2>2. ~WaitsForKey(a, b) /\ ~WaitsForAggregate(a, b)
    BY DEF WaitsForKey, WaitsForAggregate
  <2>3. \A i \in Identities : ~Adding(a, i)
    BY <1>3, <1>4
  <2> QED
    BY <1>3, <2>1, <2>2, <2>3 DEF Waits
<1>6. \A a \in as : a \in Workers => sessions[a].pc # "revenue"
  <2> SUFFICES ASSUME NEW a \in as, a \in Workers, sessions[a].pc = "revenue" PROVE FALSE
    OBVIOUS
  <2>1. PICK b \in as : Waits(a, b)
    BY <1>0
  <2>2. b \in Workers /\ row_lock[RevenueRow(sessions[a].event)] = b
    BY <1>3, <1>4, <2>1 DEF Waits, WaitsForKey, WaitsForAggregate
  <2> QED
    BY <1>0, <1>5, <2>2, WritersGoOn
<1>7. \A a \in as : a \in Workers => sessions[a].pc # "workflow"
  <2> SUFFICES ASSUME NEW a \in as, a \in Workers, sessions[a].pc = "workflow" PROVE FALSE
    OBVIOUS
  <2>1. PICK b \in as : Waits(a, b)
    BY <1>0
  <2>2. /\ b \in Workers /\ sessions[a].event.workflow_id # NoId
        /\ row_lock[WorkflowRow(sessions[a].event)] = b
    BY <1>3, <1>4, <2>1 DEF Waits, WaitsForKey, WaitsForAggregate
  <2> QED
    BY <1>0, <1>5, <1>6, <2>2, WritersGoOn
<1>8. \A a \in as : a \in Workers /\ sessions[a].pc = "campaign" => claim[a].stage # "settled"
  <2> SUFFICES ASSUME NEW a \in as, a \in Workers, sessions[a].pc = "campaign",
                      claim[a].stage = "settled"
               PROVE  FALSE
    OBVIOUS
  <2>1. PICK b \in as : Waits(a, b)
    BY <1>0
  <2>2. /\ b \in Workers /\ sessions[a].event.campaign_id # NoId
        /\ row_lock[CampaignRow(sessions[a].event)] = b
    BY <1>3, <2>1 DEF Waits, WaitsForKey, WaitsForAggregate
  <2> QED
    BY <1>0, <1>5, <1>6, <1>7, <2>2, WritersGoOn
<1>9. ASSUME NEW a \in as, claim[a].stage = "insert"
      PROVE  \E b \in as, i \in Identities : Adding(a, i) /\ InDoubt(a, i, b)
  <2>1. a \in Workers => sessions[a].pc = "campaign"
    BY <1>4, <1>9
  <2> QED
    BY <1>0, <1>3, <1>9, <2>1 DEF Waits, WaitsForKey, WaitsForAggregate
<1>10. ASSUME NEW a \in as, NEW i \in Identities, Adding(a, i)
       PROVE  \E b \in as, j \in Identities : Adding(b, j) /\ Index[i] < Index[j]
  <2>1. claim[a].stage = "insert"
    BY <1>3, <1>10
  <2>2. PICK b \in as, h \in Identities : Adding(a, h) /\ InDoubt(a, h, b)
    BY <1>9, <2>1
  <2>3. h = i
    <3>1. h \in claim[a].todo /\ i \in claim[a].todo
          /\ Index[h] <= Index[i] /\ Index[i] <= Index[h]
      BY <1>10, <2>2 DEF Adding, NextEntry
    <3>2. Index[h] = Index[i]
      BY <3>1, IndexType
    <3> QED
      BY <1>0, <3>1, <3>2 DEF Sound, OneEach
  <2>4. i \in claim[b].held
    BY <1>1, <2>2, <2>3 DEF InDoubt
  <2>5. claim[b].stage \in {"insert", "settled"} /\ claim[b].contact = Nobody
    <3>1. claim[b].stage \notin {"", "again"} /\ claim[b].contact = Nobody
      BY <1>0, <1>1, <2>4 DEF Sound
    <3> QED
      BY <1>0, <3>1 DEF Claims
  <2>6. claim[b].stage # "settled"
    <3> SUFFICES ASSUME claim[b].stage = "settled" PROVE FALSE
      OBVIOUS
    <3>1. b \in Workers => sessions[b].pc \in Inserted
      BY <1>0, <2>4, NoClaimIs DEF Sound
    <3>2. b \notin Workers
      BY <1>5, <1>6, <1>7, <1>8, <3>1 DEF Inserted
    <3> QED
      BY <1>0, <1>3, <3>2 DEF Waits
  <2>7. PICK j \in Identities : Adding(b, j)
    BY <1>9, <2>5, <2>6
  <2>8. Index[i] < Index[j]
    BY <1>0, <2>4, <2>7 DEF Adding, NextEntry, Sound
  <2> QED
    BY <2>7, <2>8
<1>11. \A a \in as, i \in Identities : ~Adding(a, i)
  <2> SUFFICES ASSUME NEW a \in as, NEW i \in Identities, Adding(a, i) PROVE FALSE
    OBVIOUS
  <2>1. PICK b \in as, j \in Identities : Adding(b, j) /\ Index[i] < Index[j]
    BY <1>10
  <2>2. PICK c \in as, k \in Identities : Adding(c, k) /\ Index[j] < Index[k]
    BY <1>10, <2>1
  <2>3. PICK d \in as, l \in Identities : Adding(d, l) /\ Index[k] < Index[l]
    BY <1>10, <2>2
  <2>4. Index[i] \in 1..3 /\ Index[j] \in 1..3 /\ Index[k] \in 1..3 /\ Index[l] \in 1..3
    BY IndexType
  <2> QED
    BY <2>1, <2>2, <2>3, <2>4
<1>12. ASSUME NEW a \in as
       PROVE  \E b \in as : /\ a \in Workers /\ sessions[a].pc = "insert"
                           /\ b \in Workers /\ sessions[b].pc \in Inserted
  <2>1. PICK b \in as : Waits(a, b)
    BY <1>0
  <2>2. a \in Workers /\ b \in Workers /\ (WaitsForKey(a, b) \/ WaitsForAggregate(a, b))
    BY <1>3, <1>11, <2>1 DEF Waits
  <2>3. ~WaitsForAggregate(a, b)
    BY <1>6, <1>7, <1>8, <2>2 DEF WaitsForAggregate
  <2> QED
    BY <2>2, <2>3 DEF WaitsForKey
<1> QED
  BY <1>12 DEF Deadlock, Inserted

(* Every deadlock has a transaction that gives an identity to a contact    *)
(* that is there: an event's flush or a PATCH.                             *)
THEOREM DeadlocksNeedAnIdentity == LocksSpec => []DeadlocksGiveIdentities
<1>1. LocksInv => DeadlocksGiveIdentities
  BY DeadlocksAre
<1> QED
  BY <1>1, LocksInitially, LocksInductive, PTL DEF LocksSpec

=============================================================================

----------------------------- MODULE LockOrder ------------------------------
(***************************************************************************)
(* What the transaction of an event waits for: EventIngestion's key and    *)
(* aggregate rows, and with them its contact, one lock a step.             *)
(*                                                                         *)
(* A contact that is not there is inserted in a savepoint before the       *)
(* aggregates are updated, entry by entry of the unique indexes, and its   *)
(* entries are held until the transaction ends.  One that is there is      *)
(* updated by the flush of the commit (autoflush is off): the row first,   *)
(* then an entry for each identity it is given.  So the two lock in        *)
(* opposite orders, and the contact routes, on threads of their own, lock  *)
(* the same rows and entries in between.  PostgreSQL breaks the deadlocks. *)
(*                                                                         *)
(* What a contact is but for its identities is left to Contacts.  Message  *)
(* logs and the rows of the queue are left out, and the deletion of a      *)
(* tenant stays one step.                                                  *)
(***************************************************************************)
EXTENDS EventIngestion

CONSTANTS
  Clerks,      \* threads that serve the contact routes, one request at a time
  Identities,  \* external ids, emails and phones
  Index,       \* the unique index each belongs to: [Identities -> Indexes]
  Carries,     \* the identities an event brings: [Events -> SUBSET Identities]
  Drafts,      \* the identities an administrator may give a contact
  Known,       \* <<tenant, contact>> of the contacts there are at first
  KnownBy,     \* the contact that has an identity at first, or Nobody
  FirstNew,    \* ids from here on were not given out
  MaxContactRequests

Actors == Workers \cup Clerks

(* contacts_tenant_external_contact_uq, contacts_tenant_email_uq and       *)
(* contacts_tenant_normalized_phone_uq, in the order they were created:    *)
(* the one in which a statement puts its entries into them.                *)
Indexes == 1..3
ExternalId == 1

Entries == Tenants \X Identities
Nobody == 0

OneEach(ids) == \A i, j \in ids : Index[i] = Index[j] => i = j

ASSUME ClerksAssumption ==
  /\ Clerks \cap Workers = {} /\ MaxContactRequests \in Nat

ASSUME IdentitiesAssumption ==
  /\ Index \in [Identities -> Indexes]
  /\ Carries \in [Events -> SUBSET Identities] /\ \A e \in Events : OneEach(Carries[e])
  /\ Drafts \subseteq SUBSET Identities /\ \A ids \in Drafts : OneEach(ids)
  /\ FirstNew \in Nat \ {Nobody}
  /\ Known \subseteq Tenants \X (1..FirstNew - 1)
  /\ KnownBy \in [Entries -> Nat]
  /\ \A x \in Entries : KnownBy[x] # Nobody => <<x[1], KnownBy[x]>> \in Known

-----------------------------------------------------------------------------
VARIABLES
  contacts,         \* <<tenant, contact>> of the committed contacts
  owner,            \* the contact that has an identity: [Entries -> Nat]
  next_contact,     \* a contact id that was not given out
  claim,            \* what each open transaction holds of its contact, or will
  contact_requests  \* a counter for the bound

contact_vars == <<contacts, owner, next_contact>>
lock_vars == <<contact_vars, claim, contact_requests>>
all_vars == <<vars, lock_vars>>

(* Strengths of the lock on a contact's row: FOR KEY SHARE, taken for a    *)
(* foreign key; FOR NO KEY UPDATE; and FOR UPDATE, taken by an UPDATE of a *)
(* column a foreign key might refer to, which external_contact_id is.      *)
Written == {"nokey", "key"}
Conflicts == (Written \X Written) \cup {<<"share", "key">>, <<"key", "share">>}

(* A contact is not looked for yet; is inserted; is looked for again, as   *)
(* the insert met another; or is settled, with the entries a flush will    *)
(* put into the indexes.  The contact a transaction inserts is Nobody.     *)
Claims ==
  [stage   : {"", "insert", "again", "settled"},
   tenant  : Tenants,
   contact : Nat,
   todo    : SUBSET Identities,   \* entries it will make ...
   held    : SUBSET Identities,   \* ... and has made
   columns : SUBSET Indexes,      \* identity columns its UPDATE sets
   opts    : BOOLEAN,             \* it records an opt-out
   mode    : {"", "share"} \cup Written]  \* its lock on the contact's row

ClaimOf(stage, t, c, todo, columns, opts) ==
  [stage |-> stage, tenant |-> t, contact |-> c, todo |-> todo, held |-> {},
   columns |-> columns, opts |-> opts, mode |-> ""]

NoClaim == ClaimOf("", CHOOSE t \in Tenants : TRUE, Nobody, {}, {}, FALSE)
Inserting(t, ids) ==
  ClaimOf(IF ids = {} THEN "settled" ELSE "insert", t, Nobody, ids, {}, FALSE)
Updating(t, c, ids, columns, opts) == ClaimOf("settled", t, c, ids, columns, opts)

LocksTypeOK ==
  /\ TypeOK
  /\ contacts \subseteq Tenants \X (Nat \ {Nobody})
  /\ owner \in [Entries -> Nat]
  /\ next_contact \in Nat \ {Nobody}
  /\ claim \in [Actors -> Claims]
  /\ contact_requests \in Nat

LocksInit ==
  /\ Init
  /\ contacts = Known
  /\ owner = KnownBy
  /\ next_contact = FirstNew
  /\ claim = [a \in Actors |-> NoClaim]
  /\ contact_requests = 0

(* With a transaction ends what it held of its contact.                    *)
EndTransactions ==
  /\ claim' = [a \in Actors |-> IF a \in Workers /\ sessions'[a].pc \notin Inserted
                                THEN NoClaim ELSE claim[a]]
  /\ UNCHANGED contact_requests

SetClaim(a, c) ==
  /\ claim' = [claim EXCEPT ![a] = c]
  /\ UNCHANGED <<vars, contact_vars, contact_requests>>

-----------------------------------------------------------------------------
(* What a statement about a contact waits for.                             *)

(* Variant: the identities are written one by one, as the payload has it.  *)
AnyEntry(a, i) == i \in claim[a].todo

(* The entry that comes next.                                              *)
NextEntry(a, i) ==
  i \in claim[a].todo /\ \A j \in claim[a].todo : Index[i] <= Index[j]

(* The UPDATE of a contact that is there: autoflush is off, so it comes    *)
(* with the commit.                                                        *)
Flushing(a) ==
  /\ claim[a].stage = "settled" /\ claim[a].contact # Nobody
  /\ a \in Workers => sessions[a].pc = "commit"

Adding(a, i) ==
  /\ claim[a].stage = "insert" \/ (Flushing(a) /\ claim[a].mode \in Written)
  /\ NextEntry(a, i)

(* The lock on its row the flush of a takes next.  The unit of work writes *)
(* the opt-out record first, with its foreign key, and then the contact.   *)
Locking(a, mode) ==
  LET c == claim[a] IN
  /\ Flushing(a) /\ c.mode \notin Written
  /\ mode = IF c.opts /\ c.mode = "" THEN "share"
            ELSE IF ExternalId \in c.columns THEN "key" ELSE "nokey"

(* The transaction of b has a say in whether an identity is free: it has   *)
(* put it into the index, or it has updated the contact that has it.       *)
InDoubt(a, i, b) ==
  LET has == owner[<<claim[a].tenant, i>>] IN
  /\ b # a /\ claim[b].tenant = claim[a].tenant
  /\ \/ i \in claim[b].held
     \/ has # Nobody /\ claim[b].contact = has /\ claim[b].mode \in Written

RowLocked(a, mode, b) ==
  /\ b # a /\ claim[b].tenant = claim[a].tenant /\ claim[b].contact = claim[a].contact
  /\ <<mode, claim[b].mode>> \in Conflicts

-----------------------------------------------------------------------------
(* _upsert_contact_from_event.                                             *)

Brings(w) == Carries[sessions[w].event]

Has(w, i) == owner[<<sessions[w].event.tenant_id, i>>]

NothingFound(w) == \A i \in Brings(w) : Has(w, i) = Nobody

(* _find_existing_contact goes by external id, then email, then phone; the *)
(* contact found is given what else the event brings, in place of what it  *)
(* had, be it another contact's.                                           *)
UpdateFound(w) ==
  LET e == sessions[w].event IN
  \E i \in Brings(w) :
    LET given == {j \in Brings(w) : Has(w, j) # Has(w, i)} IN
    /\ Has(w, i) # Nobody
    /\ \A j \in Brings(w) : Has(w, j) # Nobody => Index[i] <= Index[j]
    /\ SetClaim(w, Updating(e.tenant_id, Has(w, i), given, {Index[j] : j \in given},
                            e.event_type \in OPT_OUT_ALL_EVENTS))

FindContact(w) ==
  /\ sessions[w].pc = "campaign" /\ claim[w].stage = ""
  /\ \/ UpdateFound(w)
     \/ NothingFound(w) /\ SetClaim(w, Inserting(sessions[w].event.tenant_id, Brings(w)))

(* After an IntegrityError, which has ended the savepoint only.  When the  *)
(* contact in the way is gone by now the handler raises the error again.   *)
FindAgain(w) ==
  /\ claim[w].stage = "again"
  /\ \/ UpdateFound(w)
     \/ NothingFound(w) /\ DatabaseError(w) /\ EndTransactions /\ UNCHANGED contact_vars

-----------------------------------------------------------------------------
(* Statements that lock.                                                   *)

(* INSERT or UPDATE: one entry, once no other transaction is at it.        *)
AddEntry(a) ==
  \E i \in Identities :
    /\ Adding(a, i) /\ \A b \in Actors : ~InDoubt(a, i, b)
    /\ owner[<<claim[a].tenant, i>>] \in {Nobody, claim[a].contact}
    /\ SetClaim(a, [claim[a] EXCEPT !.todo = @ \ {i}, !.held = @ \cup {i},
                                    !.stage = IF claim[a].todo = {i} THEN "settled" ELSE @])

(* Variant: a request that fails on an identity keeps its transaction.     *)
EntryTakenNoRollback(a) ==
  /\ \E i \in Identities :
       /\ Adding(a, i) /\ \A b \in Actors : ~InDoubt(a, i, b)
       /\ owner[<<claim[a].tenant, i>>] \notin {Nobody, claim[a].contact}
  /\ \/ a \in Clerks /\ SetClaim(a, [claim[a] EXCEPT !.stage = "", !.todo = {}])
     \/ a \in Workers /\ claim[a].stage = "insert" /\ SetClaim(a, [NoClaim EXCEPT !.stage = "again"])
     \/ /\ a \in Workers /\ claim[a].stage = "settled"
        /\ DatabaseError(a) /\ EndTransactions /\ UNCHANGED contact_vars

(* The identity is another contact's.  In its savepoint an event tries to  *)
(* find that contact; a flush fails, and so does a request about contacts. *)
EntryTaken(a) ==
  /\ \E i \in Identities :
       /\ Adding(a, i) /\ \A b \in Actors : ~InDoubt(a, i, b)
       /\ owner[<<claim[a].tenant, i>>] \notin {Nobody, claim[a].contact}
  /\ \/ a \in Clerks /\ SetClaim(a, NoClaim)
     \/ a \in Workers /\ claim[a].stage = "insert" /\ SetClaim(a, [NoClaim EXCEPT !.stage = "again"])
     \/ /\ a \in Workers /\ claim[a].stage = "settled"
        /\ DatabaseError(a) /\ EndTransactions /\ UNCHANGED contact_vars

(* The opt-out record, or the UPDATE of the contact.                       *)
LockRow(a) ==
  \E mode \in {"share", "nokey", "key"} :
    /\ Locking(a, mode) /\ \A b \in Actors : ~RowLocked(a, mode, b)
    /\ <<claim[a].tenant, claim[a].contact>> \in contacts
    /\ SetClaim(a, [claim[a] EXCEPT !.mode = mode])

(* Nothing is left to lock.                                                *)
Complete(a) ==
  /\ claim[a].stage = "settled" /\ claim[a].todo = {}
  /\ claim[a].contact = Nobody \/ claim[a].mode \in Written

StoreContact(a) ==
  LET c == claim[a]
      new == c.contact = Nobody
      id == IF new THEN next_contact ELSE c.contact IN
  /\ contacts' = contacts \cup {<<c.tenant, id>>}
  /\ owner' = [x \in Entries |->
       IF x[1] = c.tenant /\ x[2] \in c.held THEN id
       ELSE IF x[1] = c.tenant /\ owner[x] = id /\ Index[x[2]] \in c.columns THEN Nobody
       ELSE owner[x]]
  /\ next_contact' = IF new THEN next_contact + 1 ELSE next_contact

FlushAndCommit(w) ==
  /\ Complete(w) /\ CommitEvent(w) /\ StoreContact(w)
  /\ EndTransactions

(* The other statements; the contact is settled before the aggregates.     *)
Statement(w) ==
  /\ \/ InsertLeadEvent(w)
     \/ claim[w].stage = "settled" /\ UpsertCampaignStats(w)
     \/ UpsertWorkflowStats(w) \/ UpsertRevenueSnapshot(w)
     \/ CommitDuplicate(w)
     \/ StoreFailedEvent(w) \/ RefreshFailedEvent(w) \/ NoteRetryFailure(w)
     \/ Reply(w)
  /\ EndTransactions
  /\ UNCHANGED contact_vars

-----------------------------------------------------------------------------
(* The contact routes: each reads its contact, if there is to be one, and  *)
(* sets attributes; the locks come with its commit.                        *)

ContactRequest(k, c) ==
  /\ claim[k].stage = "" /\ contact_requests < MaxContactRequests
  /\ claim' = [claim EXCEPT ![k] = c]
  /\ contact_requests' = contact_requests + 1
  /\ UNCHANGED <<vars, contact_vars>>

CreateContact(k) ==
  \E t \in tenants, ids \in Drafts : ContactRequest(k, Inserting(t, ids))

Owned(c) == {i \in Identities : owner[<<c[1], i>>] = c[2]}

(* The identities c does not have, and the columns that lose one.          *)
PatchContact(k) ==
  \E c \in contacts, ids \in Drafts :
    \E emptied \in SUBSET {Index[i] : i \in Owned(c)} :
      /\ \A i \in ids : Index[i] # ExternalId /\ Index[i] \notin emptied
      /\ ExternalId \notin emptied
      /\ ContactRequest(k, Updating(c[1], c[2], ids \ Owned(c),
                                    emptied \cup {Index[i] : i \in ids \ Owned(c)}, FALSE))

OptContact(k) ==
  \E c \in contacts, out \in BOOLEAN : ContactRequest(k, Updating(c[1], c[2], {}, {}, out))

AnonymizeContact(k) ==
  \E c \in contacts :
    ContactRequest(k, Updating(c[1], c[2], {}, {Index[i] : i \in Owned(c)}, FALSE))

CommitContact(k) ==
  /\ Complete(k) /\ claim[k].tenant \in tenants
  /\ StoreContact(k)
  /\ claim' = [claim EXCEPT ![k] = NoClaim]
  /\ UNCHANGED <<vars, contact_requests>>

(* The tenant was deleted meanwhile: the foreign key fails, or the UPDATE  *)
(* finds no row.                                                           *)
ContactGone(k) ==
  /\ claim[k].stage # "" /\ claim[k].tenant \notin tenants
  /\ SetClaim(k, NoClaim)

(* Any statement of a contact request may fail, or its process die.        *)
ContactError(k) ==
  /\ claim[k].stage # ""
  /\ SetClaim(k, NoClaim)

-----------------------------------------------------------------------------
(* Deadlocks.                                                              *)

(* The statement actor a is at waits for the transaction of actor b.       *)
WaitsForKey(w, v) ==
  /\ v # w /\ sessions[w].pc = "insert" /\ sessions[v].pc \in Inserted
  /\ Key(sessions[v].event) = Key(sessions[w].event)

WaitsForAggregate(w, v) ==
  LET e == sessions[w].event IN
  /\ v # w
  /\ \/ /\ sessions[w].pc = "campaign" /\ claim[w].stage = "settled"
        /\ e.campaign_id # NoId /\ row_lock[CampaignRow(e)] = v
     \/ /\ sessions[w].pc = "workflow"
        /\ e.workflow_id # NoId /\ row_lock[WorkflowRow(e)] = v
     \/ /\ sessions[w].pc = "revenue" /\ CarriesRevenue(e) /\ e.amount # InvalidAmount
        /\ row_lock[RevenueRow(e)] = v

Waits(a, b) ==
  \/ a \in Workers /\ b \in Workers /\ (WaitsForKey(a, b) \/ WaitsForAggregate(a, b))
  \/ \E i \in Identities : Adding(a, i) /\ InDoubt(a, i, b)
  \/ \E mode \in {"share", "nokey", "key"} : Locking(a, mode) /\ RowLocked(a, mode, b)

Deadlock(as) == as # {} /\ \A a \in as : \E b \in as : Waits(a, b)

(* PostgreSQL looks for cycles of waits and ends one of the transactions.  *)
BreakDeadlock ==
  \E as \in SUBSET Actors :
    /\ Deadlock(as) /\ \A bs \in SUBSET as : Deadlock(bs) => bs = as
    /\ \/ \E w \in as \cap Workers : DatabaseError(w) /\ EndTransactions /\ UNCHANGED contact_vars
       \/ \E k \in as \cap Clerks : SetClaim(k, NoClaim)

-----------------------------------------------------------------------------
Proceed(a) ==
  \/ AddEntry(a) \/ EntryTaken(a) \/ LockRow(a)
  \/ a \in Workers /\ (FindContact(a) \/ FindAgain(a) \/ FlushAndCommit(a) \/ Statement(a))
  \/ a \in Clerks /\ (CommitContact(a) \/ ContactGone(a))

(* Requests, failures and what happens around them, as in EventIngestion;  *)
(* the contacts of a tenant are deleted with it, once no open transaction  *)
(* has locked one.                                                         *)
Around ==
  /\ \/ \E w \in Workers : DeliverWebhook(w) \/ RetryFailedEvent(w) \/ DatabaseError(w)
     \/ DeleteFailedEvent
     \/ \E t \in Tenants : /\ DeleteTenant(t)
                           /\ \A a \in Actors : claim[a].tenant = t => claim[a].mode = ""
     \/ \E p \in Processes : Crash(p)
  /\ EndTransactions
  /\ contacts' = {c \in contacts : c[1] \in tenants'}
  /\ owner' = [x \in Entries |-> IF x[1] \in tenants' THEN owner[x] ELSE Nobody]
  /\ UNCHANGED next_contact

ContactRequests(k) ==
  \/ CreateContact(k) \/ PatchContact(k) \/ OptContact(k) \/ AnonymizeContact(k)
  \/ ContactError(k)

LocksNext ==
  \/ \E a \in Actors : Proceed(a)
  \/ BreakDeadlock
  \/ \E k \in Clerks : ContactRequests(k)
  \/ Around

LocksSpec == LocksInit /\ [][LocksNext]_all_vars

(* A request that runs goes on: the database queues those who wait for a   *)
(* lock, so none is overtaken for ever, and it breaks every deadlock.      *)
(* Nobody has to send, retry, fail or crash.                               *)
FairSpec ==
  /\ LocksSpec
  /\ \A a \in Actors : SF_all_vars(Proceed(a))
  /\ WF_all_vars(BreakDeadlock)

-----------------------------------------------------------------------------
(* Properties.                                                             *)

(* The flush of a gives a contact that is there an identity it has not.    *)
GivesIdentity(a) == Flushing(a) /\ claim[a].todo \cup claim[a].held # {}

(* Every deadlock of events and contact requests has one of them that      *)
(* gives a contact that is there an identity it did not have, by the flush *)
(* of an event or a PATCH.  Events whose contacts are new, or complete,    *)
(* opt-outs and erasures are never a cycle among themselves, whatever      *)
(* keys, rows and entries they share.                                      *)
DeadlocksGiveIdentities ==
  \A as \in SUBSET Actors : Deadlock(as) => \E a \in as : GivesIdentity(a)

(* Every request is answered (or dies with its process): no order of key   *)
(* waits, row locks, index entries, failures and deletions leaves one      *)
(* waiting for ever.                                                       *)
RequestsFinish ==
  /\ \A w \in Workers : sessions[w].pc # "idle" ~> sessions[w].pc = "idle"
  /\ \A k \in Clerks : claim[k].stage # "" ~> claim[k].stage = ""

-----------------------------------------------------------------------------
(* Why they hold.                                                          *)

(* A transaction touches the aggregates after its contact is settled, puts *)
(* its entries in the order of the indexes, and locks the row of a contact *)
(* that is there before it adds one for it.  One that records an opt-out   *)
(* writes the external id only to give a new one: an erasure, which takes  *)
(* it away, keeps no such record.                                          *)
Sound(a, c) ==
  /\ a \in Workers /\ sessions[a].pc \notin Inserted => c = NoClaim
  /\ a \in Workers /\ c.stage \in {"insert", "again"} => sessions[a].pc = "campaign"
  /\ OneEach(c.todo)
  /\ \A i \in c.held, j \in c.todo : Index[i] < Index[j]
  /\ c.stage \in {"", "again"} => c.held = {} /\ c.todo = {}
  /\ c.stage = "insert" => c.contact = Nobody
  /\ c.contact = Nobody => ~c.opts /\ (c.stage = "settled" => c.todo = {})
  /\ c.contact # Nobody /\ c.held # {} => c.mode \in Written
  /\ c.mode # "" => /\ c.stage = "settled" /\ c.contact # Nobody
                    /\ a \in Workers => sessions[a].pc = "commit"
  /\ c.mode = "share" => c.opts
  /\ c.opts /\ c.mode \notin Written /\ ExternalId \in c.columns => c.todo # {}

ClaimsInv == \A a \in Actors : Sound(a, claim[a])

=============================================================================

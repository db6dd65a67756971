\* An event loop, a thread that retries and a contact request: every request is
\* answered.
SPECIFICATION FairSpec
CONSTANTS
  t1 = t1
  w1 = w1
  w2 = w2
  p1 = p1
  k1 = k1
  NoId = NoId
  NoAmount = NoAmount
  InvalidAmount = InvalidAmount
  Free = Free
  Tenants = {t1}
  EventIds = {1, 2}
  Campaigns = {"summer"}
  Workflows = {"onboard"}
  Currencies = {"USD"}
  Identities = {"lead1", "lead2", "ann", "555"}
  Index <- MCIndex
  Carries <- MCCarries
  Drafts <- MCDrafts
  Known <- MCKnown
  KnownBy <- MCKnownBy
  FirstNew = 2
  Events <- Payloads
  Cleaned <- MCCleaned
  Undotted <- MCUndotted
  Reread <- MCReread
  Loops = {w1}
  Threads = {w2}
  Clerks = {k1}
  Processes = {p1}
  ProcessOf <- OneProcess
  MaxRequests = 2
  MaxContactRequests = 1
  MaxCrashes = 1
INVARIANTS LocksTypeOK RetriesSettle DeadlocksGiveIdentities
PROPERTIES RequestsFinish
CHECK_DEADLOCK FALSE

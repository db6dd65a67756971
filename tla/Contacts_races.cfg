\* Two event loops and a thread: one person's first events race with each
\* other, with retries, opt-outs, a status by hand and an erasure.
SPECIFICATION Spec
CONSTANTS
  w1 = w1
  w2 = w2
  w3 = w3
  Null = Null
  Leads = {"lead1", "lead2", "lead3"}
  Emails = {"ann"}
  Phones = {"555"}
  OtherStatuses = {"archived"}
  MessageIds = {"m1"}
  Bodies <- BodiesRaces
  Calls <- CallsRaces
  NewContacts = {}
  NewLogs = {}
  Retried <- BodiesRaces
  Loops = {w1, w2}
  Threads = {w3}
  MaxRequests = 4
INVARIANTS FirstDeliveriesMerge HistoryMatchesFlags
PROPERTIES StepsBackAreStale
CHECK_DEADLOCK FALSE

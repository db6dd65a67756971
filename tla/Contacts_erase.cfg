\* An erasure while the event loop handles an event.
SPECIFICATION Spec
CONSTANTS
  w1 = w1
  w2 = w2
  w3 = w3
  Null = Null
  Leads = {"lead1", "lead2", "lead3"}
  Emails = {"ann"}
  Phones = {"555"}
  OtherStatuses = {"archived"}
  MessageIds = {"m1"}
  Bodies <- BodiesErase
  Calls <- CallsErase
  NewContacts = {}
  NewLogs = {}
  Retried = {}
  Loops = {w1}
  Threads = {w2}
  MaxRequests = 3
INVARIANTS AnonymizedHasNoPII
CHECK_DEADLOCK FALSE

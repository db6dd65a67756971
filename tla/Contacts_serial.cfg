\* One event loop handles every event; two threads serve the administrator.
SPECIFICATION Spec
CONSTANTS
  w1 = w1
  w2 = w2
  w3 = w3
  Null = Null
  Leads = {"lead1", "lead2", "lead3"}
  Emails = {"ann"}
  Phones = {"555"}
  OtherStatuses = {"archived"}
  MessageIds = {"m1"}
  Bodies <- BodiesSerial
  Calls <- CallsSerial
  NewContacts <- NewSerial
  NewLogs <- LogsSerial
  Retried = {}
  Loops = {w1}
  Threads = {w2, w3}
  MaxRequests = 4
INVARIANTS TypeOK IdentitiesUnique OneLogPerMessage
PROPERTIES OptOutKept StatusNeverRegresses
CHECK_DEADLOCK FALSE

\* An event is retried while the event loop handles another.
SPECIFICATION Spec
CONSTANTS
  w1 = w1
  w2 = w2
  w3 = w3
  Null = Null
  Leads = {"lead1", "lead2", "lead3"}
  Emails = {"ann"}
  Phones = {"555"}
  OtherStatuses = {"archived"}
  MessageIds = {"m1"}
  Bodies <- BodiesSerial
  Calls = {}
  NewContacts = {}
  NewLogs = {}
  Retried <- BodiesSerial
  Loops = {w1}
  Threads = {w2}
  MaxRequests = 4
PROPERTIES StatusNeverRegresses
CHECK_DEADLOCK FALSE

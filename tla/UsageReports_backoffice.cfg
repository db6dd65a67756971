\* Two threads serve the administrator and the dashboards beside the event loop.
SPECIFICATION ReportsSpec
CONSTANTS
  w1 = w1
  w2 = w2
  lead1 = lead1
  m1 = m1
  summer = summer
  Null = Null
  Everyone = Everyone
  Names = {"acme", "apex"}
  Plans = {"basic", "pro"}
  FirstTenant <- Acme
  Creations <- MCCreations
  Patches <- MCPatches
  Emails = {"ann@x.se"}
  Spellings = {" Ann@x.se", "ann@x.se"}
  Normalized <- MCNormalized
  Threads = {w1, w2}
  Readers = {w1}
  MaxRequests = 3
  Payloads <- PayloadsSent
  ContactStatuses = {"archived", "paused"}
  DayLength = 2
  MaxTime = 2
INVARIANTS ReportsTypeOK UsersOnRecord RegistrationsHold NoOrphans ValuesOnRecord NumbersAgree BreakdownsCoverTotals
PROPERTIES PatchesMerge ImplementsRegistry ReportsSettle
CHECK_DEADLOCK FALSE

\* One thread, no readers, an event of a sale at the end of a day.
SPECIFICATION ReportsSpec
CONSTANTS
  w1 = w1
  w2 = w2
  lead1 = lead1
  m1 = m1
  summer = summer
  Null = Null
  Everyone = Everyone
  Names = {"acme", "apex"}
  Plans = {"basic", "pro"}
  FirstTenant <- Acme
  Creations <- MCCreations
  Patches <- MCPatches
  Emails = {"ann@x.se"}
  Spellings = {" Ann@x.se", "ann@x.se"}
  Normalized <- MCNormalized
  Threads = {w1}
  Readers = {}
  MaxRequests = 2
  Payloads <- PayloadsSale
  ContactStatuses = {"archived", "paused"}
  DayLength = 2
  MaxTime = 2
INVARIANT RevenueReportedOnItsDay
CHECK_DEADLOCK FALSE

\* Two processes, each with an event loop, and a thread of the second: webhooks
\* race with each other as well as with retries.
SPECIFICATION Spec
CONSTANTS
  t1 = t1
  t2 = t2
  w1 = w1
  w2 = w2
  w3 = w3
  p1 = p1
  p2 = p2
  NoId = NoId
  NoAmount = NoAmount
  InvalidAmount = InvalidAmount
  Free = Free
  Tenants = {t1, t2}
  EventIds = {1, 2, 3}
  Campaigns = {"summer"}
  Workflows = {"onboard"}
  Currencies = {"USD"}
  Events <- EventsWorkers
  Cleaned <- MCCleaned
  Undotted <- MCUndotted
  Reread <- MCReread
  Loops = {w1, w2}
  Threads = {w3}
  Processes = {p1, p2}
  ProcessOf <- TwoProcesses
  MaxRequests = 3
  MaxCrashes = 1
INVARIANTS TypeOK StatsMatchEvents RevenueMatchesEvents EventsUnique AckedIsStored
PROPERTIES ImplementsLedger DeadLetterKept
CHECK_DEADLOCK FALSE

\* A webhook fails and its dead letter cannot be stored.
SPECIFICATION Spec
CONSTANTS
  t1 = t1
  t2 = t2
  w1 = w1
  w2 = w2
  w3 = w3
  p1 = p1
  p2 = p2
  NoId = NoId
  NoAmount = NoAmount
  InvalidAmount = InvalidAmount
  Free = Free
  Tenants = {t1, t2}
  EventIds = {1, 2, 3}
  Campaigns = {"summer"}
  Workflows = {"onboard"}
  Currencies = {"USD"}
  Events <- EventsRetry
  Cleaned <- MCCleaned
  Undotted <- MCUndotted
  Reread <- MCReread
  Loops = {w1}
  Threads = {w2}
  Processes = {p1}
  ProcessOf <- OneProcess
  MaxRequests = 2
  MaxCrashes = 0
PROPERTIES DeadLetterLogTruthful
CHECK_DEADLOCK FALSE

\* Two retries of one row that fail at the same time.
SPECIFICATION Spec
CONSTANTS
  t1 = t1
  t2 = t2
  w1 = w1
  w2 = w2
  w3 = w3
  p1 = p1
  p2 = p2
  NoId = NoId
  NoAmount = NoAmount
  InvalidAmount = InvalidAmount
  Free = Free
  Tenants = {t1, t2}
  EventIds = {1, 2, 3}
  Campaigns = {"summer"}
  Workflows = {"onboard"}
  Currencies = {"USD"}
  Events <- EventsRetry
  Cleaned <- MCCleaned
  Undotted <- MCUndotted
  Reread <- MCReread
  Loops = {w1}
  Threads = {w2, w3}
  Processes = {p1}
  ProcessOf <- OneProcess
  MaxRequests = 4
  MaxCrashes = 0
PROPERTIES RetryCountGrows
CHECK_DEADLOCK FALSE

SPECIFICATION DisputesSpec
CONSTANTS
  Attendees = {a1}
  Stock = 1
  AllowsWaitlist = FALSE
  CronJobs = {"minute"}
  MaxAborts = 0
  Desks = {}
  Sessions = {}
  Tellers = {p1}
  Clerks = {c1}
  MaxRequests = 1
INVARIANT DisputesTypeOK OnlyPaidIsReturned
PROPERTY DisputesKeepLedger
CHECK_DEADLOCK FALSE

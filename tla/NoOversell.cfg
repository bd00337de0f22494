SPECIFICATION CheckInsSpec
CONSTANTS
  Attendees = {a1, a2}
  Stock = 1
  AllowsWaitlist = FALSE
  CronJobs = {"minute"}
  MaxAborts = 0
  Desks = {d1}
  Sessions = {s1}
INVARIANT NoOversell
CHECK_DEADLOCK FALSE

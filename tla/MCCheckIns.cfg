SPECIFICATION CheckInsSpec
CONSTANTS
  Attendees = {a1, a2, a3}
  Stock = 2
  AllowsWaitlist = FALSE
  CronJobs = {"minute"}
  MaxAborts = 0
  Desks = {d1, d2}
  Sessions = {s1}
PROPERTY KeepsLedger
SYMMETRY Symmetry
CHECK_DEADLOCK FALSE

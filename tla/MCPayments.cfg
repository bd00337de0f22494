SPECIFICATION PaymentsSpec
CONSTANTS
  Attendees = {a1}
  Stock = 1
  AllowsWaitlist = TRUE
  CronJobs = {"minute"}
  MaxAborts = 0
  Desks = {d1}
  Sessions = {s1}
  p1 = p1
  p2 = p2
  Tellers <- MCTellers
INVARIANT NoSeatWithoutMoney NoCompletionWithoutMoney OnlyPaidAttend AnnouncedIsExcused
SYMMETRY Symmetry
CHECK_DEADLOCK FALSE

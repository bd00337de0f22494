SPECIFICATION WaitSpec
CONSTANTS
  Attendees = {a1, a2}
  Stock = 1
  AllowsWaitlist = TRUE
  CronJobs = {"minute", "hourly"}
  MaxAborts = 1
  People = {w1, w2}
INVARIANT CountedWithinStock NoEarlyExpiry InvitationsHaveSeat
PROPERTY OverdueIsSwept LapsedEnds
CHECK_DEADLOCK FALSE

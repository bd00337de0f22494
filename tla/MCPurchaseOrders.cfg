SPECIFICATION OrdersSpec
CONSTANTS
  Attendees = {a1, a2, a3}
  Stock = 2
  AllowsWaitlist = FALSE
  CronJobs = {"minute"}
  MaxAborts = 1
  Desks = {}
  Sessions = {}
  Tellers = {}
  Buyers = {b1, b2}
  MaxOrders = 2
  MaxPending = 1
INVARIANT OrdersTypeOK OrdersExpireLate OrdersWithinStock PendingBounded
SYMMETRY Symmetry
CHECK_DEADLOCK FALSE

SPECIFICATION ReportsSpec
CONSTANTS
  Reports = {r1, r2}
  Rounds = {"hour"}
  Clerks = {c1, c2}
  MaxFailures = 2
  MaxRequests = 3
  MaxDue = 2
  MaxAborts = 1
INVARIANT ReportsTypeOK CountsAreReal OffForAReason MailedOncePerDate
PROPERTY DueIsRun
CHECK_DEADLOCK FALSE

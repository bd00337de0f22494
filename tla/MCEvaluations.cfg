SPECIFICATION EvalSpec
CONSTANTS
  a1 = a1
  c1 = c1
  c2 = c2
  s1 = s1
  e1 = e1
  e2 = e2
  Attendees <- MCAttendees
  Clerks <- MCClerks
  Sessions <- MCSessions
  Exams <- MCExams
  Marks = {1000, 1600}
  Presences = {"PRESENT", "ABSENT"}
  MaxRecords = 3
  Blocks <- MCBlocks
SYMMETRY Symmetry
INVARIANT EvalTypeOK FinalFromPublished RetakeIsCapped ApprovedWasEarned
CHECK_DEADLOCK FALSE

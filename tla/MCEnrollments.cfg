SPECIFICATION EnrSpec
CONSTANTS
  a1 = a1
  a2 = a2
  a3 = a3
  c1 = c1
  c2 = c2
  Attendees <- MCAttendees
  Clerks <- MCClerks
  Blocks <- MCBlocks
SYMMETRY Symmetry
INVARIANT AdmissionsBounded PaidBeforeStudying
PROPERTY OverIsOver
CHECK_DEADLOCK FALSE

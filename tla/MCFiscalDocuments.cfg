SPECIFICATION FiscalSpec
CONSTANTS
  Payments = {p1}
  Amounts = {15005, 10}
  Percentages = {50}
  Clerks = {c1, c2}
  MaxNotes = 2
INVARIANT OneCounter OnlyFirstRefused DocumentsBounded AmountsAddUp
PROPERTY KeepsNumbering RequestsEnd
CHECK_DEADLOCK FALSE

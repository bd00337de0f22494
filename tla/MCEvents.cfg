SPECIFICATION EventsSpec
CONSTANTS
  Speakers = {p1}
  s1 = s1
  s2 = s2
  Sessions <- MCSessions
  Agendas <- MCAgendas
  Rooms = {"R1"}
  Clerks = {c1, c2}
  Visitors = {v1}
  Spans <- MCSpans
  Statuses = {"DRAFT", "PUBLISHED"}
  MaxTime = 3
  MaxChanges = 2
INVARIANT EventsTypeOK OverlapsRaced
PROPERTY RemovedStays CacheSettles
CHECK_DEADLOCK FALSE

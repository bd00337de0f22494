--------------------------- MODULE MCEnrollments ---------------------------
(***************************************************************************)
(* Three people want the places of a block and two requests run at the     *)
(* same time, while the block is opened and closed and its price and its   *)
(* capacity change: one place when it is free, two when it costs.          *)
(***************************************************************************)
EXTENDS Enrollments, TLC

CONSTANTS a1, a2, a3, c1, c2

MCAttendees == {a1, a2, a3}
MCClerks == {c1, c2}

Version(isOpen, costs, places) ==
    [open |-> isOpen, priced |-> costs, maxParticipants |-> places,
     minAttendancePercentage |-> 70, minPassingGrade |-> 1400]

MCBlocks == {Version(TRUE, FALSE, 1), Version(TRUE, TRUE, 2),
             Version(FALSE, FALSE, 0)}

Symmetry == Permutations(MCAttendees) \cup Permutations(MCClerks)
=============================================================================

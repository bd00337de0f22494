--------------------------- MODULE MCEvaluations ---------------------------
(***************************************************************************)
(* One participant of a started block with one session and two exams; two  *)
(* requests run at the same time, while the block is made harder or easier *)
(* to pass.                                                                *)
(***************************************************************************)
EXTENDS Evaluations, TLC

CONSTANTS a1, c1, c2, s1, e1, e2

MCAttendees == {a1}
MCClerks == {c1, c2}
MCSessions == {s1}
MCExams == {e1, e2}

Version(attendance, grade) ==
    [open |-> FALSE, priced |-> FALSE, maxParticipants |-> 1,
     minAttendancePercentage |-> attendance, minPassingGrade |-> grade]

MCBlocks == {Version(70, 1400), Version(50, 1200)}

Symmetry == Permutations(MCClerks) \cup Permutations(MCExams)
=============================================================================

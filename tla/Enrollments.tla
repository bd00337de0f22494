---------------------------- MODULE Enrollments ----------------------------
(***************************************************************************)
(* The enrollments of one evaluable block, from the request for a place    *)
(* to the verdict.                                                         *)
(*                                                                         *)
(*   enrollments.service.ts  enroll, confirmPayment, cancel, withdraw,     *)
(*                           startBlock, finalizeEnrollment                *)
(*   blocks.service.ts       update, remove, updateStatus                  *)
(*   courtesies.service.ts   grant, for one block                          *)
(*                                                                         *)
(* enroll() is a READ COMMITTED transaction that locks nothing; the other  *)
(* operations load an entity, or a batch of them, and save it whole later. *)
(* The unique index (block, attendee) gives an attendee one row for ever,  *)
(* so a row is named by its attendee.                                      *)
(*                                                                         *)
(* Grades and attendance change the same rows: Evaluations EXTENDS this    *)
(* module.                                                                 *)
(***************************************************************************)
EXTENDS Integers, FiniteSets

CONSTANTS
    Attendees, \* people who may enroll
    Clerks,    \* requests served at the same time
    Blocks     \* what administrators save the block as, at one time or another

\* What enroll(), the recalculations and the verdict read of a block.
EvaluableBlock ==
    [open : BOOLEAN,                \* status is OPEN
     priced : BOOLEAN,              \* price is not 0
     maxParticipants : Nat,         \* 0 for null
     minAttendancePercentage : Nat,
     minPassingGrade : Nat]         \* in hundredths

ASSUME PeopleAssumption == IsFiniteSet(Attendees) /\ IsFiniteSet(Clerks)
ASSUME BlockAssumption == Blocks \subseteq EvaluableBlock

VARIABLES
    block,     \* the block as it was last saved
    enr,       \* the block_enrollments table: attendee -> row
    clerk,     \* per request: the enrollments it has in memory
    confirmed, \* attendees whose payment somebody confirmed
    guests     \* attendees whose enrollment a courtesy created

enrVars == <<block, enr, clerk, confirmed, guests>>

BlockEnrollmentStatus ==
    {"PENDING", "ENROLLED", "IN_PROGRESS", "APPROVED", "FAILED",
     "WITHDRAWN", "CANCELLED"}

\* A grade that was never computed.
NoGrade == -1

Mark == Nat \cup {NoGrade}

\* A row of the table.  "ABSENT" stands for no row; `free' is finalPrice = 0.
Row == [status     : BlockEnrollmentStatus \cup {"ABSENT"},
        free       : BOOLEAN,
        attendance : Nat,   \* attendancePercentage
        final      : Mark,  \* finalGrade
        after      : Mark]  \* finalGradeAfterRetake

NoRow == [status |-> "ABSENT", free |-> FALSE, attendance |-> 0,
          final |-> NoGrade, after |-> NoGrade]

\* What a request does with the entities it loaded.
Operation ==
    {"enroll", "confirm", "cancel", "withdraw", "start", "finalize",
     "attend", "grade", "publish"}

Entity == [op : Operation, id : Attendees, row : Row]

EnrTypeOK ==
    /\ block \in Blocks
    /\ enr \in [Attendees -> Row]
    /\ clerk \in [Clerks -> SUBSET Entity]
    /\ confirmed \subseteq Attendees
    /\ guests \subseteq Attendees

-----------------------------------------------------------------------------
(***************************************************************************)
(* Reading and writing rows                                                *)
(***************************************************************************)

\* Clerk c, who is idle, loads the rows of `ids' for operation `op'.
Load(c, ids, op) ==
    /\ clerk[c] = {}
    /\ clerk' = [clerk EXCEPT ![c] =
                    {[op |-> op, id |-> a, row |-> enr[a]] : a \in ids}]

\* The request of clerk c is over.
Done(c) == clerk' = [clerk EXCEPT ![c] = {}]

\* Every column takes the value it has in memory.
Put(a, row) == enr' = [enr EXCEPT ![a] = row]

WithStatus(row, s) == [row EXCEPT !.status = s]

InStatus(s) == {a \in Attendees : enr[a].status = s}

\* "Verificar capacidad": only ENROLLED rows are counted.
HasPlaceMutant == TRUE

HasPlace ==
    \/ block.maxParticipants = 0
    \/ Cardinality(InStatus("ENROLLED")) < block.maxParticipants

-----------------------------------------------------------------------------
(***************************************************************************)
(* Actions                                                                 *)
(***************************************************************************)

EnrInit ==
    /\ block \in Blocks
    /\ enr = [a \in Attendees |-> NoRow]
    /\ clerk = [c \in Clerks |-> {}]
    /\ confirmed = {}
    /\ guests = {}

\* An administrator saves the block.  updateStatus() follows a table, but
\* update() takes any status, price, capacity, attendance and passing grade,
\* whoever is enrolled already, so any version may follow any other.
BlockSave ==
    /\ block' \in Blocks
    /\ UNCHANGED <<enr, clerk, confirmed, guests>>

\* grant() of a courtesy for this block enrolls for nothing, whatever the
\* block costs and however full it is.  Whoever has a row in progress is left
\* alone; any other row makes the insert and the transaction fail.
GrantCourtesy(a) ==
    /\ enr[a].status = "ABSENT"
    /\ Put(a, [NoRow EXCEPT !.status = "ENROLLED", !.free = TRUE])
    /\ guests' = guests \cup {a}
    /\ UNCHANGED <<block, clerk, confirmed>>

\* enroll() reads the block and counts.  A person whose row has any status but
\* ENROLLED passes the check for duplicates.  The row it builds takes its
\* price from the block as it was read.
EnrollRead(c, a) ==
    /\ clerk[c] = {}
    /\ block.open
    /\ HasPlace
    /\ enr[a].status # "ENROLLED"
    /\ clerk' = [clerk EXCEPT ![c] =
                    {[op  |-> "enroll",
                      id  |-> a,
                      row |-> [NoRow EXCEPT
                                  !.status = IF block.priced THEN "PENDING"
                                             ELSE "ENROLLED",
                                  !.free = ~block.priced]]}]
    /\ UNCHANGED <<block, enr, confirmed, guests>>

\* ... and inserts: the unique index refuses a second row of the attendee.
EnrollSave(c) ==
    \E t \in clerk[c] :
        /\ t.op = "enroll"
        /\ enr[t.id].status = "ABSENT"
        /\ Put(t.id, t.row)
        /\ Done(c)
        /\ UNCHANGED <<block, confirmed, guests>>

\* confirmPayment(): the capacity is not looked at again.
ConfirmRead(c, a) ==
    /\ enr[a].status = "PENDING"
    /\ Load(c, {a}, "confirm")
    /\ UNCHANGED <<block, enr, confirmed, guests>>

ConfirmSave(c) ==
    \E t \in clerk[c] :
        /\ t.op = "confirm"
        /\ Put(t.id, WithStatus(t.row, "ENROLLED"))
        /\ confirmed' = confirmed \cup {t.id}
        /\ Done(c)
        /\ UNCHANGED <<block, guests>>

\* cancel(): only what is pending or enrolled.
CancelRead(c, a) ==
    /\ enr[a].status \in {"PENDING", "ENROLLED"}
    /\ Load(c, {a}, "cancel")
    /\ UNCHANGED <<block, enr, confirmed, guests>>

CancelSave(c) ==
    \E t \in clerk[c] :
        /\ t.op = "cancel"
        /\ Put(t.id, WithStatus(t.row, "CANCELLED"))
        /\ Done(c)
        /\ UNCHANGED <<block, confirmed, guests>>

\* withdraw() without its check of the status.
WithdrawReadMutant(c, a) ==
    /\ enr[a].status # "ABSENT"
    /\ Load(c, {a}, "withdraw")
    /\ UNCHANGED <<block, enr, confirmed, guests>>

WithdrawRead(c, a) ==
    /\ enr[a].status \in {"ENROLLED", "IN_PROGRESS"}
    /\ Load(c, {a}, "withdraw")
    /\ UNCHANGED <<block, enr, confirmed, guests>>

WithdrawSave(c) ==
    \E t \in clerk[c] :
        /\ t.op = "withdraw"
        /\ Put(t.id, WithStatus(t.row, "WITHDRAWN"))
        /\ Done(c)
        /\ UNCHANGED <<block, confirmed, guests>>

\* startBlock() of everybody who has a row and did not leave.
StartReadMutant(c) ==
    /\ InStatus("ENROLLED") \cup InStatus("PENDING") # {}
    /\ Load(c, InStatus("ENROLLED") \cup InStatus("PENDING"), "start")
    /\ UNCHANGED <<block, enr, confirmed, guests>>

\* startBlock() loads everybody ENROLLED.
StartRead(c) ==
    /\ InStatus("ENROLLED") # {}
    /\ Load(c, InStatus("ENROLLED"), "start")
    /\ UNCHANGED <<block, enr, confirmed, guests>>

\* ... and saves them all in one transaction.
StartSave(c) ==
    /\ clerk[c] # {}
    /\ \A t \in clerk[c] : t.op = "start"
    /\ enr' = [a \in Attendees |->
                 IF \E t \in clerk[c] : t.id = a
                 THEN WithStatus((CHOOSE t \in clerk[c] : t.id = a).row,
                                 "IN_PROGRESS")
                 ELSE enr[a]]
    /\ Done(c)
    /\ UNCHANGED <<block, confirmed, guests>>

\* finalGradeAfterRetake ?? finalGrade
Judged(row) == IF row.after # NoGrade THEN row.after ELSE row.final

\* ... with the attendance forgotten.
PassesMutant(row) == Judged(row) # NoGrade /\ Judged(row) >= block.minPassingGrade

Passes(row) ==
    /\ row.attendance >= block.minAttendancePercentage
    /\ Judged(row) # NoGrade
    /\ Judged(row) >= block.minPassingGrade

\* finalizeEnrollment() loads a row in progress together with the block, and
\* judges the one by the other before it waits again.
FinalizeRead(c, a) ==
    /\ clerk[c] = {}
    /\ enr[a].status = "IN_PROGRESS"
    /\ clerk' = [clerk EXCEPT ![c] =
                    {[op  |-> "finalize",
                      id  |-> a,
                      row |-> WithStatus(enr[a], IF Passes(enr[a])
                                                 THEN "APPROVED"
                                                 ELSE "FAILED")]}]
    /\ UNCHANGED <<block, enr, confirmed, guests>>

\* ... and saves the verdict on the row as it was loaded.
FinalizeSave(c) ==
    \E t \in clerk[c] :
        /\ t.op = "finalize"
        /\ Put(t.id, t.row)
        /\ Done(c)
        /\ UNCHANGED <<block, confirmed, guests>>

\* What the recalculations of Evaluations do to a row: they load it whatever
\* its status is,
RefreshRead(c, a) ==
    /\ enr[a].status # "ABSENT"
    /\ Load(c, {a}, "grade")
    /\ UNCHANGED <<block, enr, confirmed, guests>>

\* ... and save it with that status.  The columns they compute are left as
\* they are.
RefreshSave(c) ==
    \E t \in clerk[c] :
        /\ t.op = "grade"
        /\ Put(t.id, t.row)
        /\ Done(c)
        /\ UNCHANGED <<block, confirmed, guests>>

\* A request that fails, or the process that restarts, saves nothing.
ClerkFail(c) ==
    /\ clerk[c] # {}
    /\ Done(c)
    /\ UNCHANGED <<block, enr, confirmed, guests>>

EnrNext ==
    \/ BlockSave
    \/ \E a \in Attendees : GrantCourtesy(a)
    \/ \E c \in Clerks :
        \/ \E a \in Attendees : EnrollRead(c, a)
        \/ EnrollSave(c)
        \/ \E a \in Attendees : ConfirmRead(c, a)
        \/ ConfirmSave(c)
        \/ \E a \in Attendees : CancelRead(c, a)
        \/ CancelSave(c)
        \/ \E a \in Attendees : WithdrawRead(c, a)
        \/ WithdrawSave(c)
        \/ StartRead(c)
        \/ StartSave(c)
        \/ \E a \in Attendees : FinalizeRead(c, a)
        \/ FinalizeSave(c)
        \/ \E a \in Attendees : RefreshRead(c, a)
        \/ RefreshSave(c)
        \/ ClerkFail(c)

EnrSpec == EnrInit /\ [][EnrNext]_enrVars

-----------------------------------------------------------------------------
(***************************************************************************)
(* Properties                                                              *)
(***************************************************************************)

\* Whom enroll() let in for nothing and who has not begun.
Admitted == {a \in InStatus("ENROLLED") \ guests : enr[a].free}

\* What the count of enroll() bounds.  Of the people it let in for nothing,
\* those who have not begun are never more than the largest maxParticipants the
\* block had while it was open and free, and the other requests that counted at
\* the same time.  Guests are let in without a count, and startBlock() hands the
\* places out again, so this is no bound on the people who take part.
AdmissionsBounded ==
    Admitted # {} =>
        \E b \in Blocks :
            /\ b.open /\ ~b.priced
            /\ \/ b.maxParticipants = 0
               \/ Cardinality(Admitted)
                     <= b.maxParticipants + Cardinality(Clerks) - 1

Studying == {"ENROLLED", "IN_PROGRESS", "APPROVED", "FAILED", "WITHDRAWN"}

\* Whoever has to pay takes part only after confirmPayment(), whatever batch
\* or stale entity their row was written from.
PaidBeforeStudying ==
    \A a \in Attendees :
        enr[a].status \in Studying => enr[a].free \/ a \in confirmed

\* The enrollment of `a' is over, and no request holds it as it was before.
Over(a) ==
    /\ enr[a].status \in {"APPROVED", "FAILED", "WITHDRAWN", "CANCELLED"}
    /\ \A c \in Clerks : \A t \in clerk[c] :
          t.id = a => t.op = "enroll" \/ t.row.status = enr[a].status

\* cancel(), withdraw() and finalizeEnrollment() are final: an enrollment that
\* is over changes its status only by the save of a request that loaded it
\* before, never by one that starts later.
OverIsOver ==
    [][\A a \in Attendees :
          Over(a) => Over(a)' /\ enr'[a].status = enr[a].status]_enrVars

=============================================================================

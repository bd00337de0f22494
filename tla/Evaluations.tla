---------------------------- MODULE Evaluations ----------------------------
(***************************************************************************)
(* What happens in an evaluable block after it started: attendance and     *)
(* grades are recorded, grades are published, and both are folded into the *)
(* enrollment that finalizeEnrollment() judges.                            *)
(*                                                                         *)
(*   attendance.service.ts  recordAttendance, checkIn, checkOut,           *)
(*                          recordVirtualConnection                        *)
(*   grades.service.ts      recordGrade, publishGrades,                    *)
(*                          recalculateFinalGrade                          *)
(*                                                                         *)
(* Every one of them loads the whole enrollment and saves it later, so     *)
(* `clerk' of Enrollments holds the entity between the two.                *)
(*                                                                         *)
(* The block is graded with the SIMPLE scheme.                             *)
(***************************************************************************)
EXTENDS Enrollments, FiniteSetsExt

CONSTANTS
    Sessions,   \* the sessions of the block
    Exams,      \* its evaluations, in the scale of the block
    Marks,      \* marks an examiner may give, in hundredths
    Presences,  \* AttendanceStatus values that are recorded
    MaxRecords  \* bound: how many marks and presences are recorded

ASSUME CourseAssumption ==
    /\ IsFiniteSet(Sessions) /\ IsFiniteSet(Exams) /\ IsFiniteSet(Marks)
    /\ Marks \subseteq Nat
    /\ Presences \subseteq {"PRESENT", "PARTIAL", "ABSENT", "LATE", "EXCUSED"}
    /\ MaxRecords \in Nat

VARIABLES
    roll,       \* the session_attendances table: a set of rows
    grades,     \* the participant_grades table: attendee, exam -> grade
    signing,    \* per request: the row of `roll' it writes
    marking,    \* per request: the grade it writes
    queue,      \* per request: enrollments publishGrades() has still to do
    records,    \* marks and presences recorded so far
    published,  \* every mark that ever was published
    attended    \* <<attendee, session>> ever recorded as attended

evalVars == <<enrVars, roll, grades, signing, marking, queue, records,
              published, attended>>

\* A row of session_attendances.  The unique index (session, attendee) does
\* not apply, because no handler sets the attendee; so a row is named by the
\* request that inserted it.  `came' is checkInAt / checkOutAt.
Presence == [by     : Clerks,
             id     : Attendees,
             session : Sessions,
             status : {"PRESENT", "PARTIAL", "ABSENT", "LATE", "EXCUSED"},
             came   : {"no", "in", "out"}]

\* A grade.  "NONE" stands for no row.
Grade == [mark   : Nat,
          status : {"NONE", "DRAFT", "PUBLISHED"},
          retake : BOOLEAN]

NoRecord == [mark |-> 0, status |-> "NONE", retake |-> FALSE]

\* A grade on its way to the table.  `fresh': it will be inserted.  `held': it
\* is written, and its row is locked, but the transaction has not committed.
MarkTask == [id : Attendees, exam : Exams, grade : Grade,
             fresh : BOOLEAN, held : BOOLEAN]

EvalTypeOK ==
    /\ EnrTypeOK
    /\ roll \subseteq Presence
    /\ grades \in [Attendees -> [Exams -> Grade]]
    /\ signing \in [Clerks -> SUBSET [row : Presence, counts : BOOLEAN]]
    /\ marking \in [Clerks -> SUBSET MarkTask]
    /\ queue \in [Clerks -> SUBSET Attendees]
    /\ records \in 0..MaxRecords
    /\ published \subseteq [id : Attendees, mark : Marks, retake : BOOLEAN]
    /\ attended \subseteq Attendees \X Sessions

Free(c) ==
    clerk[c] = {} /\ signing[c] = {} /\ marking[c] = {} /\ queue[c] = {}

rollVars == <<roll, signing, attended>>
gradeVars == <<grades, marking, queue, published>>
blockVars == <<block, confirmed, guests>>

-----------------------------------------------------------------------------
(***************************************************************************)
(* Attendance                                                              *)
(***************************************************************************)

Valid == {"PRESENT", "LATE", "EXCUSED"}

Rows(R, a, s) == {r \in R : r.id = a /\ r.session = s}

\* recalculateAttendancePercentage(): a partial attendance is worth half, and
\* rows are counted, not sessions.  Math.round rounds halves up.
Percentage(R, a) ==
    LET sessions == Cardinality(Sessions)
        valid    == Cardinality({r \in R : r.id = a /\ r.status \in Valid})
        partial  == Cardinality({r \in R : r.id = a /\ r.status = "PARTIAL"})
    IN  IF sessions = 0 THEN 100
        ELSE ((2 * valid + partial) * 100 + sessions) \div (2 * sessions)

Key(r) == <<r.by, r.id, r.session>>

\* The table once row r is written over the one it was loaded from.
Write(R, r) == {q \in R : Key(q) # Key(r)} \cup {r}

\* The row a handler loads, findOne() without an order, or a new one.
Loaded(c, a, s) ==
    IF Rows(roll, a, s) # {} THEN Rows(roll, a, s)
    ELSE {[by |-> c, id |-> a, session |-> s, status |-> "ABSENT",
           came |-> "no"]}

Sign(c, r, counts) ==
    /\ records < MaxRecords
    /\ records' = records + 1
    /\ signing' = [signing EXCEPT ![c] = {[row |-> r, counts |-> counts]}]
    /\ UNCHANGED <<enrVars, roll, attended, gradeVars>>

\* recordAttendance(): the participant must be enrolled; times may be given.
AttendRead(c, a, s) ==
    /\ Free(c)
    /\ enr[a].status \in {"ENROLLED", "IN_PROGRESS"}
    /\ \E r \in Loaded(c, a, s), p \in Presences, came \in {"no", "in", "out"} :
          Sign(c, [r EXCEPT !.status = p,
                            !.came = IF came = "no" THEN r.came ELSE came],
               TRUE)

\* checkIn() with the status of the door instead of the session's.
CheckInReadMutant(c, a, s) ==
    /\ Free(c)
    /\ enr[a].status \in {"ENROLLED", "IN_PROGRESS"}
    /\ \E r \in Loaded(c, a, s) :
          /\ r.came = "no"
          /\ Sign(c, [r EXCEPT !.status = "ATTENDED", !.came = "in"], FALSE)

\* checkIn(): once per row.
CheckInRead(c, a, s) ==
    /\ Free(c)
    /\ enr[a].status \in {"ENROLLED", "IN_PROGRESS"}
    /\ \E r \in Loaded(c, a, s) :
          /\ r.came = "no"
          /\ Sign(c, [r EXCEPT !.status = "PRESENT", !.came = "in"], FALSE)

\* checkOut() asks for no status of the enrollment.
CheckOutRead(c, a, s) ==
    /\ Free(c)
    /\ \E r \in Rows(roll, a, s) :
          /\ r.came = "in"
          /\ Sign(c, [r EXCEPT !.came = "out"], TRUE)

\* recordVirtualConnection(): a new row is PRESENT, an old one stays as it is.
ConnectRead(c, a, s) ==
    /\ Free(c)
    /\ enr[a].status # "ABSENT"
    /\ \E r \in Loaded(c, a, s) :
          Sign(c, IF r \in roll THEN r ELSE [r EXCEPT !.status = "PRESENT"],
               FALSE)

\* Another request has written row r and not committed.
RowLocked(c, r) ==
    \E d \in Clerks \ {c} : \E t \in signing[d] :
        /\ clerk[d] # {}
        /\ Key(t.row) = Key(r)

Attend(r) ==
    attended' = IF r.status = "ABSENT" THEN attended
                ELSE attended \cup {<<r.id, r.session>>}

\* checkIn() and recordVirtualConnection() save the row and nothing else.
SignSave(c) ==
    \E t \in signing[c] :
        /\ ~t.counts
        /\ ~RowLocked(c, t.row)
        /\ roll' = Write(roll, t.row)
        /\ Attend(t.row)
        /\ signing' = [signing EXCEPT ![c] = {}]
        /\ UNCHANGED <<enrVars, gradeVars, records>>

\* The others write the row, and in the same transaction load the enrollment
\* and count what they see: the committed rows and their own.
CountLoad(c) ==
    \E t \in signing[c] :
        /\ t.counts
        /\ clerk[c] = {}
        /\ ~RowLocked(c, t.row)
        /\ clerk' = [clerk EXCEPT ![c] =
                {[op  |-> "attend",
                  id  |-> t.row.id,
                  row |-> [enr[t.row.id] EXCEPT !.attendance =
                              Percentage(Write(roll, t.row), t.row.id)]]}]
        /\ UNCHANGED <<blockVars, enr, rollVars, gradeVars, records>>

\* ... then save the enrollment and commit both.
CountSave(c) ==
    \E t \in signing[c], e \in clerk[c] :
        /\ roll' = Write(roll, t.row)
        /\ Attend(t.row)
        /\ Put(e.id, e.row)
        /\ Done(c)
        /\ signing' = [signing EXCEPT ![c] = {}]
        /\ UNCHANGED <<blockVars, gradeVars, records>>

-----------------------------------------------------------------------------
(***************************************************************************)
(* Grades                                                                  *)
(***************************************************************************)

\* The grades of a recovery or the others, drafts included.
PublishedExamsMutant(a, retake) ==
    {e \in Exams : grades[a][e].status # "NONE"
                   /\ grades[a][e].retake = retake}

\* The published grades of attendee a, those of a recovery or the others.
PublishedExams(a, retake) ==
    {e \in Exams : grades[a][e].status = "PUBLISHED"
                   /\ grades[a][e].retake = retake}

\* Simple average, rounded to hundredths.
Average(a, E) ==
    LET sum == MapThenSumSet(LAMBDA e : grades[a][e].mark, E)
    IN  (2 * sum + Cardinality(E)) \div (2 * Cardinality(E))

\* The recovery without its ceiling.
RecalculatedMutant(a) ==
    LET graded  == PublishedExams(a, FALSE)
        retaken == PublishedExams(a, TRUE)
        final   == Average(a, graded)
        best    == Max({grades[a][e].mark : e \in retaken})
    IN  IF graded = {} THEN [enr[a] EXCEPT !.final = NoGrade]
        ELSE [enr[a] EXCEPT !.final = final,
                            !.after = IF retaken = {} THEN @
                                      ELSE Max({final, best})]

\* recalculateFinalGrade() as it loads the row.  Without an ordinary grade it
\* leaves before it looks at the recovery.
Recalculated(a) ==
    LET graded  == PublishedExams(a, FALSE)
        retaken == PublishedExams(a, TRUE)
        final   == Average(a, graded)
        best    == Max({grades[a][e].mark : e \in retaken})
        capped  == Max({final, Min({best, block.minPassingGrade})})
    IN  IF graded = {} THEN [enr[a] EXCEPT !.final = NoGrade]
        ELSE [enr[a] EXCEPT !.final = final,
                            !.after = IF retaken = {} THEN @ ELSE capped]

\* Another request has written the grade and not committed.
GradeLocked(a, e) ==
    \E d \in Clerks : \E t \in marking[d] : t.held /\ t.id = a /\ t.exam = e

\* recordGrade() looks the grade up by its retake flag.  A grade with the
\* other flag is not found, and the unique index (enrollment, evaluation)
\* refuses the insert.
RecordRead(c, a, e) ==
    /\ Free(c)
    /\ records < MaxRecords
    /\ enr[a].status # "ABSENT"
    /\ \E m \in Marks, s \in {"DRAFT", "PUBLISHED"}, retake \in BOOLEAN :
          /\ grades[a][e].status # "NONE" => grades[a][e].retake = retake
          /\ marking' = [marking EXCEPT ![c] =
                {[id |-> a, exam |-> e, held |-> FALSE,
                  fresh |-> grades[a][e].status = "NONE",
                  grade |-> [mark |-> m, status |-> s, retake |-> retake]]}]
    /\ records' = records + 1
    /\ UNCHANGED <<enrVars, rollVars, grades, queue, published>>

\* A first grade is refused by the index when another got there before.
Writable(t) ==
    /\ t.fresh => grades[t.id][t.exam].status = "NONE"
    /\ ~GradeLocked(t.id, t.exam)

\* "actualizar nota final" is called for these only.
Recovers(g) == g.retake /\ g.status = "PUBLISHED"

SetGrade(t) ==
    /\ grades' = [grades EXCEPT ![t.id][t.exam] = t.grade]
    /\ published' = IF t.grade.status = "PUBLISHED"
                    THEN published \cup {[id     |-> t.id,
                                          mark   |-> t.grade.mark,
                                          retake |-> t.grade.retake]}
                    ELSE published

RecordSave(c) ==
    \E t \in marking[c] :
        /\ ~Recovers(t.grade)
        /\ Writable(t)
        /\ SetGrade(t)
        /\ marking' = [marking EXCEPT ![c] = {}]
        /\ UNCHANGED <<enrVars, rollVars, queue, records>>

\* A published recovery is written, and before the commit the final grade is
\* recalculated through another connection, which does not see it.
RetakeLoad(c) ==
    \E t \in marking[c] :
        /\ Recovers(t.grade)
        /\ ~t.held
        /\ Writable(t)
        /\ marking' = [marking EXCEPT ![c] = {[t EXCEPT !.held = TRUE]}]
        /\ clerk' = [clerk EXCEPT ![c] =
                {[op |-> "grade", id |-> t.id, row |-> Recalculated(t.id)]}]
        /\ UNCHANGED <<blockVars, enr, rollVars, grades, queue, published,
                       records>>

RetakeSave(c) ==
    \E t \in clerk[c] :
        /\ t.op = "grade"
        /\ Put(t.id, t.row)
        /\ Done(c)
        /\ UNCHANGED <<blockVars, rollVars, gradeVars, records>>

RetakeCommit(c) ==
    \E t \in marking[c] :
        /\ t.held
        /\ clerk[c] = {}
        /\ SetGrade(t)
        /\ marking' = [marking EXCEPT ![c] = {}]
        /\ UNCHANGED <<enrVars, rollVars, queue, records>>

\* publishGrades() publishes the drafts of one exam or of all in one update,
\* which waits for locked rows, and goes through the enrollments of the block.
PublishUpdate(c, E) ==
    LET drafts == {d \in Attendees \X E : grades[d[1]][d[2]].status = "DRAFT"}
    IN  /\ Free(c)
        /\ \A d \in drafts : ~GradeLocked(d[1], d[2])
        /\ grades' = [a \in Attendees |-> [e \in Exams |->
                        IF <<a, e>> \in drafts
                        THEN [grades[a][e] EXCEPT !.status = "PUBLISHED"]
                        ELSE grades[a][e]]]
        /\ published' = published \cup
                {[id     |-> d[1],
                  mark   |-> grades[d[1]][d[2]].mark,
                  retake |-> grades[d[1]][d[2]].retake] : d \in drafts}
        /\ queue' = [queue EXCEPT ![c] =
                        {a \in Attendees : enr[a].status # "ABSENT"}]
        /\ UNCHANGED <<enrVars, rollVars, marking, records>>

PublishLoad(c) ==
    \E a \in queue[c] :
        /\ clerk[c] = {}
        /\ clerk' = [clerk EXCEPT ![c] =
                {[op |-> "publish", id |-> a, row |-> Recalculated(a)]}]
        /\ UNCHANGED <<blockVars, enr, rollVars, gradeVars, records>>

PublishSave(c) ==
    \E t \in clerk[c] :
        /\ t.op = "publish"
        /\ Put(t.id, t.row)
        /\ Done(c)
        /\ queue' = [queue EXCEPT ![c] = @ \ {t.id}]
        /\ UNCHANGED <<blockVars, rollVars, grades, marking, published,
                       records>>

-----------------------------------------------------------------------------
(***************************************************************************)
(* The whole                                                               *)
(***************************************************************************)

\* A failed request or a restarted process forgets what it was doing; a
\* recalculation that was saved stays.
RequestFail(c) ==
    /\ ~Free(c)
    /\ Done(c)
    /\ signing' = [signing EXCEPT ![c] = {}]
    /\ marking' = [marking EXCEPT ![c] = {}]
    /\ queue' = [queue EXCEPT ![c] = {}]
    /\ UNCHANGED <<blockVars, enr, roll, grades, records, published, attended>>

\* The operations of Enrollments on a row that is in progress.
Lifecycle(c) ==
    /\ \/ Free(c) /\ \E a \in Attendees : WithdrawRead(c, a)
       \/ WithdrawSave(c)
       \/ Free(c) /\ \E a \in Attendees : FinalizeRead(c, a)
       \/ FinalizeSave(c)
    /\ UNCHANGED <<rollVars, gradeVars, records>>

\* startBlock() has run.
EvalInit ==
    /\ block \in Blocks
    /\ enr = [a \in Attendees |->
                [NoRow EXCEPT !.status = "IN_PROGRESS", !.free = TRUE]]
    /\ clerk = [c \in Clerks |-> {}]
    /\ confirmed = {}
    /\ guests = {}
    /\ roll = {}
    /\ grades = [a \in Attendees |-> [e \in Exams |-> NoRecord]]
    /\ signing = [c \in Clerks |-> {}]
    /\ marking = [c \in Clerks |-> {}]
    /\ queue = [c \in Clerks |-> {}]
    /\ records = 0
    /\ published = {}
    /\ attended = {}

\* The passing grade and the minimum attendance are edited meanwhile.
BlockEdit == BlockSave /\ UNCHANGED <<rollVars, gradeVars, records>>

EvalNext ==
    \/ BlockEdit
    \/ \E c \in Clerks :
           \/ Lifecycle(c)
           \/ \E a \in Attendees, s \in Sessions :
                 \/ AttendRead(c, a, s)
                 \/ CheckInRead(c, a, s)
                 \/ CheckOutRead(c, a, s)
                 \/ ConnectRead(c, a, s)
           \/ SignSave(c)
           \/ CountLoad(c)
           \/ CountSave(c)
           \/ \E a \in Attendees, e \in Exams : RecordRead(c, a, e)
           \/ RecordSave(c)
           \/ RetakeLoad(c)
           \/ RetakeSave(c)
           \/ RetakeCommit(c)
           \/ PublishUpdate(c, Exams)
           \/ \E e \in Exams : PublishUpdate(c, {e})
           \/ PublishLoad(c)
           \/ PublishSave(c)
           \/ RequestFail(c)

EvalSpec == EvalInit /\ [][EvalNext]_evalVars

-----------------------------------------------------------------------------
(***************************************************************************)
(* Properties                                                              *)
(***************************************************************************)

PublishedMarks(a, retake) ==
    {p.mark : p \in {q \in published : q.id = a /\ q.retake = retake}}

\* finalGrade lies between marks that were published: no draft and no recovery
\* gets into it, whichever request computed it and however late it was saved.
FinalFromPublished ==
    \A a \in Attendees : enr[a].final # NoGrade =>
        /\ \E m \in PublishedMarks(a, FALSE) : m <= enr[a].final
        /\ \E m \in PublishedMarks(a, FALSE) : m >= enr[a].final

\* finalGradeAfterRetake: whatever an administrator makes of the passing grade
\* meanwhile, a recovery lifts nobody above a passing grade of the block who was
\* not above it, nor above the marks of that person, and only counts once it is
\* published.
RetakeIsCapped ==
    \A a \in Attendees : enr[a].after # NoGrade =>
        /\ \E retake \in BOOLEAN : \E m \in PublishedMarks(a, retake) :
              m >= enr[a].after
        /\ PublishedMarks(a, TRUE) # {}
        /\ \/ \E b \in Blocks : enr[a].after <= b.minPassingGrade
           \/ \E m \in PublishedMarks(a, FALSE) : m >= enr[a].after

\* finalizeEnrollment() approves only somebody whom one and the same version of
\* the block lets pass: who attended a session if it asks for attendance, and
\* of whom a mark it passes was published, although attendance, grades and the
\* block itself reach the verdict through rows that may be out of date.
ApprovedWasEarned ==
    \A a \in Attendees : enr[a].status = "APPROVED" =>
        \E b \in Blocks :
            /\ b.minAttendancePercentage > 0 /\ Sessions # {} =>
                  \E s \in Sessions : <<a, s>> \in attended
            /\ \E retake \in BOOLEAN : \E m \in PublishedMarks(a, retake) :
                  m >= b.minPassingGrade

\* "Si es nota de recuperacion y esta publicada, actualizar nota final": when
\* no request is running, a published recovery is in the final grade of
\* whoever has one.
RecoveryIsCounted ==
    (\A c \in Clerks : Free(c)) =>
        \A a \in Attendees : \A e \in PublishedExams(a, TRUE) :
            enr[a].final # NoGrade =>
                \E b \in Blocks :
                    enr[a].after >= Min({grades[a][e].mark, b.minPassingGrade})

=============================================================================

------------------------- MODULE EvaluationsProofs -------------------------
(***************************************************************************)
(* What is proved of Enrollments and of Evaluations, for every number of   *)
(* people, requests, places, sessions and exams.                           *)
(*                                                                         *)
(* Of Enrollments: a save writes a status that was decided from a row      *)
(* somebody loaded, so the invariant EnrIInv says of every row in memory   *)
(* what its operation checked when it loaded it (Checked), and of every    *)
(* row, stored or in memory, that whoever has to pay was confirmed before  *)
(* taking part (Settled).                                                  *)
(*                                                                         *)
(* Of Evaluations: EvalIInv says of every enrollment, stored or in memory, *)
(* that its grades were published and its attendance has a reason          *)
(* (Supported, Attended, Counted).                                         *)
(***************************************************************************)
EXTENDS Evaluations, FiniteSetTheorems, TLAPS

\* What an operation knows of the row it holds.
Checked(t) ==
    /\ t.op \in {"enroll", "confirm", "cancel", "withdraw", "start",
                 "finalize", "grade"}
    /\ t.row.status # "ABSENT"
    /\ t.op = "enroll" => t.row.status \in {"PENDING", "ENROLLED"}
    /\ t.op = "confirm" => t.row.status = "PENDING"
    /\ t.op = "cancel" => t.row.status \in {"PENDING", "ENROLLED"}
    /\ t.op = "withdraw" => t.row.status \in {"ENROLLED", "IN_PROGRESS"}
    /\ t.op = "start" => t.row.status = "ENROLLED"
    /\ t.op = "finalize" => t.row.status \in {"APPROVED", "FAILED"}

\* Who has to pay waits for it, and takes part once it is confirmed.
Settled(a, row) ==
    /\ row.status = "PENDING" => ~row.free
    /\ row.status \in Studying => row.free \/ a \in confirmed

RowsSettled == \A a \in Attendees : Settled(a, enr[a])

\* Every operation but startBlock() holds one row.
OneEach ==
    \A c \in Clerks : \A t, u \in clerk[c] : t = u \/ t.op = "start"

MemoryChecked ==
    \A c \in Clerks : \A t \in clerk[c] : Checked(t) /\ Settled(t.id, t.row)

\* Whom request c may make ENROLLED for nothing.
Granted(c) ==
    {a \in Attendees : \E t \in clerk[c] :
        /\ t.id = a
        /\ t.op \in {"enroll", "grade"}
        /\ t.row.status = "ENROLLED"
        /\ t.row.free}

FreeEnrolled == {a \in InStatus("ENROLLED") : enr[a].free}

FreePlaces == (FreeEnrolled \cup UNION {Granted(c) : c \in Clerks}) \ guests

\* Block b, which is open and free, has no more than n places for that many
\* people and the requests in flight.
Bounds(b, n) ==
    /\ b.open /\ ~b.priced
    /\ \/ b.maxParticipants = 0
       \/ n <= b.maxParticipants + Cardinality(Clerks) - 1

PlacesBounded ==
    FreePlaces # {} => \E b \in Blocks : Bounds(b, Cardinality(FreePlaces))

EnrIInv ==
    /\ EnrTypeOK
    /\ RowsSettled
    /\ OneEach
    /\ MemoryChecked

-----------------------------------------------------------------------------

\* What the operators on rows and memories do.

LEMMA WithStatusRow ==
  ASSUME NEW r \in Row, NEW s \in BlockEnrollmentStatus
  PROVE  /\ WithStatus(r, s) \in Row
         /\ WithStatus(r, s).status = s
         /\ WithStatus(r, s).free = r.free
BY DEF WithStatus, Row

LEMMA PutRow ==
  ASSUME EnrTypeOK, NEW a \in Attendees, NEW r, Put(a, r)
  PROVE  \A b \in Attendees : enr'[b] = IF b = a THEN r ELSE enr[b]
BY DEF EnrTypeOK, Put

LEMMA PutType ==
  ASSUME EnrTypeOK, NEW a \in Attendees, NEW r \in Row, Put(a, r)
  PROVE  enr' \in [Attendees -> Row]
BY DEF EnrTypeOK, Put

LEMMA DoneMemory ==
  ASSUME EnrTypeOK, NEW c \in Clerks, Done(c)
  PROVE  /\ clerk' \in [Clerks -> SUBSET Entity]
         /\ \A d \in Clerks : clerk'[d] \subseteq clerk[d]
         /\ clerk'[c] = {}
BY DEF EnrTypeOK, Done

LEMMA EntityFields ==
  ASSUME EnrTypeOK, NEW c \in Clerks, NEW t \in clerk[c]
  PROVE  t \in Entity /\ t.id \in Attendees /\ t.row \in Row /\ t.op \in Operation
BY DEF EnrTypeOK, Entity

\* A request that loads `ids' holds their rows as they are.
LEMMA LoadMemory ==
  ASSUME EnrTypeOK, NEW c \in Clerks, NEW ids \in SUBSET Attendees,
         NEW op \in Operation, Load(c, ids, op)
  PROVE  /\ clerk' \in [Clerks -> SUBSET Entity]
         /\ \A d \in Clerks \ {c} : clerk'[d] = clerk[d]
         /\ \A t \in clerk'[c] :
               t.op = op /\ t.id \in ids /\ t.row = enr[t.id]
         /\ \A t, u \in clerk'[c] : t.id = u.id => t = u
<1> DEFINE batch == {[op |-> op, id |-> a, row |-> enr[a]] : a \in ids}
<1>1. clerk' = [clerk EXCEPT ![c] = batch]
  BY DEF Load
<1>2. \A t \in batch : t \in Entity /\ t.op = op /\ t.id \in ids /\ t.row = enr[t.id]
  BY DEF EnrTypeOK, Entity
<1>3. \A t, u \in batch : t.id = u.id => t = u
  OBVIOUS
<1>4. batch \in SUBSET Entity
  BY <1>2
<1> HIDE DEF batch
<1>5. clerk'[c] = batch /\ \A d \in Clerks \ {c} : clerk'[d] = clerk[d]
  BY <1>1 DEF EnrTypeOK
<1>6. clerk' \in [Clerks -> SUBSET Entity]
  BY <1>1, <1>4 DEF EnrTypeOK
<1>7. QED
  BY <1>2, <1>3, <1>5, <1>6

LEMMA LoadOthers ==
  ASSUME EnrTypeOK, NEW c \in Clerks, NEW ids, NEW op, Load(c, ids, op),
         NEW d \in Clerks, d # c
  PROVE  clerk'[d] = clerk[d]
BY DEF EnrTypeOK, Load

-----------------------------------------------------------------------------

LEMMA EnrIInvInit == EnrInit => EnrIInv
<1> SUFFICES ASSUME EnrInit
             PROVE  EnrIInv
  OBVIOUS
<1>1. NoRow \in Row
  BY DEF NoRow, Row, Mark, NoGrade
<1>2. EnrTypeOK
  BY <1>1 DEF EnrInit, EnrTypeOK
<1>3. RowsSettled
  BY DEF EnrInit, RowsSettled, Settled, NoRow, Studying
<1>4. OneEach /\ MemoryChecked
  BY DEF EnrInit, OneEach, MemoryChecked
<1>5. QED
  BY <1>2, <1>3, <1>4 DEF EnrIInv

\* The request of one operation that loads rows and checks them.
LEMMA LoadKeeps ==
  ASSUME EnrIInv, NEW c \in Clerks, NEW ids \in SUBSET Attendees,
         NEW op \in Operation, Load(c, ids, op),
         UNCHANGED <<block, enr, confirmed, guests>>,
         op = "start" \/ \E a \in Attendees : ids = {a},
         \A a \in ids : Checked([op |-> op, id |-> a, row |-> enr[a]])
  PROVE  EnrIInv'
<1>1. EnrTypeOK'
  BY LoadMemory DEF EnrIInv, EnrTypeOK
<1>2. RowsSettled'
  BY DEF EnrIInv, RowsSettled, Settled
<1>3. OneEach'
  <2> SUFFICES ASSUME NEW d \in Clerks, NEW t \in clerk'[d], NEW u \in clerk'[d]
               PROVE  t = u \/ t.op = "start"
    BY DEF OneEach
  <2>1. CASE d = c
    <3>1. t.op = op /\ t.id \in ids /\ t.row = enr[t.id]
      BY <2>1, LoadMemory DEF EnrIInv
    <3>2. u.op = op /\ u.id \in ids /\ u.row = enr[u.id]
      BY <2>1, LoadMemory DEF EnrIInv
    <3>3. t.id = u.id => t = u
      BY <2>1, LoadMemory DEF EnrIInv
    <3>4. QED
      BY <3>1, <3>2, <3>3
  <2>2. CASE d # c
    BY <2>2, LoadOthers DEF EnrIInv, OneEach
  <2>3. QED
    BY <2>1, <2>2
<1>4. MemoryChecked'
  <2> SUFFICES ASSUME NEW d \in Clerks, NEW t \in clerk'[d]
               PROVE  Checked(t) /\ Settled(t.id, t.row)'
    BY DEF MemoryChecked, Checked
  <2>1. CASE d = c
    <3>1. t.op = op /\ t.id \in ids /\ t.row = enr[t.id]
      BY <2>1, LoadMemory DEF EnrIInv
    <3>2. Checked(t)
      BY <3>1 DEF Checked
    <3>3. Settled(t.id, t.row)
      BY <3>1 DEF EnrIInv, RowsSettled
    <3>4. QED
      BY <3>2, <3>3 DEF Settled
  <2>2. CASE d # c
    BY <2>2, LoadOthers DEF EnrIInv, MemoryChecked, Settled
  <2>3. QED
    BY <2>1, <2>2
<1>5. QED
  BY <1>1, <1>2, <1>3, <1>4 DEF EnrIInv

\* The request of one operation that saves one row.
LEMMA SaveKeeps ==
  ASSUME EnrIInv, NEW c \in Clerks, NEW a \in Attendees, NEW r \in Row,
         Put(a, r), Done(c), UNCHANGED <<block, guests>>,
         confirmed \subseteq confirmed', confirmed' \subseteq Attendees,
         Settled(a, r)'
  PROVE  EnrIInv'
<1>1. EnrTypeOK'
  BY PutType, DoneMemory DEF EnrIInv, EnrTypeOK
<1>2. RowsSettled'
  <2> SUFFICES ASSUME NEW b \in Attendees
               PROVE  Settled(b, enr[b])'
    BY DEF RowsSettled
  <2>1. CASE b = a
    BY <2>1, PutRow DEF EnrIInv, Settled
  <2>2. CASE b # a
    BY <2>2, PutRow DEF EnrIInv, RowsSettled, Settled
  <2>3. QED
    BY <2>1, <2>2
<1>3. OneEach' /\ MemoryChecked'
  BY DoneMemory DEF EnrIInv, OneEach, MemoryChecked, Checked, Settled
<1>4. QED
  BY <1>1, <1>2, <1>3 DEF EnrIInv

\* startBlock() saves everybody it holds.
LEMMA StartRows ==
  ASSUME EnrIInv, NEW c \in Clerks, StartSave(c), NEW a \in Attendees
  PROVE  \/ enr'[a] = enr[a]
         \/ \E t \in clerk[c] :
               /\ t.id = a
               /\ t.op = "start"
               /\ enr'[a] = WithStatus(t.row, "IN_PROGRESS")
<1> DEFINE held == CHOOSE t \in clerk[c] : t.id = a
<1>1. enr'[a] = IF \E t \in clerk[c] : t.id = a
                THEN WithStatus(held.row, "IN_PROGRESS") ELSE enr[a]
  BY DEF StartSave
<1>2. CASE \E t \in clerk[c] : t.id = a
  <2>1. held \in clerk[c] /\ held.id = a
    BY <1>2
  <2>2. held.op = "start"
    BY <2>1 DEF StartSave
  <2> HIDE DEF held
  <2>3. QED
    BY <1>1, <1>2, <2>1, <2>2
<1>3. CASE ~\E t \in clerk[c] : t.id = a
  BY <1>1, <1>3
<1>4. QED
  BY <1>2, <1>3

LEMMA StartKeeps ==
  ASSUME EnrIInv, NEW c \in Clerks, StartSave(c)
  PROVE  EnrIInv'
<1>1. ASSUME NEW a \in Attendees
      PROVE  enr'[a] \in Row /\ Settled(a, enr'[a])
  <2>1. CASE enr'[a] = enr[a]
    BY <2>1 DEF EnrIInv, EnrTypeOK, RowsSettled
  <2>2. ASSUME NEW t \in clerk[c], t.id = a,
               enr'[a] = WithStatus(t.row, "IN_PROGRESS"), t.op = "start"
        PROVE  enr'[a] \in Row /\ Settled(a, enr'[a])
    <3>1. t.row \in Row
      BY EntityFields DEF EnrIInv
    <3>2. t.row.status = "ENROLLED" /\ Settled(a, t.row)
      BY <2>2 DEF EnrIInv, MemoryChecked, Checked
    <3>3. QED
      BY <2>2, <3>1, <3>2, WithStatusRow
         DEF Settled, Studying, BlockEnrollmentStatus
  <2>3. QED
    BY <2>1, <2>2, StartRows
<1>2. enr' \in [Attendees -> Row]
  BY <1>1 DEF StartSave
<1>3. EnrTypeOK'
  BY <1>2, DoneMemory DEF EnrIInv, EnrTypeOK, StartSave
<1>4. RowsSettled'
  BY <1>1 DEF RowsSettled, Settled, StartSave
<1>5. OneEach' /\ MemoryChecked'
  BY DoneMemory DEF EnrIInv, OneEach, MemoryChecked, Settled, StartSave
<1>6. QED
  BY <1>3, <1>4, <1>5 DEF EnrIInv

\* enroll() holds a row it has built.
LEMMA EnrollReadMemory ==
  ASSUME EnrIInv, NEW c \in Clerks, NEW a \in Attendees, EnrollRead(c, a)
  PROVE  \E t \in Entity :
            /\ clerk' = [clerk EXCEPT ![c] = {t}]
            /\ t.op = "enroll"
            /\ t.id = a
            /\ Checked(t)
            /\ t.row.status = "PENDING" => ~t.row.free
            /\ t.row.status = "ENROLLED" => t.row.free
<1> DEFINE row == [NoRow EXCEPT !.status = IF block.priced THEN "PENDING"
                                           ELSE "ENROLLED",
                                !.free = ~block.priced]
           t == [op |-> "enroll", id |-> a, row |-> row]
<1>1. clerk' = [clerk EXCEPT ![c] = {t}]
  BY DEF EnrollRead
<1>2. block.priced \in BOOLEAN
  BY BlockAssumption DEF EnrIInv, EnrTypeOK, EvaluableBlock
<1>3. row \in Row /\ row.free = ~block.priced
      /\ row.status = IF block.priced THEN "PENDING" ELSE "ENROLLED"
  BY <1>2 DEF NoRow, Row, Mark, NoGrade, BlockEnrollmentStatus
<1> HIDE DEF row
<1>4. t \in Entity /\ t.op = "enroll" /\ t.id = a /\ t.row = row
  BY <1>3 DEF Entity, Operation
<1>5. Checked(t)
  BY <1>3, <1>4 DEF Checked
<1>6. QED
  BY <1>1, <1>2, <1>3, <1>4, <1>5

\* finalizeEnrollment() holds a row it has judged.
LEMMA FinalizeReadMemory ==
  ASSUME EnrTypeOK, NEW c \in Clerks, NEW a \in Attendees, FinalizeRead(c, a)
  PROVE  \E t \in Entity :
            /\ clerk' = [clerk EXCEPT ![c] = {t}]
            /\ t.op = "finalize" /\ t.id = a
            /\ t.row.status \in {"APPROVED", "FAILED"}
            /\ t.row.free = enr[a].free
            /\ \E s \in {"APPROVED", "FAILED"} :
                  /\ t.row = WithStatus(enr[a], s)
                  /\ s = "APPROVED" => Passes(enr[a])
<1> DEFINE s == IF Passes(enr[a]) THEN "APPROVED" ELSE "FAILED"
           row == WithStatus(enr[a], s)
           t == [op |-> "finalize", id |-> a, row |-> row]
<1>1. clerk' = [clerk EXCEPT ![c] = {t}]
  BY DEF FinalizeRead
<1>2. s \in {"APPROVED", "FAILED"} /\ (s = "APPROVED" => Passes(enr[a]))
  OBVIOUS
<1> HIDE DEF s
<1>3. row \in Row /\ row.status = s /\ row.free = enr[a].free
  BY <1>2, WithStatusRow DEF EnrTypeOK, BlockEnrollmentStatus
<1>4. row = WithStatus(enr[a], s)
  OBVIOUS
<1> HIDE DEF row
<1>5. t \in Entity /\ t.op = "finalize" /\ t.id = a /\ t.row = row
  BY <1>3 DEF Entity, Operation
<1>6. QED
  BY <1>1, <1>2, <1>3, <1>4, <1>5

\* A request that holds one row it has made.
LEMMA MadeKeeps ==
  ASSUME EnrIInv, NEW c \in Clerks, NEW t \in Entity,
         clerk' = [clerk EXCEPT ![c] = {t}],
         UNCHANGED <<block, enr, confirmed, guests>>,
         Checked(t), Settled(t.id, t.row)
  PROVE  EnrIInv'
<1>1. clerk'[c] = {t} /\ \A d \in Clerks \ {c} : clerk'[d] = clerk[d]
  BY DEF EnrIInv, EnrTypeOK
<1>2. clerk' \in [Clerks -> SUBSET Entity]
  BY DEF EnrIInv, EnrTypeOK
<1>3. EnrTypeOK' /\ RowsSettled'
  BY <1>2 DEF EnrIInv, EnrTypeOK, RowsSettled, Settled
<1>4. OneEach'
  BY <1>1 DEF EnrIInv, OneEach
<1>5. MemoryChecked'
  BY <1>1 DEF EnrIInv, MemoryChecked, Settled
<1>6. QED
  BY <1>3, <1>4, <1>5 DEF EnrIInv

LEMMA EnrollReadKeeps ==
  ASSUME EnrIInv, NEW c \in Clerks, NEW a \in Attendees, EnrollRead(c, a)
  PROVE  EnrIInv'
<1>1. PICK t \in Entity :
         /\ clerk' = [clerk EXCEPT ![c] = {t}]
         /\ t.op = "enroll"
         /\ t.id = a
         /\ Checked(t)
         /\ t.row.status = "PENDING" => ~t.row.free
         /\ t.row.status = "ENROLLED" => t.row.free
  BY EnrollReadMemory
<1>2. UNCHANGED <<block, enr, confirmed, guests>>
  BY DEF EnrollRead
<1>3. Settled(t.id, t.row)
  BY <1>1 DEF Checked, Settled, Studying
<1>4. QED
  BY <1>1, <1>2, <1>3, MadeKeeps

LEMMA FinalizeReadKeeps ==
  ASSUME EnrIInv, NEW c \in Clerks, NEW a \in Attendees, FinalizeRead(c, a)
  PROVE  EnrIInv'
<1>1. PICK t \in Entity :
         /\ clerk' = [clerk EXCEPT ![c] = {t}]
         /\ t.op = "finalize" /\ t.id = a
         /\ t.row.status \in {"APPROVED", "FAILED"}
         /\ t.row.free = enr[a].free
  BY FinalizeReadMemory DEF EnrIInv
<1>2. UNCHANGED <<block, enr, confirmed, guests>> /\ enr[a].status = "IN_PROGRESS"
  BY DEF FinalizeRead
<1>3. Checked(t)
  BY <1>1 DEF Checked
<1>4. Settled(t.id, t.row)
  BY <1>1, <1>2 DEF EnrIInv, RowsSettled, Settled, Studying
<1>5. QED
  BY <1>1, <1>2, <1>3, <1>4, MadeKeeps

\* grant() of a courtesy enrolls for nothing.
LEMMA GuestRow ==
  ASSUME EnrTypeOK, NEW a \in Attendees, GrantCourtesy(a)
  PROVE  \E r \in Row : Put(a, r) /\ r.status = "ENROLLED" /\ r.free
<1> DEFINE r == [NoRow EXCEPT !.status = "ENROLLED", !.free = TRUE]
<1>1. Put(a, r)
  BY DEF GrantCourtesy
<1>2. r \in Row /\ r.status = "ENROLLED" /\ r.free
  BY DEF NoRow, Row, Mark, NoGrade, BlockEnrollmentStatus
<1> HIDE DEF r
<1>3. QED
  BY <1>1, <1>2

LEMMA GrantKeeps ==
  ASSUME EnrIInv, NEW a \in Attendees, GrantCourtesy(a)
  PROVE  EnrIInv'
<1>1. PICK r \in Row : Put(a, r) /\ r.status = "ENROLLED" /\ r.free
  BY GuestRow DEF EnrIInv
<1>2. UNCHANGED <<block, clerk, confirmed>> /\ guests' = guests \cup {a}
  BY DEF GrantCourtesy
<1>3. EnrTypeOK'
  BY <1>1, <1>2, PutType DEF EnrIInv, EnrTypeOK
<1>4. RowsSettled'
  <2> SUFFICES ASSUME NEW b \in Attendees
               PROVE  Settled(b, enr[b])'
    BY DEF RowsSettled
  <2>1. enr'[b] = IF b = a THEN r ELSE enr[b]
    BY <1>1, PutRow DEF EnrIInv
  <2>2. CASE b = a
    BY <1>1, <2>1, <2>2 DEF Settled
  <2>3. CASE b # a
    BY <1>2, <2>1, <2>3 DEF EnrIInv, RowsSettled, Settled
  <2>4. QED
    BY <2>2, <2>3
<1>5. OneEach' /\ MemoryChecked'
  BY <1>2 DEF EnrIInv, OneEach, MemoryChecked, Settled
<1>6. QED
  BY <1>3, <1>4, <1>5 DEF EnrIInv

LEMMA EnrIInvNext == EnrIInv /\ [EnrNext]_enrVars => EnrIInv'
<1> SUFFICES ASSUME EnrIInv, [EnrNext]_enrVars
             PROVE  EnrIInv'
  OBVIOUS
<1> DEFINE Held(c, t) == t.row \in Row /\ t.id \in Attendees /\ Checked(t)
                         /\ Settled(t.id, t.row)
<1>0. \A c \in Clerks : \A t \in clerk[c] : Held(c, t)
  BY EntityFields DEF EnrIInv, MemoryChecked
<1>1. CASE BlockSave
  BY <1>1 DEF BlockSave, EnrIInv, EnrTypeOK, RowsSettled, OneEach,
              MemoryChecked, Settled
<1>2. ASSUME NEW c \in Clerks, NEW a \in Attendees, EnrollRead(c, a)
      PROVE  EnrIInv'
  BY <1>2, EnrollReadKeeps
<1>3. ASSUME NEW c \in Clerks, EnrollSave(c)
      PROVE  EnrIInv'
  <2>1. PICK t \in clerk[c] : t.op = "enroll" /\ Put(t.id, t.row) /\ Done(c)
                              /\ UNCHANGED <<block, confirmed, guests>>
    BY <1>3 DEF EnrollSave
  <2>2. Held(c, t)
    BY <1>0
  <2>3. Settled(t.id, t.row)'
    BY <2>1, <2>2 DEF Settled
  <2>4. confirmed' \subseteq Attendees
    BY <2>1 DEF EnrIInv, EnrTypeOK
  <2>5. QED
    BY <2>1, <2>2, <2>3, <2>4, SaveKeeps
<1>4. ASSUME NEW c \in Clerks, NEW a \in Attendees, ConfirmRead(c, a)
      PROVE  EnrIInv'
  <2>1. Checked([op |-> "confirm", id |-> a, row |-> enr[a]])
    BY <1>4 DEF ConfirmRead, Checked
  <2>2. QED
    BY <1>4, <2>1, LoadKeeps DEF ConfirmRead, Operation
<1>5. ASSUME NEW c \in Clerks, ConfirmSave(c)
      PROVE  EnrIInv'
  <2>1. PICK t \in clerk[c] : /\ t.op = "confirm"
                              /\ Put(t.id, WithStatus(t.row, "ENROLLED"))
                              /\ confirmed' = confirmed \cup {t.id}
                              /\ Done(c)
                              /\ UNCHANGED <<block, guests>>
    BY <1>5 DEF ConfirmSave
  <2>2. Held(c, t)
    BY <1>0
  <2>3. /\ WithStatus(t.row, "ENROLLED") \in Row
        /\ WithStatus(t.row, "ENROLLED").status = "ENROLLED"
    BY <2>2, WithStatusRow DEF BlockEnrollmentStatus
  <2>4. Settled(t.id, WithStatus(t.row, "ENROLLED"))'
    BY <2>1, <2>3 DEF Settled
  <2>5. confirmed' \subseteq Attendees
    BY <2>1, <2>2 DEF EnrIInv, EnrTypeOK
  <2>6. QED
    BY <2>1, <2>2, <2>3, <2>4, <2>5, SaveKeeps
<1>6. ASSUME NEW c \in Clerks, NEW a \in Attendees, CancelRead(c, a)
      PROVE  EnrIInv'
  <2>1. Checked([op |-> "cancel", id |-> a, row |-> enr[a]])
    BY <1>6 DEF CancelRead, Checked
  <2>2. QED
    BY <1>6, <2>1, LoadKeeps DEF CancelRead, Operation
<1>7. ASSUME NEW c \in Clerks, CancelSave(c)
      PROVE  EnrIInv'
  <2>1. PICK t \in clerk[c] : /\ Put(t.id, WithStatus(t.row, "CANCELLED"))
                              /\ Done(c)
                              /\ UNCHANGED <<block, confirmed, guests>>
    BY <1>7 DEF CancelSave
  <2>2. Held(c, t)
    BY <1>0
  <2>3. /\ WithStatus(t.row, "CANCELLED") \in Row
        /\ WithStatus(t.row, "CANCELLED").status = "CANCELLED"
    BY <2>2, WithStatusRow DEF BlockEnrollmentStatus
  <2>4. Settled(t.id, WithStatus(t.row, "CANCELLED"))'
    BY <2>1, <2>3 DEF Settled, Studying
  <2>5. QED
    BY <2>1, <2>2, <2>3, <2>4, SaveKeeps DEF EnrIInv, EnrTypeOK
<1>8. ASSUME NEW c \in Clerks, NEW a \in Attendees, WithdrawRead(c, a)
      PROVE  EnrIInv'
  <2>1. Checked([op |-> "withdraw", id |-> a, row |-> enr[a]])
    BY <1>8 DEF WithdrawRead, Checked
  <2>2. QED
    BY <1>8, <2>1, LoadKeeps DEF WithdrawRead, Operation
<1>9. ASSUME NEW c \in Clerks, WithdrawSave(c)
      PROVE  EnrIInv'
  <2>1. PICK t \in clerk[c] : /\ t.op = "withdraw"
                              /\ Put(t.id, WithStatus(t.row, "WITHDRAWN"))
                              /\ Done(c)
                              /\ UNCHANGED <<block, confirmed, guests>>
    BY <1>9 DEF WithdrawSave
  <2>2. Held(c, t)
    BY <1>0
  <2>3. /\ WithStatus(t.row, "WITHDRAWN") \in Row
        /\ WithStatus(t.row, "WITHDRAWN").status = "WITHDRAWN"
        /\ WithStatus(t.row, "WITHDRAWN").free = t.row.free
    BY <2>2, WithStatusRow DEF BlockEnrollmentStatus
  <2>4. Settled(t.id, WithStatus(t.row, "WITHDRAWN"))'
    BY <2>1, <2>2, <2>3 DEF Settled, Studying, Checked
  <2>5. QED
    BY <2>1, <2>2, <2>3, <2>4, SaveKeeps DEF EnrIInv, EnrTypeOK
<1>10. ASSUME NEW c \in Clerks, StartRead(c)
       PROVE  EnrIInv'
  <2>1. \A a \in InStatus("ENROLLED") :
           Checked([op |-> "start", id |-> a, row |-> enr[a]])
    BY DEF Checked, InStatus
  <2>2. QED
    BY <1>10, <2>1, LoadKeeps DEF StartRead, Operation, InStatus
<1>11. ASSUME NEW c \in Clerks, StartSave(c)
       PROVE  EnrIInv'
  BY <1>11, StartKeeps
<1>12. ASSUME NEW c \in Clerks, NEW a \in Attendees, FinalizeRead(c, a)
       PROVE  EnrIInv'
  BY <1>12, FinalizeReadKeeps
<1>13. ASSUME NEW c \in Clerks, FinalizeSave(c)
       PROVE  EnrIInv'
  <2>1. PICK t \in clerk[c] : Put(t.id, t.row) /\ Done(c)
                              /\ UNCHANGED <<block, confirmed, guests>>
    BY <1>13 DEF FinalizeSave
  <2>2. Held(c, t)
    BY <1>0
  <2>3. Settled(t.id, t.row)'
    BY <2>1, <2>2 DEF Settled
  <2>4. QED
    BY <2>1, <2>2, <2>3, SaveKeeps DEF EnrIInv, EnrTypeOK
<1>14. ASSUME NEW c \in Clerks, NEW a \in Attendees, RefreshRead(c, a)
       PROVE  EnrIInv'
  <2>1. Checked([op |-> "grade", id |-> a, row |-> enr[a]])
    BY <1>14 DEF RefreshRead, Checked
  <2>2. QED
    BY <1>14, <2>1, LoadKeeps DEF RefreshRead, Operation
<1>15. ASSUME NEW c \in Clerks, RefreshSave(c)
       PROVE  EnrIInv'
  <2>1. PICK t \in clerk[c] : Put(t.id, t.row) /\ Done(c)
                              /\ UNCHANGED <<block, confirmed, guests>>
    BY <1>15 DEF RefreshSave
  <2>2. Held(c, t)
    BY <1>0
  <2>3. Settled(t.id, t.row)'
    BY <2>1, <2>2 DEF Settled
  <2>4. QED
    BY <2>1, <2>2, <2>3, SaveKeeps DEF EnrIInv, EnrTypeOK
<1>16. ASSUME NEW c \in Clerks, ClerkFail(c)
       PROVE  EnrIInv'
  BY <1>16, DoneMemory
     DEF ClerkFail, EnrIInv, EnrTypeOK, RowsSettled, OneEach, MemoryChecked,
         Settled
<1>17. CASE UNCHANGED enrVars
  BY <1>17 DEF enrVars, EnrIInv, EnrTypeOK, RowsSettled, OneEach,
               MemoryChecked, Settled
<1>18. ASSUME NEW a \in Attendees, GrantCourtesy(a)
       PROVE  EnrIInv'
  BY <1>18, GrantKeeps
<1>19. QED
  BY <1>1, <1>2, <1>3, <1>4, <1>5, <1>6, <1>7, <1>8, <1>9, <1>10, <1>11,
     <1>12, <1>13, <1>14, <1>15, <1>16, <1>17, <1>18 DEF EnrNext

THEOREM EnrInvariant == EnrSpec => []EnrIInv
BY EnrIInvInit, EnrIInvNext, PTL DEF EnrSpec

\* The table and what every request holds are well formed.
THEOREM EnrTypeCorrect == EnrSpec => []EnrTypeOK
<1>1. EnrIInv => EnrTypeOK
  BY DEF EnrIInv
<1>2. QED
  BY <1>1, EnrInvariant, PTL

\* enroll(), confirmPayment() and startBlock(): whoever has to pay takes part
\* only after somebody confirmed the payment, although startBlock() and the
\* recalculations write batches and entities that may be out of date.
THEOREM PaysBeforeStudying == EnrSpec => []PaidBeforeStudying
<1>1. EnrIInv => PaidBeforeStudying
  BY DEF EnrIInv, RowsSettled, Settled, PaidBeforeStudying
<1>2. QED
  BY <1>1, EnrInvariant, PTL

-----------------------------------------------------------------------------

\* The places of a free block.

LEMMA PlacesFinite ==
  EnrTypeOK => /\ FreePlaces \subseteq Attendees
               /\ IsFiniteSet(FreePlaces)
               /\ Cardinality(FreePlaces) \in Nat
<1> SUFFICES ASSUME EnrTypeOK
             PROVE  /\ FreePlaces \subseteq Attendees
                    /\ IsFiniteSet(FreePlaces)
                    /\ Cardinality(FreePlaces) \in Nat
  OBVIOUS
<1>1. FreePlaces \subseteq Attendees
  BY DEF FreePlaces, FreeEnrolled, InStatus, Granted
<1>2. QED
  BY <1>1, PeopleAssumption, FS_Subset, FS_CardinalityType

\* A request gives a place to one person at most.
LEMMA OneGranted ==
  ASSUME EnrIInv, NEW c \in Clerks, NEW a \in Granted(c), NEW b \in Granted(c)
  PROVE  a = b
BY DEF EnrIInv, OneEach, Granted

LEMMA GrantedBounded ==
  ASSUME EnrIInv, NEW D \in SUBSET Clerks
  PROVE  LET H == UNION {Granted(d) : d \in D}
         IN  IsFiniteSet(H) /\ Cardinality(H) <= Cardinality(D)
<1> DEFINE H == UNION {Granted(d) : d \in D}
           by == [a \in H |-> CHOOSE d \in D : a \in Granted(d)]
<1>1. \A a \in H : by[a] \in D /\ a \in Granted(by[a])
  OBVIOUS
<1>2. by \in [H -> D]
  BY <1>1
<1>3. \A a, b \in H : by[a] = by[b] => a = b
  <2> SUFFICES ASSUME NEW a \in H, NEW b \in H, by[a] = by[b]
               PROVE  a = b
    OBVIOUS
  <2> HIDE DEF by, H
  <2>1. by[a] \in Clerks /\ a \in Granted(by[a]) /\ b \in Granted(by[a])
    BY <1>1
  <2>2. QED
    BY <2>1, OneGranted
<1> HIDE DEF by, H
<1>4. by \in Injection(H, D)
  BY <1>2, <1>3 DEF Injection, IsInjective
<1>5. IsFiniteSet(D)
  BY PeopleAssumption, FS_Subset
<1>6. QED
  BY <1>4, <1>5, FS_Injection DEF H

\* Loading rows that exist promises nobody a place they do not have.
LEMMA LoadPlaces ==
  ASSUME EnrIInv, NEW c \in Clerks, NEW ids \in SUBSET Attendees,
         NEW op \in Operation, Load(c, ids, op), UNCHANGED <<enr, guests>>
  PROVE  FreePlaces' \subseteq FreePlaces
<1>1. FreeEnrolled' = FreeEnrolled
  BY DEF FreeEnrolled, InStatus
<1>2. ASSUME NEW d \in Clerks, NEW a \in Granted(d)'
      PROVE  a \in FreeEnrolled \cup UNION {Granted(e) : e \in Clerks}
  <2>1. CASE d = c
    <3>1. \A t \in clerk'[c] : t.row = enr[t.id]
      BY <2>1, LoadMemory DEF EnrIInv
    <3>2. a \in FreeEnrolled
      BY <2>1, <3>1 DEF Granted, FreeEnrolled, InStatus
    <3>3. QED
      BY <3>2
  <2>2. CASE d # c
    <3>1. clerk'[d] = clerk[d]
      BY <2>2, LoadOthers DEF EnrIInv
    <3>2. a \in Granted(d)
      BY <3>1 DEF Granted
    <3>3. QED
      BY <3>2
  <2>3. QED
    BY <2>1, <2>2
<1>3. QED
  BY <1>1, <1>2 DEF FreePlaces

\* Saving a row gives a place to nobody who had none.
LEMMA SavePlaces ==
  ASSUME EnrIInv, NEW c \in Clerks, NEW a \in Attendees, NEW r,
         Put(a, r), Done(c), guests' = guests,
         r.status = "ENROLLED" /\ r.free => a \in FreePlaces \cup guests
  PROVE  FreePlaces' \subseteq FreePlaces
<1>1. ASSUME NEW b \in FreeEnrolled'
      PROVE  b \in FreePlaces \cup guests
  <2>1. b \in Attendees /\ enr'[b].status = "ENROLLED" /\ enr'[b].free
    BY DEF FreeEnrolled, InStatus
  <2>2. enr'[b] = IF b = a THEN r ELSE enr[b]
    BY <2>1, PutRow DEF EnrIInv
  <2>3. CASE b = a
    BY <2>1, <2>2, <2>3
  <2>4. CASE b # a
    BY <2>1, <2>2, <2>4 DEF FreePlaces, FreeEnrolled, InStatus
  <2>5. QED
    BY <2>3, <2>4
<1>2. \A d \in Clerks : Granted(d)' \subseteq Granted(d)
  BY DoneMemory DEF EnrIInv, Granted
<1>3. QED
  BY <1>1, <1>2 DEF FreePlaces

\* enroll() counts before it promises a place.
LEMMA EnrollPlaces ==
  ASSUME EnrIInv, NEW c \in Clerks, NEW a \in Attendees, EnrollRead(c, a),
         block.maxParticipants # 0
  PROVE  Cardinality(FreePlaces)'
            <= block.maxParticipants + Cardinality(Clerks) - 1
<1> DEFINE others == UNION {Granted(d) : d \in Clerks \ {c}}
           enrolled == InStatus("ENROLLED")
<1>0. block.maxParticipants \in Nat
  BY BlockAssumption DEF EnrIInv, EnrTypeOK, EvaluableBlock
<1>1. PICK t \in Entity : clerk' = [clerk EXCEPT ![c] = {t}] /\ t.id = a
  BY EnrollReadMemory
<1>2. clerk'[c] = {t} /\ \A d \in Clerks \ {c} : clerk'[d] = clerk[d]
  BY <1>1 DEF EnrIInv, EnrTypeOK
<1>3. FreePlaces' \subseteq (enrolled \cup others) \cup {a}
  <2>1. FreeEnrolled' \subseteq enrolled
    BY DEF EnrollRead, FreeEnrolled, InStatus
  <2>2. Granted(c)' \subseteq {a}
    BY <1>1, <1>2 DEF Granted
  <2>3. \A d \in Clerks \ {c} : Granted(d)' = Granted(d)
    BY <1>2 DEF Granted
  <2>4. QED
    BY <2>1, <2>2, <2>3 DEF FreePlaces
<1>4. IsFiniteSet(enrolled) /\ Cardinality(enrolled) < block.maxParticipants
  <2>1. enrolled \subseteq Attendees
    BY DEF InStatus
  <2>2. QED
    BY <2>1, PeopleAssumption, FS_Subset DEF EnrollRead, HasPlace
<1>5. IsFiniteSet(others) /\ Cardinality(others) <= Cardinality(Clerks) - 1
  <2>1. IsFiniteSet(others) /\ Cardinality(others) <= Cardinality(Clerks \ {c})
    BY GrantedBounded
  <2>2. Cardinality(Clerks \ {c}) = Cardinality(Clerks) - 1
    BY PeopleAssumption, FS_RemoveElement
  <2>3. QED
    BY <2>1, <2>2
<1> HIDE DEF others, enrolled
<1>6. /\ Cardinality(enrolled) \in Nat
      /\ Cardinality(others) \in Nat
      /\ Cardinality(Clerks) \in Nat
      /\ Cardinality(enrolled \cap others) \in Nat
  <2>1. IsFiniteSet(enrolled \cap others)
    BY <1>4, FS_Subset
  <2>2. QED
    BY <1>4, <1>5, <2>1, PeopleAssumption, FS_CardinalityType
<1>7. /\ IsFiniteSet(enrolled \cup others)
      /\ Cardinality(enrolled \cup others)
            <= Cardinality(enrolled) + Cardinality(others)
      /\ Cardinality(enrolled \cup others) \in Nat
  <2>1. /\ IsFiniteSet(enrolled \cup others)
        /\ Cardinality(enrolled \cup others) =
              Cardinality(enrolled) + Cardinality(others)
                - Cardinality(enrolled \cap others)
    BY <1>4, <1>5, FS_Union
  <2>2. Cardinality(enrolled \cup others) \in Nat
    BY <2>1, FS_CardinalityType
  <2>3. QED
    BY <1>6, <2>1, <2>2
<1>8. /\ IsFiniteSet((enrolled \cup others) \cup {a})
      /\ Cardinality((enrolled \cup others) \cup {a})
            <= Cardinality(enrolled \cup others) + 1
      /\ Cardinality((enrolled \cup others) \cup {a}) \in Nat
  <2> DEFINE both == enrolled \cup others
  <2>1. IsFiniteSet(both)
    BY <1>7
  <2> HIDE DEF both
  <2>2. /\ IsFiniteSet(both \cup {a})
        /\ Cardinality(both \cup {a}) =
              IF a \in both THEN Cardinality(both) ELSE Cardinality(both) + 1
    BY <2>1, FS_AddElement
  <2>3. Cardinality(both) \in Nat
    BY <1>7 DEF both
  <2>4. Cardinality(both \cup {a}) <= Cardinality(both) + 1
        /\ Cardinality(both \cup {a}) \in Nat
    BY <2>2, <2>3
  <2>5. QED
    BY <2>2, <2>4 DEF both
<1>9. Cardinality(FreePlaces') <= Cardinality((enrolled \cup others) \cup {a})
  BY <1>3, <1>8, FS_Subset
<1>10. IsFiniteSet(FreePlaces') /\ Cardinality(FreePlaces') \in Nat
  BY <1>3, <1>8, FS_Subset, FS_CardinalityType
<1>11. Cardinality(FreePlaces')
          <= block.maxParticipants + Cardinality(Clerks) - 1
  BY <1>0, <1>4, <1>5, <1>6, <1>7, <1>8, <1>9, <1>10
<1>12. QED
  BY <1>11

\* Of a block that costs enroll() promises nothing for nothing.
LEMMA PricedPlaces ==
  ASSUME EnrIInv, NEW c \in Clerks, NEW a \in Attendees, EnrollRead(c, a),
         block.priced
  PROVE  FreePlaces' \subseteq FreePlaces
<1> DEFINE t == [op |-> "enroll", id |-> a,
                 row |-> [NoRow EXCEPT !.status = "PENDING", !.free = FALSE]]
<1>1. clerk' = [clerk EXCEPT ![c] = {t}] /\ UNCHANGED <<enr, guests>>
  BY DEF EnrollRead
<1>2. t.row.status # "ENROLLED"
  BY DEF NoRow
<1> HIDE DEF t
<1>3. clerk'[c] = {t} /\ \A d \in Clerks \ {c} : clerk'[d] = clerk[d]
  BY <1>1 DEF EnrIInv, EnrTypeOK
<1>4. \A d \in Clerks : Granted(d)' \subseteq Granted(d)
  BY <1>2, <1>3 DEF Granted
<1>5. FreeEnrolled' = FreeEnrolled
  BY <1>1 DEF FreeEnrolled, InStatus
<1>6. QED
  BY <1>1, <1>4, <1>5 DEF FreePlaces

LEMMA PlacesStep ==
  EnrIInv /\ PlacesBounded /\ [EnrNext]_enrVars => PlacesBounded'
<1> SUFFICES ASSUME EnrIInv, PlacesBounded, [EnrNext]_enrVars
             PROVE  PlacesBounded'
  OBVIOUS
<1>0. ASSUME FreePlaces' \subseteq FreePlaces
      PROVE  PlacesBounded'
  <2>1. /\ IsFiniteSet(FreePlaces)
        /\ Cardinality(FreePlaces) \in Nat
    BY PlacesFinite DEF EnrIInv
  <2>2. /\ IsFiniteSet(FreePlaces')
        /\ Cardinality(FreePlaces') <= Cardinality(FreePlaces)
    BY <1>0, <2>1, FS_Subset
  <2>3. Cardinality(FreePlaces') \in Nat /\ Cardinality(Clerks) \in Nat
    BY <2>2, PeopleAssumption, FS_CardinalityType
  <2>4. ASSUME FreePlaces' # {}
        PROVE  \E b \in Blocks : Bounds(b, Cardinality(FreePlaces'))
    <3>1. PICK b \in Blocks : Bounds(b, Cardinality(FreePlaces))
      BY <1>0, <2>4 DEF PlacesBounded
    <3>2. b.maxParticipants \in Nat
      BY BlockAssumption DEF EvaluableBlock
    <3>3. Bounds(b, Cardinality(FreePlaces'))
      BY <2>1, <2>2, <2>3, <3>1, <3>2 DEF Bounds
    <3>4. QED
      BY <3>3
  <2>5. QED
    BY <2>4 DEF PlacesBounded, Bounds
<1>1. CASE UNCHANGED <<enr, clerk, guests>>
  BY <1>1, <1>0 DEF FreePlaces, FreeEnrolled, InStatus, Granted
<1>2. ASSUME NEW c \in Clerks, NEW a \in Attendees, EnrollRead(c, a)
      PROVE  PlacesBounded'
  <2>1. CASE block.priced
    BY <1>0, <1>2, <2>1, PricedPlaces
  <2>2. CASE ~block.priced
    <3>1. block \in Blocks /\ block.open
      BY <1>2 DEF EnrIInv, EnrTypeOK, EnrollRead
    <3>2. block.maxParticipants # 0 =>
             Cardinality(FreePlaces)'
                <= block.maxParticipants + Cardinality(Clerks) - 1
      BY <1>2, EnrollPlaces
    <3>3. Bounds(block, Cardinality(FreePlaces'))
      BY <2>2, <3>1, <3>2 DEF Bounds
    <3>4. \E b \in Blocks : Bounds(b, Cardinality(FreePlaces'))
      BY <3>1, <3>3
    <3>5. QED
      BY <3>4 DEF PlacesBounded, Bounds
  <2>3. QED
    BY <2>1, <2>2
<1>3. ASSUME NEW c \in Clerks, EnrollSave(c)
      PROVE  PlacesBounded'
  <2>1. PICK t \in clerk[c] : t.op = "enroll" /\ Put(t.id, t.row) /\ Done(c)
                              /\ guests' = guests
    BY <1>3 DEF EnrollSave
  <2>2. t.id \in Attendees
    BY EntityFields DEF EnrIInv
  <2>3. t.row.status = "ENROLLED" /\ t.row.free => t.id \in FreePlaces \cup guests
    BY <2>1, <2>2 DEF FreePlaces, Granted
  <2>4. QED
    BY <1>0, <2>1, <2>2, <2>3, SavePlaces
<1>4. ASSUME NEW c \in Clerks, NEW ids \in SUBSET Attendees,
             NEW op \in Operation, Load(c, ids, op), UNCHANGED <<enr, guests>>
      PROVE  PlacesBounded'
  BY <1>0, <1>4, LoadPlaces
<1>5. ASSUME NEW c \in Clerks, ConfirmSave(c)
      PROVE  PlacesBounded'
  <2>1. PICK t \in clerk[c] : /\ t.op = "confirm"
                              /\ Put(t.id, WithStatus(t.row, "ENROLLED"))
                              /\ Done(c) /\ guests' = guests
    BY <1>5 DEF ConfirmSave
  <2>2. t.id \in Attendees /\ t.row \in Row /\ Checked(t) /\ Settled(t.id, t.row)
    BY EntityFields DEF EnrIInv, MemoryChecked
  <2>3. ~WithStatus(t.row, "ENROLLED").free
    BY <2>1, <2>2, WithStatusRow DEF Checked, Settled, BlockEnrollmentStatus
  <2>4. QED
    BY <1>0, <2>1, <2>2, <2>3, SavePlaces
<1>6. ASSUME NEW c \in Clerks, NEW t \in clerk[c],
             NEW s \in BlockEnrollmentStatus \ {"ENROLLED"},
             Put(t.id, WithStatus(t.row, s)), Done(c), guests' = guests
      PROVE  PlacesBounded'
  <2>1. t.id \in Attendees /\ t.row \in Row
    BY EntityFields DEF EnrIInv
  <2>2. WithStatus(t.row, s).status # "ENROLLED"
    BY <2>1, WithStatusRow
  <2>3. QED
    BY <1>0, <1>6, <2>1, <2>2, SavePlaces
<1>7. ASSUME NEW c \in Clerks, StartSave(c)
      PROVE  PlacesBounded'
  <2>1. ASSUME NEW b \in FreeEnrolled'
        PROVE  b \in FreePlaces \cup guests
    <3>1. b \in Attendees /\ enr'[b].status = "ENROLLED" /\ enr'[b].free
      BY DEF FreeEnrolled, InStatus
    <3>2. ASSUME NEW t \in clerk[c], enr'[b] = WithStatus(t.row, "IN_PROGRESS")
          PROVE  FALSE
      <4>1. t.row \in Row
        BY EntityFields DEF EnrIInv
      <4>2. QED
        BY <3>1, <3>2, <4>1, WithStatusRow DEF BlockEnrollmentStatus
    <3>3. enr'[b] = enr[b]
      BY <1>7, <3>1, <3>2, StartRows
    <3>4. QED
      BY <3>1, <3>3 DEF FreePlaces, FreeEnrolled, InStatus
  <2>2. \A d \in Clerks : Granted(d)' \subseteq Granted(d)
    BY <1>7, DoneMemory DEF StartSave, EnrIInv, Granted
  <2>3. guests' = guests
    BY <1>7 DEF StartSave
  <2>4. QED
    BY <1>0, <2>1, <2>2, <2>3 DEF FreePlaces
<1>8. ASSUME NEW c \in Clerks, RefreshSave(c)
      PROVE  PlacesBounded'
  <2>1. PICK t \in clerk[c] : t.op = "grade" /\ Put(t.id, t.row) /\ Done(c)
                              /\ guests' = guests
    BY <1>8 DEF RefreshSave
  <2>2. t.id \in Attendees
    BY EntityFields DEF EnrIInv
  <2>3. t.row.status = "ENROLLED" /\ t.row.free => t.id \in FreePlaces \cup guests
    BY <2>1, <2>2 DEF FreePlaces, Granted
  <2>4. QED
    BY <1>0, <2>1, <2>2, <2>3, SavePlaces
<1>9. ASSUME NEW c \in Clerks, ClerkFail(c)
      PROVE  PlacesBounded'
  <2>1. \A d \in Clerks : Granted(d)' \subseteq Granted(d)
    BY <1>9, DoneMemory DEF ClerkFail, EnrIInv, Granted
  <2>2. FreeEnrolled' = FreeEnrolled /\ guests' = guests
    BY <1>9 DEF ClerkFail, FreeEnrolled, InStatus
  <2>3. QED
    BY <1>0, <2>1, <2>2 DEF FreePlaces
<1>10. ASSUME NEW c \in Clerks, NEW a \in Attendees,
              \/ ConfirmRead(c, a) \/ CancelRead(c, a) \/ WithdrawRead(c, a)
              \/ RefreshRead(c, a)
       PROVE  PlacesBounded'
  <2>1. PICK op \in Operation : Load(c, {a}, op) /\ UNCHANGED <<enr, guests>>
    BY <1>10 DEF ConfirmRead, CancelRead, WithdrawRead, RefreshRead, Operation
  <2>2. QED
    BY <1>4, <2>1
<1>11. ASSUME NEW c \in Clerks, StartRead(c)
       PROVE  PlacesBounded'
  <2>1. Load(c, InStatus("ENROLLED"), "start") /\ UNCHANGED <<enr, guests>>
    BY <1>11 DEF StartRead
  <2>2. InStatus("ENROLLED") \in SUBSET Attendees /\ "start" \in Operation
    BY DEF InStatus, Operation
  <2>3. QED
    BY <1>4, <2>1, <2>2
<1>12. ASSUME NEW c \in Clerks, CancelSave(c) \/ WithdrawSave(c)
       PROVE  PlacesBounded'
  <2>1. PICK t \in clerk[c], s \in BlockEnrollmentStatus \ {"ENROLLED"} :
           Put(t.id, WithStatus(t.row, s)) /\ Done(c) /\ guests' = guests
    BY <1>12 DEF CancelSave, WithdrawSave, BlockEnrollmentStatus
  <2>2. QED
    BY <1>6, <2>1
<1>13. ASSUME NEW c \in Clerks, NEW a \in Attendees, FinalizeRead(c, a)
       PROVE  PlacesBounded'
  <2>1. PICK t \in Entity : /\ clerk' = [clerk EXCEPT ![c] = {t}]
                            /\ t.op = "finalize"
    BY <1>13, FinalizeReadMemory DEF EnrIInv
  <2>2. clerk'[c] = {t} /\ \A d \in Clerks \ {c} : clerk'[d] = clerk[d]
    BY <2>1 DEF EnrIInv, EnrTypeOK
  <2>3. \A d \in Clerks : Granted(d)' \subseteq Granted(d)
    BY <2>1, <2>2 DEF Granted
  <2>4. FreeEnrolled' = FreeEnrolled /\ guests' = guests
    BY <1>13 DEF FinalizeRead, FreeEnrolled, InStatus
  <2>5. QED
    BY <1>0, <2>3, <2>4 DEF FreePlaces
<1>14. ASSUME NEW c \in Clerks, FinalizeSave(c)
       PROVE  PlacesBounded'
  <2>1. PICK t \in clerk[c] : t.op = "finalize" /\ Put(t.id, t.row) /\ Done(c)
                              /\ guests' = guests
    BY <1>14 DEF FinalizeSave
  <2>2. t.id \in Attendees /\ t.row.status # "ENROLLED"
    BY <2>1, EntityFields DEF EnrIInv, MemoryChecked, Checked
  <2>3. QED
    BY <1>0, <2>1, <2>2, SavePlaces
<1>15. ASSUME NEW a \in Attendees, GrantCourtesy(a)
       PROVE  PlacesBounded'
  <2>1. PICK r \in Row : Put(a, r)
    BY <1>15, GuestRow DEF EnrIInv
  <2>2. clerk' = clerk /\ guests' = guests \cup {a}
    BY <1>15 DEF GrantCourtesy
  <2>3. \A b \in Attendees : enr'[b] = IF b = a THEN r ELSE enr[b]
    BY <2>1, PutRow DEF EnrIInv
  <2>4. FreeEnrolled' \subseteq FreeEnrolled \cup {a}
    BY <2>3 DEF FreeEnrolled, InStatus
  <2>5. \A d \in Clerks : Granted(d)' = Granted(d)
    BY <2>2 DEF Granted
  <2>6. QED
    BY <1>0, <2>2, <2>4, <2>5 DEF FreePlaces
<1>16. CASE BlockSave \/ UNCHANGED enrVars
  BY <1>1, <1>16 DEF BlockSave, enrVars
<1>17. QED
  BY <1>2, <1>3, <1>5, <1>7, <1>8, <1>9, <1>10, <1>11, <1>12, <1>13, <1>14,
     <1>15, <1>16 DEF EnrNext

\* enroll(): the people it let in for nothing and who have not begun are no
\* more than the largest maxParticipants of the open and free block and the
\* other requests that counted at the same time, whatever the administrators
\* make of the block, whoever is a guest and whatever stale row is saved.
THEOREM AdmissionsAreBounded == EnrSpec => []AdmissionsBounded
<1>1. EnrInit => PlacesBounded
  <2> SUFFICES ASSUME EnrInit
               PROVE  FreePlaces = {}
    BY DEF PlacesBounded
  <2>1. QED
    BY DEF EnrInit, FreePlaces, FreeEnrolled, InStatus, Granted, NoRow
<1>2. EnrIInv /\ PlacesBounded => AdmissionsBounded
  <2> SUFFICES ASSUME EnrIInv, PlacesBounded, Admitted # {}
               PROVE  \E b \in Blocks : Bounds(b, Cardinality(Admitted))
    BY DEF AdmissionsBounded, Bounds
  <2>1. /\ IsFiniteSet(FreePlaces)
        /\ Cardinality(FreePlaces) \in Nat
    BY PlacesFinite DEF EnrIInv
  <2>2. Admitted \subseteq FreePlaces
    BY DEF Admitted, FreePlaces, FreeEnrolled
  <2>3. PICK b \in Blocks : Bounds(b, Cardinality(FreePlaces))
    BY <2>2 DEF PlacesBounded
  <2>4. /\ IsFiniteSet(Admitted)
        /\ Cardinality(Admitted) <= Cardinality(FreePlaces)
    BY <2>1, <2>2, FS_Subset
  <2>5. /\ Cardinality(Admitted) \in Nat /\ Cardinality(Clerks) \in Nat
        /\ b.maxParticipants \in Nat
    BY <2>4, PeopleAssumption, BlockAssumption, FS_CardinalityType
       DEF EvaluableBlock
  <2>6. Bounds(b, Cardinality(Admitted))
    BY <2>1, <2>3, <2>4, <2>5 DEF Bounds
  <2>7. QED
    BY <2>6
<1>3. QED
  BY <1>1, <1>2, EnrInvariant, PlacesStep, PTL DEF EnrSpec

-----------------------------------------------------------------------------

\* Enrollments that are over.

\* What a step has to keep of an enrollment that is over.
StaysOver(a) == Over(a)' /\ enr'[a].status = enr[a].status

\* A request that loads rows: none that is over and would change.
LEMMA LoadStaysOver ==
  ASSUME EnrIInv, NEW c \in Clerks, NEW ids \in SUBSET Attendees,
         NEW op \in Operation, Load(c, ids, op), UNCHANGED enr,
         NEW a \in Attendees, Over(a)
  PROVE  StaysOver(a)
<1>1. ASSUME NEW d \in Clerks, NEW t \in clerk'[d], t.id = a
      PROVE  t.op = "enroll" \/ t.row.status = enr[a].status
  <2>1. CASE d = c
    <3>1. t.row = enr[t.id]
      BY <2>1, LoadMemory DEF EnrIInv
    <3>2. QED
      BY <1>1, <3>1
  <2>2. CASE d # c
    <3>1. clerk'[d] = clerk[d]
      BY <2>2, LoadOthers DEF EnrIInv
    <3>2. t \in clerk[d]
      BY <3>1
    <3>3. QED
      BY <1>1, <3>2 DEF Over
  <2>3. QED
    BY <2>1, <2>2
<1>2. QED
  BY <1>1 DEF StaysOver, Over

\* A request that saves: of an enrollment that is over, only its status.
LEMMA SaveStaysOver ==
  ASSUME EnrIInv, NEW c \in Clerks, Done(c), NEW a \in Attendees, Over(a),
         enr'[a].status = enr[a].status
  PROVE  StaysOver(a)
BY DoneMemory DEF EnrIInv, StaysOver, Over

\* Only enroll(), a verdict that was passed too and the recalculations still
\* hold it.
LEMMA HeldWhenOver ==
  ASSUME EnrIInv, NEW a \in Attendees, Over(a),
         NEW c \in Clerks, NEW t \in clerk[c], t.id = a
  PROVE  /\ t.op \in {"enroll", "grade", "finalize"}
         /\ t.op # "enroll" => t.row.status = enr[a].status
<1>1. Checked(t)
  BY DEF EnrIInv, MemoryChecked
<1>2. QED
  BY <1>1 DEF Over, Checked

LEMMA PutStaysOver ==
  ASSUME EnrIInv, NEW c \in Clerks, NEW t \in clerk[c], NEW r,
         Put(t.id, r), Done(c),
         \/ t.op \notin {"enroll", "grade", "finalize"}
         \/ t.op # "enroll" /\ r = t.row
         \/ enr[t.id].status = "ABSENT",
         NEW a \in Attendees, Over(a)
  PROVE  StaysOver(a)
<1>1. t.id \in Attendees
  BY EntityFields DEF EnrIInv
<1>2. enr'[a] = IF a = t.id THEN r ELSE enr[a]
  BY <1>1, PutRow DEF EnrIInv
<1>3. CASE a = t.id
  <2>1. t.op # "enroll" /\ r = t.row
    BY <1>3, HeldWhenOver DEF Over
  <2>2. QED
    BY <1>2, <1>3, <2>1, HeldWhenOver, SaveStaysOver
<1>4. CASE a # t.id
  BY <1>2, <1>4, SaveStaysOver
<1>5. QED
  BY <1>3, <1>4

LEMMA OverStep ==
  EnrIInv /\ [EnrNext]_enrVars => \A a \in Attendees : Over(a) => StaysOver(a)
<1> SUFFICES ASSUME EnrIInv, [EnrNext]_enrVars, NEW a \in Attendees, Over(a)
             PROVE  StaysOver(a)
  OBVIOUS
<1>1. CASE UNCHANGED <<enr, clerk>>
  BY <1>1 DEF StaysOver, Over
<1>2. ASSUME NEW c \in Clerks, NEW b \in Attendees, EnrollRead(c, b)
      PROVE  StaysOver(a)
  <2>1. PICK t \in Entity : clerk' = [clerk EXCEPT ![c] = {t}] /\ t.op = "enroll"
    BY <1>2, EnrollReadMemory
  <2>2. clerk'[c] = {t} /\ \A d \in Clerks \ {c} : clerk'[d] = clerk[d]
    BY <2>1 DEF EnrIInv, EnrTypeOK
  <2>3. enr' = enr
    BY <1>2 DEF EnrollRead
  <2>4. QED
    BY <2>1, <2>2, <2>3 DEF StaysOver, Over
<1>3. ASSUME NEW c \in Clerks, EnrollSave(c)
      PROVE  StaysOver(a)
  <2>1. PICK t \in clerk[c] : /\ enr[t.id].status = "ABSENT"
                              /\ Put(t.id, t.row) /\ Done(c)
    BY <1>3 DEF EnrollSave
  <2>2. QED
    BY <2>1, PutStaysOver
<1>4. ASSUME NEW c \in Clerks,
             ConfirmSave(c) \/ CancelSave(c) \/ WithdrawSave(c)
      PROVE  StaysOver(a)
  <2>1. PICK t \in clerk[c], s \in BlockEnrollmentStatus :
           /\ t.op \in {"confirm", "cancel", "withdraw"}
           /\ Put(t.id, WithStatus(t.row, s)) /\ Done(c)
    BY <1>4 DEF ConfirmSave, CancelSave, WithdrawSave, BlockEnrollmentStatus
  <2>2. QED
    BY <2>1, PutStaysOver
<1>5. ASSUME NEW c \in Clerks, StartSave(c)
      PROVE  StaysOver(a)
  <2>1. ASSUME NEW t \in clerk[c], t.id = a, t.op = "start"
        PROVE  FALSE
    BY <2>1, HeldWhenOver
  <2>2. enr'[a] = enr[a]
    BY <1>5, <2>1, StartRows
  <2>3. QED
    BY <1>5, <2>2, SaveStaysOver DEF StartSave
<1>6. ASSUME NEW c \in Clerks, RefreshSave(c) \/ FinalizeSave(c)
      PROVE  StaysOver(a)
  <2>1. PICK t \in clerk[c] : t.op # "enroll" /\ Put(t.id, t.row) /\ Done(c)
    BY <1>6 DEF RefreshSave, FinalizeSave
  <2>2. QED
    BY <2>1, PutStaysOver
<1>7. ASSUME NEW c \in Clerks, ClerkFail(c)
      PROVE  StaysOver(a)
  BY <1>7, SaveStaysOver DEF ClerkFail
<1>8. ASSUME NEW c \in Clerks, NEW b \in Attendees,
             \/ ConfirmRead(c, b) \/ CancelRead(c, b) \/ WithdrawRead(c, b)
             \/ RefreshRead(c, b)
      PROVE  StaysOver(a)
  <2>1. PICK op \in Operation : Load(c, {b}, op) /\ UNCHANGED enr
    BY <1>8 DEF ConfirmRead, CancelRead, WithdrawRead, RefreshRead, Operation
  <2>2. QED
    BY <2>1, LoadStaysOver
<1>9. ASSUME NEW c \in Clerks, StartRead(c)
      PROVE  StaysOver(a)
  <2>1. Load(c, InStatus("ENROLLED"), "start") /\ UNCHANGED enr
    BY <1>9 DEF StartRead
  <2>2. InStatus("ENROLLED") \in SUBSET Attendees /\ "start" \in Operation
    BY DEF InStatus, Operation
  <2>3. QED
    BY <2>1, <2>2, LoadStaysOver
<1>10. CASE BlockSave \/ UNCHANGED enrVars
  BY <1>1, <1>10 DEF BlockSave, enrVars
<1>11. ASSUME NEW c \in Clerks, NEW b \in Attendees, FinalizeRead(c, b)
       PROVE  StaysOver(a)
  <2>1. PICK t \in Entity : clerk' = [clerk EXCEPT ![c] = {t}] /\ t.id = b
    BY <1>11, FinalizeReadMemory DEF EnrIInv
  <2>2. clerk'[c] = {t} /\ \A d \in Clerks \ {c} : clerk'[d] = clerk[d]
    BY <2>1 DEF EnrIInv, EnrTypeOK
  <2>3. enr' = enr /\ a # b
    BY <1>11 DEF FinalizeRead, Over
  <2>4. QED
    BY <2>1, <2>2, <2>3 DEF StaysOver, Over
<1>12. ASSUME NEW b \in Attendees, GrantCourtesy(b)
       PROVE  StaysOver(a)
  <2>1. PICK r \in Row : Put(b, r)
    BY <1>12, GuestRow DEF EnrIInv
  <2>2. clerk' = clerk /\ enr[b].status = "ABSENT"
    BY <1>12 DEF GrantCourtesy
  <2>3. enr'[a] = enr[a]
    BY <2>1, <2>2, PutRow DEF EnrIInv, Over
  <2>4. QED
    BY <2>2, <2>3 DEF StaysOver, Over
<1>13. QED
  BY <1>2, <1>3, <1>4, <1>5, <1>6, <1>7, <1>8, <1>9, <1>10, <1>11, <1>12
     DEF EnrNext

\* cancel(), withdraw() and finalizeEnrollment(): once nobody holds an older
\* copy of it, an enrollment that is over keeps its status for ever, whoever
\* loads and saves it again.
THEOREM OverStaysOver == EnrSpec => OverIsOver
<1>1. EnrIInv /\ [EnrNext]_enrVars =>
        [\A a \in Attendees :
            Over(a) => Over(a)' /\ enr'[a].status = enr[a].status]_enrVars
  BY OverStep DEF StaysOver
<1>2. QED
  BY <1>1, EnrInvariant, PTL DEF EnrSpec, OverIsOver

-----------------------------------------------------------------------------
(***************************************************************************)
(* Sums.  MapThenSumSet() is a recursive function; what it computes is     *)
(* proved by looking at a smallest set for which it would be something     *)
(* else.                                                                   *)
(***************************************************************************)

\* Among subsets of a finite set one is smallest.
LEMMA SmallestSubset ==
  ASSUME NEW S, IsFiniteSet(S), NEW B, B \subseteq SUBSET S, B # {}
  PROVE  \E s \in B : \A u \in B : u \subseteq s => u = s
<1>1. IsWellFoundedOn(StrictSubsetOrdering(S), FiniteSubsetsOf(S))
  BY FS_StrictSubsetOrderingWellFounded
<1>2. B \subseteq FiniteSubsetsOf(S)
  BY FS_FiniteSubsetsOfFinite
<1>3. PICK s \in B : \A u \in B : ~ (<<u, s>> \in StrictSubsetOrdering(S))
  BY <1>1, <1>2, WFMin
<1>4. QED
  BY <1>3 DEF StrictSubsetOrdering

\* As many pairs as f adds up to over s.
Tally(f, s) == {p \in s \X Nat : p[2] \in 1..f[p[1]]}

LEMMA TallyStep ==
  ASSUME NEW S, NEW f \in [S -> Nat], NEW s \in SUBSET S, NEW x \in s,
         IsFiniteSet(Tally(f, s \ {x}))
  PROVE  /\ IsFiniteSet(Tally(f, s))
         /\ Cardinality(Tally(f, s)) = f[x] + Cardinality(Tally(f, s \ {x}))
<1> DEFINE one == {x}
           below == 1..f[x]
           mine == one \X below
           rest == Tally(f, s \ {x})
<1>1. f[x] \in Nat
  OBVIOUS
<1>2. IsFiniteSet(below) /\ Cardinality(below) = f[x]
  BY <1>1, FS_Interval
<1>3. IsFiniteSet(one) /\ Cardinality(one) = 1
  BY FS_Singleton
<1>4. mine = {p \in s \X Nat : p[1] = x /\ p[2] \in 1..f[p[1]]}
  <2>1. ASSUME NEW p \in mine
        PROVE  p \in s \X Nat /\ p[1] = x /\ p[2] \in 1..f[p[1]]
    BY <1>1
  <2>2. ASSUME NEW p \in s \X Nat, p[1] = x, p[2] \in 1..f[p[1]]
        PROVE  p \in mine
    BY <2>2
  <2>3. QED
    BY <2>1, <2>2
<1>5. rest = {p \in s \X Nat : p[1] # x /\ p[2] \in 1..f[p[1]]}
  BY DEF Tally
<1>6. Tally(f, s) = rest \cup mine /\ rest \cap mine = {}
  BY <1>4, <1>5 DEF Tally
<1> HIDE DEF one, below
<1>7. IsFiniteSet(mine) /\ Cardinality(mine) = 1 * f[x]
  BY <1>2, <1>3, FS_Product
<1>8. IsFiniteSet(rest)
  OBVIOUS
<1> HIDE DEF mine, rest
<1>9. /\ IsFiniteSet(rest \cup mine)
      /\ Cardinality(rest \cup mine) =
            Cardinality(rest) + Cardinality(mine) - Cardinality(rest \cap mine)
  BY <1>7, <1>8, FS_Union
<1>10. Cardinality(rest) \in Nat /\ Cardinality(rest \cap mine) = 0
  BY <1>6, <1>8, FS_CardinalityType, FS_EmptySet
<1>11. /\ IsFiniteSet(Tally(f, s))
       /\ Cardinality(Tally(f, s)) = f[x] + Cardinality(rest)
  BY <1>1, <1>6, <1>7, <1>9, <1>10
<1>12. QED
  BY <1>11 DEF rest

LEMMA TallyFinite ==
  ASSUME NEW S, IsFiniteSet(S), NEW f \in [S -> Nat]
  PROVE  \A s \in SUBSET S : IsFiniteSet(Tally(f, s))
<1> DEFINE B == {s \in SUBSET S : ~ IsFiniteSet(Tally(f, s))}
<1>1. SUFFICES ASSUME B # {} PROVE FALSE
  OBVIOUS
<1>2. B \subseteq SUBSET S
  OBVIOUS
<1> HIDE DEF B
<1>3. PICK s \in B : \A u \in B : u \subseteq s => u = s
  BY <1>1, <1>2, SmallestSubset
<1> USE DEF B
<1>4. CASE s = {}
  BY <1>3, <1>4, FS_EmptySet DEF Tally
<1>5. ASSUME NEW x \in s PROVE FALSE
  <2>1. IsFiniteSet(Tally(f, s \ {x}))
    BY <1>3
  <2>2. QED
    BY <1>3, <2>1, TallyStep
<1>6. QED
  BY <1>4, <1>5

LEMMA SumIsTally ==
  ASSUME NEW S, IsFiniteSet(S), NEW g, NEW f \in [S -> Nat],
         \A x \in S : f[x] = g[x].mark
  PROVE  MapThenSumSet(LAMBDA x : g[x].mark, S) = Cardinality(Tally(f, S))
<1> DEFINE pick(s) == CHOOSE x \in s : TRUE
           Adds(h) == h = [s \in SUBSET S |->
                             IF s = {} THEN 0
                             ELSE g[pick(s)].mark + h[s \ {pick(s)}]]
           sum == CHOOSE h : Adds(h)
<1>1. MapThenSumSet(LAMBDA x : g[x].mark, S) = sum[S]
  BY DEF MapThenSumSet, MapThenFoldSet
<1>2. \A s \in SUBSET S : s # {} => pick(s) \in s
  OBVIOUS
<1> HIDE DEF pick
<1>3. \E h : Adds(h)
  <2> DEFINE h == [s \in SUBSET S |-> Cardinality(Tally(f, s))]
  <2>1. ASSUME NEW s \in SUBSET S
        PROVE  h[s] = IF s = {} THEN 0 ELSE g[pick(s)].mark + h[s \ {pick(s)}]
    <3>1. CASE s = {}
      BY <3>1, FS_EmptySet DEF Tally
    <3>2. CASE s # {}
      <4>1. pick(s) \in s /\ s \ {pick(s)} \in SUBSET S
        BY <1>2, <3>2
      <4>2. QED
        BY <3>2, <4>1, TallyFinite, TallyStep
    <3>3. QED
      BY <3>1, <3>2
  <2>2. Adds(h)
    BY <2>1
  <2>3. QED
    BY <2>2
<1>4. Adds(sum)
  BY <1>3
<1> HIDE DEF sum
<1>5. \A s \in SUBSET S : sum[s] = Cardinality(Tally(f, s))
  <2> DEFINE B == {s \in SUBSET S : sum[s] # Cardinality(Tally(f, s))}
  <2>1. SUFFICES ASSUME B # {} PROVE FALSE
    OBVIOUS
  <2>7. B \subseteq SUBSET S
    OBVIOUS
  <2> HIDE DEF B
  <2>2. PICK s \in B : \A u \in B : u \subseteq s => u = s
    BY <2>1, <2>7, SmallestSubset
  <2> USE DEF B
  <2>3. sum[s] = IF s = {} THEN 0 ELSE g[pick(s)].mark + sum[s \ {pick(s)}]
    BY <1>4, <2>2
  <2>4. CASE s = {}
    BY <2>2, <2>3, <2>4, FS_EmptySet DEF Tally
  <2>5. CASE s # {}
    <3>1. pick(s) \in s /\ s \ {pick(s)} \in SUBSET S
      BY <1>2, <2>2, <2>5
    <3>2. sum[s \ {pick(s)}] = Cardinality(Tally(f, s \ {pick(s)}))
      BY <2>2, <3>1
    <3>3. QED
      BY <2>2, <2>3, <2>5, <3>1, <3>2, TallyFinite, TallyStep
  <2>6. QED
    BY <2>4, <2>5
<1>6. QED
  BY <1>1, <1>5

LEMMA Extremes ==
  ASSUME NEW S, IsFiniteSet(S), S # {}, NEW f \in [S -> Nat]
  PROVE  /\ \E x \in S : \A y \in S : f[y] <= f[x]
         /\ \E x \in S : \A y \in S : f[x] <= f[y]
<1> DEFINE Extreme(s) == /\ \E x \in s : \A y \in s : f[y] <= f[x]
                         /\ \E x \in s : \A y \in s : f[x] <= f[y]
           B == {s \in SUBSET S : s # {} /\ ~Extreme(s)}
<1>1. SUFFICES ASSUME B # {} PROVE FALSE
  OBVIOUS
<1>2. B \subseteq SUBSET S
  OBVIOUS
<1> HIDE DEF B
<1>3. PICK s \in B : \A u \in B : u \subseteq s => u = s
  BY <1>1, <1>2, SmallestSubset
<1> USE DEF B
<1>4. PICK x \in s : TRUE
  BY <1>3
<1>5. \A y \in s : f[y] \in Nat
  BY <1>3
<1>6. CASE s \ {x} = {}
  <2>1. s = {x}
    BY <1>6
  <2>2. Extreme(s)
    BY <1>5, <2>1
  <2>3. QED
    BY <1>3, <2>2
<1>7. CASE s \ {x} # {}
  <2>1. Extreme(s \ {x})
    <3>1. s \ {x} \notin B
      <4> HIDE DEF B
      <4>1. QED
        BY <1>3, <1>4
    <3> HIDE DEF Extreme
    <3>2. QED
      BY <1>2, <1>3, <1>7, <3>1
  <2>2. PICK high \in s \ {x} : \A y \in s \ {x} : f[y] <= f[high]
    BY <2>1
  <2>3. PICK low \in s \ {x} : \A y \in s \ {x} : f[low] <= f[y]
    BY <2>1
  <2>4. \E z \in s : \A y \in s : f[y] <= f[z]
    <3>1. CASE f[high] <= f[x]
      BY <1>5, <2>2, <3>1
    <3>2. CASE ~(f[high] <= f[x])
      BY <1>5, <2>2, <3>2
    <3>3. QED
      BY <3>1, <3>2
  <2>5. \E z \in s : \A y \in s : f[z] <= f[y]
    <3>1. CASE f[x] <= f[low]
      BY <1>5, <2>3, <3>1
    <3>2. CASE ~(f[x] <= f[low])
      BY <1>5, <2>3, <3>2
    <3>3. QED
      BY <3>1, <3>2
  <2>6. QED
    BY <1>3, <2>4, <2>5
<1>8. QED
  BY <1>6, <1>7

\* Rounded division lies where the division does.
LEMMA RoundedBetween ==
  ASSUME NEW n \in Nat, n > 0, NEW sum \in Nat, NEW low \in Nat, NEW high \in Nat,
         n * low <= sum, sum <= n * high
  PROVE  /\ (2 * sum + n) \div (2 * n) \in Nat
         /\ low <= (2 * sum + n) \div (2 * n)
         /\ (2 * sum + n) \div (2 * n) <= high
<1> DEFINE x == 2 * sum + n
           d == 2 * n
           q == x \div d
<1>1. x \in Nat /\ d \in Nat /\ d > 0 /\ q \in Int
  OBVIOUS
<1>2. d * q <= x /\ x < d * q + d
  BY <1>1
<1>3. d * low <= x /\ x < d * high + d
  OBVIOUS
<1> HIDE DEF x, d, q
<1>4. low <= q
  <2>1. SUFFICES ASSUME q + 1 <= low PROVE FALSE
    BY <1>1
  <2>2. d * (q + 1) <= d * low
    BY <1>1, <2>1
  <2>3. QED
    BY <1>1, <1>2, <1>3, <2>2
<1>5. q <= high
  <2>1. SUFFICES ASSUME high + 1 <= q PROVE FALSE
    BY <1>1
  <2>2. d * (high + 1) <= d * q
    BY <1>1, <2>1
  <2>3. QED
    BY <1>1, <1>2, <1>3, <2>2
<1>6. QED
  BY <1>1, <1>4, <1>5 DEF x, d, q

LEMMA UpTo ==
  ASSUME NEW k \in Nat
  PROVE  IsFiniteSet(1..k) /\ Cardinality(1..k) = k
BY FS_Interval

\* An average is between two of the marks.
LEMMA AverageBetween ==
  ASSUME NEW a, NEW E, IsFiniteSet(E), E # {}, \A e \in E : grades[a][e].mark \in Nat
  PROVE  /\ Average(a, E) \in Nat
         /\ \E e \in E : grades[a][e].mark <= Average(a, E)
         /\ \E e \in E : Average(a, E) <= grades[a][e].mark
<1> DEFINE f == [e \in E |-> grades[a][e].mark]
           n == Cardinality(E)
           sum == Cardinality(Tally(f, E))
<1>1. f \in [E -> Nat] /\ \A e \in E : f[e] = grades[a][e].mark
  OBVIOUS
<1> HIDE DEF f
<1>2. MapThenSumSet(LAMBDA x : grades[a][x].mark, E) = sum
  BY <1>1, SumIsTally
<1>3. Average(a, E) = (2 * sum + n) \div (2 * n)
  BY <1>2 DEF Average
<1>4. PICK low \in E : \A y \in E : f[low] <= f[y]
  BY <1>1, Extremes
<1>5. PICK high \in E : \A y \in E : f[y] <= f[high]
  BY <1>1, Extremes
<1>6. f[low] \in Nat /\ f[high] \in Nat
  BY <1>1
<1>7. IsFiniteSet(Tally(f, E)) /\ sum \in Nat
  BY <1>1, TallyFinite, FS_CardinalityType
<1>8. n \in Nat /\ n > 0
  BY FS_CardinalityType, FS_EmptySet
<1>9. n * f[low] <= sum
  <2> DEFINE numbers == 1..f[low]
  <2>1. IsFiniteSet(numbers) /\ Cardinality(numbers) = f[low]
    BY <1>6, UpTo
  <2>2. E \X numbers \subseteq Tally(f, E)
    <3>1. ASSUME NEW e \in E, NEW i \in numbers
          PROVE  i \in Nat /\ i \in 1..f[e]
      BY <1>1, <1>4, <1>6
    <3> HIDE DEF numbers
    <3>2. QED
      BY <3>1 DEF Tally
  <2> HIDE DEF numbers
  <2>3. IsFiniteSet(E \X numbers) /\ Cardinality(E \X numbers) = n * f[low]
    BY <2>1, FS_Product
  <2>4. QED
    BY <1>7, <2>2, <2>3, FS_Subset
<1>10. sum <= n * f[high]
  <2> DEFINE numbers == 1..f[high]
  <2>1. IsFiniteSet(numbers) /\ Cardinality(numbers) = f[high]
    BY <1>6, UpTo
  <2>2. Tally(f, E) \subseteq E \X numbers
    <3>1. ASSUME NEW e \in E, NEW i \in 1..f[e]
          PROVE  i \in numbers
      BY <1>1, <1>5, <1>6
    <3> HIDE DEF numbers
    <3>2. QED
      BY <3>1 DEF Tally
  <2> HIDE DEF numbers
  <2>3. IsFiniteSet(E \X numbers) /\ Cardinality(E \X numbers) = n * f[high]
    BY <2>1, FS_Product
  <2>4. QED
    BY <2>2, <2>3, FS_Subset
<1> HIDE DEF n, sum
<1>11. QED
  BY <1>1, <1>3, <1>6, <1>7, <1>8, <1>9, <1>10, RoundedBetween

-----------------------------------------------------------------------------
(***************************************************************************)
(* Attendance and grades                                                   *)
(***************************************************************************)

\* The grades that a row tells of were published.
Supported(a, row) ==
    /\ row.final # NoGrade =>
          /\ \E m \in PublishedMarks(a, FALSE) : m <= row.final
          /\ \E m \in PublishedMarks(a, FALSE) : m >= row.final
    /\ row.after # NoGrade =>
          /\ \E retake \in BOOLEAN : \E m \in PublishedMarks(a, retake) :
                m >= row.after
          /\ PublishedMarks(a, TRUE) # {}
          /\ \/ \E b \in Blocks : row.after <= b.minPassingGrade
             \/ \E m \in PublishedMarks(a, FALSE) : m >= row.after

Came(a) == \E s \in Sessions : <<a, s>> \in attended

Passed(a, b) ==
    \E retake \in BOOLEAN : \E m \in PublishedMarks(a, retake) :
        m >= b.minPassingGrade

Earned(a) ==
    \E b \in Blocks :
        /\ b.minAttendancePercentage > 0 /\ Sessions # {} => Came(a)
        /\ Passed(a, b)

\* Whoever has some attendance came, and who was approved earned it.
Attended(a, row) == row.attendance > 0 /\ Sessions # {} => Came(a)

Approved(a, row) == row.status = "APPROVED" => Earned(a)

RowsTrue ==
    \A a \in Attendees :
        Supported(a, enr[a]) /\ Attended(a, enr[a]) /\ Approved(a, enr[a])

\* An attendance that counts a row its own request has not committed is saved
\* together with that row.
Counted(c, t) ==
    \/ Attended(t.id, t.row)
    \/ /\ t.op = "attend"
       /\ \E u \in signing[c] : u.row.id = t.id /\ u.row.status # "ABSENT"

MemoryTrue ==
    \A c \in Clerks : \A t \in clerk[c] :
        Supported(t.id, t.row) /\ Counted(c, t) /\ Approved(t.id, t.row)

\* A request does one thing at a time, and signs one row.
OneThingOf(c) ==
    /\ \A u, v \in signing[c] : u = v
    /\ marking[c] # {} \/ queue[c] # {} => signing[c] = {}
    /\ signing[c] # {} => \A t \in clerk[c] : t.op = "attend"
    /\ \A u \in signing[c] : clerk[c] # {} => u.counts

OneThing == \A c \in Clerks : OneThingOf(c)

RollTrue ==
    /\ IsFiniteSet(roll)
    /\ \A r \in roll : r.status # "ABSENT" => <<r.id, r.session>> \in attended

GradesTrue ==
    /\ \A a \in Attendees : \A e \in Exams :
        /\ grades[a][e].status # "NONE" => grades[a][e].mark \in Marks
        /\ grades[a][e].status = "PUBLISHED" =>
              [id |-> a, mark |-> grades[a][e].mark,
               retake |-> grades[a][e].retake] \in published
    /\ \A c \in Clerks : \A t \in marking[c] : t.grade.mark \in Marks

EvalIInv ==
    /\ EvalTypeOK
    /\ RowsTrue /\ MemoryTrue
    /\ OneThing /\ RollTrue /\ GradesTrue

-----------------------------------------------------------------------------

LEMMA PublishedMark ==
  ASSUME EvalIInv, NEW a \in Attendees, NEW retake \in BOOLEAN,
         NEW e \in PublishedExams(a, retake)
  PROVE  /\ grades[a][e].mark \in PublishedMarks(a, retake)
         /\ grades[a][e].mark \in Nat
<1>1. /\ e \in Exams /\ grades[a][e].status = "PUBLISHED"
      /\ grades[a][e].retake = retake
  BY DEF PublishedExams
<1>2. [id |-> a, mark |-> grades[a][e].mark, retake |-> retake] \in published
      /\ grades[a][e].mark \in Marks
  BY <1>1 DEF EvalIInv, GradesTrue
<1> DEFINE p == [id |-> a, mark |-> grades[a][e].mark, retake |-> retake]
<1>3. p.id = a /\ p.mark = grades[a][e].mark /\ p.retake = retake /\ p \in published
  BY <1>2
<1> HIDE DEF p
<1>4. p.mark \in PublishedMarks(a, retake)
  BY <1>3 DEF PublishedMarks
<1>5. QED
  BY <1>2, <1>3, <1>4, CourseAssumption

LEMMA MarksNat ==
  ASSUME EvalTypeOK, NEW a, NEW retake
  PROVE  PublishedMarks(a, retake) \subseteq Nat
BY CourseAssumption DEF EvalTypeOK, PublishedMarks

LEMMA MaxOfTwo ==
  ASSUME NEW i \in Nat, NEW j \in Nat
  PROVE  /\ Max({i, j}) = IF i >= j THEN i ELSE j
         /\ Min({i, j}) = IF i <= j THEN i ELSE j
<1>1. \A x \in {i, j} : (\A y \in {i, j} : x >= y) => x = IF i >= j THEN i ELSE j
  OBVIOUS
<1>2. \A x \in {i, j} : (\A y \in {i, j} : x <= y) => x = IF i <= j THEN i ELSE j
  OBVIOUS
<1>3. \E x \in {i, j} : \A y \in {i, j} : x >= y
  OBVIOUS
<1>4. \E x \in {i, j} : \A y \in {i, j} : x <= y
  OBVIOUS
<1>5. QED
  BY <1>1, <1>2, <1>3, <1>4 DEF Max, Min

LEMMA BestMark ==
  ASSUME NEW a, NEW E, IsFiniteSet(E), E # {}, \A e \in E : grades[a][e].mark \in Nat
  PROVE  \E e \in E : Max({grades[a][x].mark : x \in E}) = grades[a][e].mark
<1> DEFINE f == [e \in E |-> grades[a][e].mark]
           S == {grades[a][x].mark : x \in E}
<1>1. f \in [E -> Nat] /\ \A e \in E : f[e] = grades[a][e].mark
  OBVIOUS
<1> HIDE DEF f
<1>2. PICK high \in E : \A y \in E : f[y] <= f[high]
  BY <1>1, Extremes
<1>3. f[high] \in S /\ \A y \in S : f[high] >= y
  BY <1>1, <1>2
<1> HIDE DEF S
<1>4. Max(S) \in S
  BY <1>3 DEF Max
<1>5. QED
  BY <1>4 DEF S

\* recalculateFinalGrade() writes what was published, and leaves the rest.
LEMMA RecalculatedRow ==
  ASSUME EvalIInv, NEW a \in Attendees
  PROVE  /\ Recalculated(a) \in Row
         /\ Recalculated(a).status = enr[a].status
         /\ Recalculated(a).attendance = enr[a].attendance
         /\ Supported(a, Recalculated(a))
<1> DEFINE graded  == PublishedExams(a, FALSE)
           retaken == PublishedExams(a, TRUE)
           final   == Average(a, graded)
           best    == Max({grades[a][e].mark : e \in retaken})
           capped  == Max({final, Min({best, block.minPassingGrade})})
<1>1. enr[a] \in Row /\ Supported(a, enr[a])
  BY DEF EvalIInv, EvalTypeOK, EnrTypeOK, RowsTrue
<1>2. CASE graded = {}
  <2>1. Recalculated(a) = [enr[a] EXCEPT !.final = NoGrade]
    BY <1>2 DEF Recalculated
  <2>2. QED
    BY <1>1, <2>1 DEF Row, Mark, Supported
<1>3. CASE graded # {}
  <2>1. IsFiniteSet(graded) /\ IsFiniteSet(retaken)
    BY CourseAssumption, FS_Subset DEF PublishedExams
  <2>2. \A e \in graded : grades[a][e].mark \in PublishedMarks(a, FALSE)
                          /\ grades[a][e].mark \in Nat
    BY PublishedMark
  <2>3. \A e \in retaken : grades[a][e].mark \in PublishedMarks(a, TRUE)
                           /\ grades[a][e].mark \in Nat
    BY PublishedMark
  <2>4. Recalculated(a) =
           [enr[a] EXCEPT !.final = final,
                          !.after = IF retaken = {} THEN @ ELSE capped]
    BY <1>3 DEF Recalculated
  <2> HIDE DEF graded, retaken, final, best, capped
  <2>5. /\ final \in Nat
        /\ \E e \in graded : grades[a][e].mark <= final
        /\ \E e \in graded : final <= grades[a][e].mark
    BY <1>3, <2>1, <2>2, AverageBetween DEF final
  <2>6. /\ \E m \in PublishedMarks(a, FALSE) : m <= final
        /\ \E m \in PublishedMarks(a, FALSE) : m >= final
    BY <2>2, <2>5
  <2>7. CASE retaken = {}
    <3>1. Recalculated(a) = [enr[a] EXCEPT !.final = final]
      BY <2>4, <2>7 DEF Row
    <3>2. /\ Recalculated(a) \in Row
          /\ Recalculated(a).status = enr[a].status
          /\ Recalculated(a).attendance = enr[a].attendance
          /\ Recalculated(a).final = final
          /\ Recalculated(a).after = enr[a].after
      BY <1>1, <2>5, <3>1 DEF Row, Mark
    <3>3. QED
      BY <1>1, <2>6, <3>2 DEF Supported
  <2>8. CASE retaken # {}
    <3>1. \E e \in retaken : best = grades[a][e].mark
      BY <2>1, <2>3, <2>8, BestMark DEF best
    <3>2. best \in PublishedMarks(a, TRUE) /\ best \in Nat
      BY <2>3, <3>1
    <3>3. block \in Blocks /\ block.minPassingGrade \in Nat
      BY BlockAssumption DEF EvalIInv, EvalTypeOK, EnrTypeOK, EvaluableBlock
    <3>4. PICK pass \in Nat : pass = block.minPassingGrade
      BY <3>3
    <3>5. Min({best, pass}) = IF best <= pass THEN best ELSE pass
      BY <3>2, <3>4, MaxOfTwo
    <3>6. capped = IF final >= Min({best, pass}) THEN final ELSE Min({best, pass})
      <4>1. Min({best, pass}) \in Nat
        BY <3>2, <3>4, <3>5
      <4>2. capped = Max({final, Min({best, pass})})
        BY <3>4 DEF capped
      <4>3. QED
        BY <2>5, <4>1, <4>2, MaxOfTwo
    <3>7. /\ capped \in Nat
          /\ capped <= pass \/ capped = final
          /\ capped <= best \/ capped = final
      BY <2>5, <3>2, <3>4, <3>5, <3>6
    <3>8. \/ \E b \in Blocks : capped <= b.minPassingGrade
          \/ \E m \in PublishedMarks(a, FALSE) : m >= capped
      BY <2>6, <3>3, <3>4, <3>7
    <3>9. \E retake \in BOOLEAN : \E m \in PublishedMarks(a, retake) : m >= capped
      <4>1. CASE capped = final
        BY <2>6, <4>1
      <4>2. CASE capped <= best
        <5>1. best >= capped
          BY <3>2, <3>7, <4>2
        <5>2. QED
          BY <3>2, <5>1
      <4>3. QED
        BY <3>7, <4>1, <4>2
    <3>11. Recalculated(a) = [enr[a] EXCEPT !.final = final, !.after = capped]
      BY <2>4, <2>8
    <3>12. /\ Recalculated(a) \in Row
           /\ Recalculated(a).status = enr[a].status
           /\ Recalculated(a).attendance = enr[a].attendance
           /\ Recalculated(a).final = final
           /\ Recalculated(a).after = capped
      BY <1>1, <2>5, <3>7, <3>11 DEF Row, Mark
    <3>13. QED
      BY <2>6, <3>2, <3>8, <3>9, <3>12 DEF Supported
  <2>9. QED
    BY <2>7, <2>8
<1>4. QED
  BY <1>2, <1>3

-----------------------------------------------------------------------------

LEMMA HalfOfNone ==
  ASSUME NEW n \in Nat, n > 0
  PROVE  ((2 * 0 + 0) * 100 + n) \div (2 * n) = 0
<1>1. (2 * 0 + 0) * 100 + n = n
  OBVIOUS
<1>2. n \div (2 * n) = 0
  <2> DEFINE d == 2 * n
             q == n \div d
  <2>1. d \in Nat /\ d > 0 /\ q \in Int /\ d * q <= n /\ n < d * q + d
    OBVIOUS
  <2>2. n < d
    OBVIOUS
  <2> HIDE DEF d, q
  <2>3. q < 1
    <3>1. SUFFICES ASSUME 1 <= q PROVE FALSE
      BY <2>1
    <3>2. d * 1 <= d * q
      BY <2>1, <3>1
    <3>3. QED
      BY <2>1, <2>2, <3>2
  <2>4. q > -1
    <3>1. SUFFICES ASSUME q <= -1 PROVE FALSE
      BY <2>1
    <3>2. d * q <= d * (-1)
      BY <2>1, <3>1
    <3>3. QED
      BY <2>1, <3>2
  <2>5. QED
    BY <2>1, <2>3, <2>4 DEF q, d
<1>3. QED
  BY <1>1, <1>2

\* Nobody has some attendance without a row that says so.
LEMMA PercentageCounts ==
  ASSUME NEW R, IsFiniteSet(R), NEW a
  PROVE  /\ Percentage(R, a) \in Nat
         /\ Percentage(R, a) > 0 /\ Sessions # {} =>
               \E r \in R : r.id = a /\ r.status # "ABSENT"
<1> DEFINE n       == Cardinality(Sessions)
           valids   == {r \in R : r.id = a /\ r.status \in Valid}
           partials == {r \in R : r.id = a /\ r.status = "PARTIAL"}
           valid   == Cardinality(valids)
           partial == Cardinality(partials)
<1>1. n \in Nat /\ valid \in Nat /\ partial \in Nat
  BY CourseAssumption, FS_Subset, FS_CardinalityType
<1>2. Percentage(R, a) = IF n = 0 THEN 100
                         ELSE ((2 * valid + partial) * 100 + n) \div (2 * n)
  BY DEF Percentage
<1>3. (\A r \in R : r.id = a => r.status = "ABSENT") => valid = 0 /\ partial = 0
  <2>1. (\A r \in R : r.id = a => r.status = "ABSENT") => valids = {} /\ partials = {}
    BY DEF Valid
  <2>2. QED
    BY <2>1, FS_EmptySet
<1>4. Sessions # {} => n > 0
  BY CourseAssumption, FS_EmptySet, FS_CardinalityType
<1> HIDE DEF n, valid, partial
<1>5. Percentage(R, a) \in Nat
  <2>1. CASE n = 0
    BY <1>2, <2>1
  <2>2. CASE n # 0
    <3> DEFINE x == (2 * valid + partial) * 100 + n
    <3>1. x \in Nat
      BY <1>1
    <3>2. 2 * n > 0 /\ 2 * n \in Nat
      BY <1>1, <2>2
    <3>3. x \div (2 * n) \in Nat
      <4> HIDE DEF x
      <4> DEFINE d == 2 * n
      <4>1. d \in Nat /\ d > 0
        BY <3>2
      <4> HIDE DEF d
      <4>2. x \div d \in Nat
        BY <3>1, <4>1
      <4>3. QED
        BY <4>2 DEF d
    <3>4. QED
      BY <1>2, <2>2, <3>3
  <2>3. QED
    BY <2>1, <2>2
<1>6. ASSUME Sessions # {}, valid = 0, partial = 0
      PROVE  Percentage(R, a) = 0
  BY <1>1, <1>2, <1>4, <1>6, HalfOfNone
<1>7. QED
  BY <1>3, <1>5, <1>6

-----------------------------------------------------------------------------
(***************************************************************************)
(* What a step may do                                                      *)
(***************************************************************************)

\* Everything that is true of a row, stored or to be stored.
Fine(a, row) == Supported(a, row) /\ Attended(a, row) /\ Approved(a, row)

LEMMA FineStays ==
  ASSUME EvalTypeOK, published \subseteq published', attended \subseteq attended',
         NEW a, NEW row
  PROVE  /\ Supported(a, row) => Supported(a, row)'
         /\ Attended(a, row) => Attended(a, row)'
         /\ Approved(a, row) => Approved(a, row)'
<1>1. \A retake : PublishedMarks(a, retake) \subseteq PublishedMarks(a, retake)'
  BY DEF PublishedMarks
<1>2. Came(a) => Came(a)'
  BY DEF Came
<1>3. \A b \in Blocks : Passed(a, b) => Passed(a, b)'
  BY <1>1 DEF Passed
<1>4. Supported(a, row) => Supported(a, row)'
  BY <1>1 DEF Supported
<1>5. QED
  BY <1>2, <1>3, <1>4 DEF Attended, Approved, Earned

\* A step keeps what is known of the rows if it stores and loads fine ones,
\* and changes no attendance row of a request that counted it.
LEMMA RowsMemoryKept ==
  ASSUME EvalIInv, published \subseteq published', attended \subseteq attended',
         \A a \in Attendees : enr'[a] = enr[a] \/ Fine(a, enr[a])',
         \A c \in Clerks : \A t \in clerk'[c] :
            \/ t \in clerk[c] /\ signing'[c] = signing[c]
            \/ Supported(t.id, t.row)' /\ Counted(c, t)' /\ Approved(t.id, t.row)'
  PROVE  RowsTrue' /\ MemoryTrue'
<1>1. EvalTypeOK /\ RowsTrue /\ MemoryTrue
  BY DEF EvalIInv
<1>2. ASSUME NEW a \in Attendees
      PROVE  Fine(a, enr[a])'
  <2>1. CASE enr'[a] = enr[a]
    <3>1. PICK row : row = enr[a] /\ enr'[a] = row
      BY <2>1
    <3>2. Fine(a, row)
      BY <1>1, <3>1 DEF RowsTrue, Fine
    <3>3. Fine(a, row)'
      BY <1>1, <3>2, FineStays DEF Fine
    <3>4. QED
      BY <3>1, <3>3 DEF Fine, Supported, Attended, Approved
  <2>2. CASE Fine(a, enr[a])'
    BY <2>2
  <2>3. QED
    BY <2>1, <2>2
<1>3. ASSUME NEW c \in Clerks, NEW t \in clerk'[c]
      PROVE  Supported(t.id, t.row)' /\ Counted(c, t)' /\ Approved(t.id, t.row)'
  <2>1. CASE t \in clerk[c] /\ signing'[c] = signing[c]
    <3>1. Supported(t.id, t.row) /\ Counted(c, t) /\ Approved(t.id, t.row)
      BY <1>1, <2>1 DEF MemoryTrue
    <3>2. Supported(t.id, t.row)' /\ Approved(t.id, t.row)'
      BY <1>1, <3>1, FineStays
    <3>3. Attended(t.id, t.row) => Attended(t.id, t.row)'
      BY <1>1, FineStays
    <3>4. Counted(c, t)'
      BY <2>1, <3>1, <3>3 DEF Counted
    <3>5. QED
      BY <3>2, <3>4
  <2>2. CASE Supported(t.id, t.row)' /\ Counted(c, t)' /\ Approved(t.id, t.row)'
    BY <2>2
  <2>3. QED
    BY <2>1, <2>2
<1>4. RowsTrue'
  BY <1>2 DEF RowsTrue, Fine
<1>5. MemoryTrue'
  BY <1>3 DEF MemoryTrue
<1>6. QED
  BY <1>4, <1>5

\* A request that only ends some of what it does still does one thing.
LEMMA OneThingKept ==
  ASSUME OneThing,
         \A c \in Clerks :
            \/ /\ signing'[c] \subseteq signing[c] /\ clerk'[c] \subseteq clerk[c]
               /\ marking[c] = {} => marking'[c] = {}
               /\ queue[c] = {} => queue'[c] = {}
            \/ OneThingOf(c)'
  PROVE  OneThing'
<1> SUFFICES ASSUME NEW c \in Clerks PROVE OneThingOf(c)'
  BY DEF OneThing
<1>1. CASE /\ signing'[c] \subseteq signing[c] /\ clerk'[c] \subseteq clerk[c]
           /\ marking[c] = {} => marking'[c] = {}
           /\ queue[c] = {} => queue'[c] = {}
  BY <1>1 DEF OneThing, OneThingOf
<1>2. QED
  BY <1>1

LEMMA GradesKept ==
  ASSUME EvalIInv, grades' = grades, published' = published,
         \A c \in Clerks : marking'[c] \subseteq marking[c]
  PROVE  GradesTrue'
BY DEF EvalIInv, GradesTrue

LEMMA RollKept ==
  ASSUME EvalIInv, roll' = roll, attended' = attended
  PROVE  RollTrue'
BY DEF EvalIInv, RollTrue

-----------------------------------------------------------------------------
(***************************************************************************)
(* Steps                                                                   *)
(***************************************************************************)

\* A request loads one enrollment, or computes it, in its transaction.
LEMMA LoadStep ==
  ASSUME EvalIInv, NEW c \in Clerks, NEW t \in Entity,
         clerk' = [clerk EXCEPT ![c] = {t}],
         Supported(t.id, t.row), Approved(t.id, t.row), Counted(c, t),
         signing[c] # {} => t.op = "attend" /\ \A u \in signing[c] : u.counts,
         UNCHANGED <<blockVars, enr, rollVars, grades, queue, published, records>>,
         marking' \in [Clerks -> SUBSET MarkTask],
         \A d \in Clerks : /\ marking[d] = {} => marking'[d] = {}
                           /\ \A u \in marking'[d] : u.grade.mark \in Marks
  PROVE  EvalIInv'
<1>1. /\ EvalTypeOK /\ OneThing
      /\ UNCHANGED <<block, confirmed, guests, enr, roll, signing, attended>>
      /\ UNCHANGED <<grades, queue, published, records>>
  BY DEF EvalIInv, blockVars, rollVars
<1>2. clerk'[c] = {t} /\ \A d \in Clerks \ {c} : clerk'[d] = clerk[d]
  BY <1>1 DEF EvalTypeOK, EnrTypeOK
<1>3. EvalTypeOK'
  BY <1>1 DEF EvalTypeOK, EnrTypeOK
<1>4. RowsTrue' /\ MemoryTrue'
  <2>1. Supported(t.id, t.row)' /\ Approved(t.id, t.row)' /\ Counted(c, t)'
    <3>1. Attended(t.id, t.row) => Attended(t.id, t.row)'
      BY <1>1, FineStays
    <3>2. QED
      BY <1>1, <3>1, FineStays DEF Counted
  <2>2. \A d \in Clerks : \A u \in clerk'[d] :
           \/ u \in clerk[d] /\ signing'[d] = signing[d]
           \/ Supported(u.id, u.row)' /\ Counted(d, u)' /\ Approved(u.id, u.row)'
    BY <1>1, <1>2, <2>1
  <2>3. QED
    BY <1>1, <2>2, RowsMemoryKept
<1>5. OneThing'
  <2>1. OneThingOf(c)'
    BY <1>1, <1>2 DEF OneThing, OneThingOf
  <2>2. QED
    BY <1>1, <1>2, <2>1, OneThingKept
<1>6. RollTrue' /\ GradesTrue'
  BY <1>1 DEF EvalIInv, RollTrue, GradesTrue
<1>7. QED
  BY <1>3, <1>4, <1>5, <1>6 DEF EvalIInv

\* A request saves the enrollment it holds.
LEMMA SaveStep ==
  ASSUME EvalIInv, NEW c \in Clerks, NEW a \in Attendees, NEW row \in Row,
         Put(a, row), Done(c), Fine(a, row)',
         UNCHANGED <<blockVars, grades, marking, published, records>>,
         attended \subseteq attended', attended' \subseteq Attendees \X Sessions,
         roll' \subseteq Presence, RollTrue',
         signing' \in [Clerks -> SUBSET [row : Presence, counts : BOOLEAN]],
         queue' \in [Clerks -> SUBSET Attendees],
         \A d \in Clerks : /\ signing'[d] \subseteq signing[d]
                           /\ d # c => signing'[d] = signing[d]
                           /\ queue[d] = {} => queue'[d] = {}
  PROVE  EvalIInv'
<1>1. /\ EvalTypeOK /\ OneThing
      /\ UNCHANGED <<block, confirmed, guests, grades, marking, published, records>>
  BY DEF EvalIInv, blockVars
<1>2. /\ clerk' \in [Clerks -> SUBSET Entity] /\ clerk'[c] = {}
      /\ \A d \in Clerks : clerk'[d] \subseteq clerk[d]
  BY <1>1, DoneMemory DEF EvalTypeOK
<1>3. enr' \in [Attendees -> Row]
  BY <1>1, PutType DEF EvalTypeOK
<1>4. EvalTypeOK'
  BY <1>1, <1>2, <1>3 DEF EvalTypeOK, EnrTypeOK
<1>5. RowsTrue' /\ MemoryTrue'
  <2>1. \A b \in Attendees : enr'[b] = enr[b] \/ Fine(b, enr[b])'
    <3>1. \A b \in Attendees \ {a} : enr'[b] = enr[b]
      BY <1>1, PutRow DEF EvalTypeOK
    <3>2. enr'[a] = row
      BY <1>1, PutRow DEF EvalTypeOK
    <3>3. Fine(a, enr[a])'
      BY <3>2 DEF Fine, Supported, Attended, Approved
    <3>4. QED
      BY <3>1, <3>3
  <2>2. \A d \in Clerks : \A t \in clerk'[d] :
           t \in clerk[d] /\ signing'[d] = signing[d]
    BY <1>2
  <2>3. QED
    BY <1>1, <2>1, <2>2, RowsMemoryKept
<1>6. OneThing'
  BY <1>1, <1>2, OneThingKept
<1>7. GradesTrue'
  BY <1>1, GradesKept
<1>8. QED
  BY <1>4, <1>5, <1>6, <1>7 DEF EvalIInv

\* A row that is judged as the code judges it.
LEMMA JudgedFine ==
  ASSUME EvalIInv, NEW a \in Attendees, NEW row \in Row,
         Supported(a, row), Attended(a, row),
         NEW s \in BlockEnrollmentStatus, s = "APPROVED" => Passes(row)
  PROVE  WithStatus(row, s) \in Row /\ Fine(a, WithStatus(row, s))
<1> DEFINE new == WithStatus(row, s)
<1>1. /\ new \in Row /\ new.status = s /\ new.attendance = row.attendance
      /\ new.final = row.final /\ new.after = row.after
  BY WithStatusRow DEF WithStatus, Row
<1> HIDE DEF new
<1>2. Supported(a, new) /\ Attended(a, new)
  BY <1>1 DEF Supported, Attended
<1>3. ASSUME Passes(row)
      PROVE  Earned(a)
  <2>1. block \in Blocks /\ block \in EvaluableBlock
    BY BlockAssumption DEF EvalIInv, EvalTypeOK, EnrTypeOK
  <2>2. /\ row.attendance >= block.minAttendancePercentage
        /\ Judged(row) # NoGrade /\ Judged(row) >= block.minPassingGrade
    BY <1>3 DEF Passes
  <2>3. /\ row.attendance \in Nat /\ row.final \in Mark /\ row.after \in Mark
        /\ block.minAttendancePercentage \in Nat /\ block.minPassingGrade \in Nat
    BY <2>1 DEF Row, EvaluableBlock
  <2>4. block.minAttendancePercentage > 0 /\ Sessions # {} => Came(a)
    BY <2>2, <2>3 DEF Attended
  <2>5. PICK retake \in BOOLEAN : \E m \in PublishedMarks(a, retake) :
                                      m >= Judged(row)
    <3>1. CASE row.after # NoGrade
      BY <3>1 DEF Judged, Supported
    <3>2. CASE row.after = NoGrade
      BY <2>2, <3>2 DEF Judged, Supported
    <3>3. QED
      BY <3>1, <3>2
  <2>6. PICK m \in PublishedMarks(a, retake) : m >= Judged(row)
    BY <2>5
  <2>7. m \in Nat /\ Judged(row) \in Nat
    BY <2>2, <2>3, MarksNat DEF EvalIInv, Mark, Judged
  <2>8. m >= block.minPassingGrade
    BY <2>2, <2>3, <2>6, <2>7
  <2>9. Passed(a, block)
    BY <2>8 DEF Passed
  <2>10. QED
    BY <2>1, <2>4, <2>9 DEF Earned
<1>4. Approved(a, new)
  BY <1>1, <1>3 DEF Approved
<1>5. QED
  BY <1>1, <1>2, <1>4 DEF Fine, new

LEMMA FineNow ==
  ASSUME EvalIInv
  PROVE  /\ \A a \in Attendees : Fine(a, enr[a]) /\ enr[a] \in Row
         /\ \A c \in Clerks : \A t \in clerk[c] :
               /\ t \in Entity /\ t.id \in Attendees /\ t.row \in Row
               /\ t.op # "attend" => Fine(t.id, t.row)
BY EntityFields
DEF EvalIInv, RowsTrue, MemoryTrue, Fine, Counted, EvalTypeOK, EnrTypeOK

\* The table of presences and the requests' part in it.
LEMMA RollTypes ==
  ASSUME EvalIInv
  PROVE  /\ attended \subseteq Attendees \X Sessions
         /\ roll \subseteq Presence /\ RollTrue
         /\ signing \in [Clerks -> SUBSET [row : Presence, counts : BOOLEAN]]
         /\ queue \in [Clerks -> SUBSET Attendees]
BY DEF EvalIInv, EvalTypeOK

LEMMA LifecycleStep ==
  ASSUME EvalIInv, NEW c \in Clerks, Lifecycle(c)
  PROVE  EvalIInv'
<1>1. UNCHANGED <<roll, signing, attended, grades, marking, queue, published, records>>
  BY DEF Lifecycle, rollVars, gradeVars
<1>2. ASSUME NEW a \in Attendees, Free(c), WithdrawRead(c, a) \/ FinalizeRead(c, a)
      PROVE  EvalIInv'
  <2>1. \E t \in Entity :
           /\ clerk' = [clerk EXCEPT ![c] = {t}]
           /\ t.op # "attend" /\ t.id = a /\ Fine(a, t.row)
    <3>1. enr[a] \in Row /\ Fine(a, enr[a])
      BY FineNow
    <3>2. CASE WithdrawRead(c, a)
      <4> DEFINE t == [op |-> "withdraw", id |-> a, row |-> enr[a]]
      <4>1. clerk' = [clerk EXCEPT ![c] = {t}]
        BY <3>2 DEF WithdrawRead, Load
      <4>2. t \in Entity /\ t.op # "attend" /\ t.id = a /\ t.row = enr[a]
        BY <3>1 DEF Entity, Operation
      <4> HIDE DEF t
      <4>3. QED
        BY <3>1, <4>1, <4>2
    <3>3. CASE FinalizeRead(c, a)
      <4>1. PICK t \in Entity :
               /\ clerk' = [clerk EXCEPT ![c] = {t}]
               /\ t.op = "finalize" /\ t.id = a
               /\ \E s \in {"APPROVED", "FAILED"} :
                     /\ t.row = WithStatus(enr[a], s)
                     /\ s = "APPROVED" => Passes(enr[a])
        BY <3>3, FinalizeReadMemory DEF EvalIInv, EvalTypeOK
      <4>2. Fine(a, t.row)
        BY <3>1, <4>1, JudgedFine DEF Fine, BlockEnrollmentStatus
      <4>3. QED
        BY <4>1, <4>2
    <3>4. QED
      BY <1>2, <3>2, <3>3
  <2>2. PICK t \in Entity : /\ clerk' = [clerk EXCEPT ![c] = {t}]
                            /\ t.op # "attend" /\ t.id = a /\ Fine(a, t.row)
    BY <2>1
  <2>3. Supported(t.id, t.row) /\ Approved(t.id, t.row) /\ Counted(c, t)
    BY <2>2 DEF Fine, Counted
  <2>4. signing[c] = {}
    BY <1>2 DEF Free
  <2>5. /\ marking' \in [Clerks -> SUBSET MarkTask]
        /\ \A d \in Clerks : /\ marking[d] = {} => marking'[d] = {}
                             /\ \A u \in marking'[d] : u.grade.mark \in Marks
    BY <1>1 DEF EvalIInv, EvalTypeOK, GradesTrue
  <2>6. UNCHANGED <<blockVars, enr, rollVars, grades, queue, published, records>>
    BY <1>1, <1>2 DEF WithdrawRead, FinalizeRead, blockVars, rollVars
  <2>7. QED
    BY <2>2, <2>3, <2>4, <2>5, <2>6, LoadStep
<1>3. ASSUME WithdrawSave(c) \/ FinalizeSave(c)
      PROVE  EvalIInv'
  <2>1. PICK t \in clerk[c], r \in Row :
           /\ t.op \in {"withdraw", "finalize"}
           /\ r = t.row \/ r = WithStatus(t.row, "WITHDRAWN")
           /\ Put(t.id, r) /\ Done(c)
           /\ UNCHANGED <<block, confirmed, guests>>
    <3>1. \A t \in clerk[c] : t.row \in Row
                               /\ WithStatus(t.row, "WITHDRAWN") \in Row
      BY FineNow, WithStatusRow DEF BlockEnrollmentStatus
    <3>2. QED
      BY <1>3, <3>1 DEF WithdrawSave, FinalizeSave
  <2>2. t.id \in Attendees /\ r \in Row /\ Fine(t.id, r)
    <3>1. t.id \in Attendees /\ t.row \in Row /\ Fine(t.id, t.row)
      BY <2>1, FineNow
    <3>2. /\ WithStatus(t.row, "WITHDRAWN") \in Row
          /\ Fine(t.id, WithStatus(t.row, "WITHDRAWN"))
      BY <3>1, JudgedFine DEF Fine, BlockEnrollmentStatus
    <3>3. QED
      BY <2>1, <3>1, <3>2
  <2>3. Fine(t.id, r)'
    BY <1>1, <2>2, FineStays DEF Fine, EvalIInv
  <2>4. /\ attended' \subseteq Attendees \X Sessions /\ roll' \subseteq Presence
        /\ signing' \in [Clerks -> SUBSET [row : Presence, counts : BOOLEAN]]
        /\ queue' \in [Clerks -> SUBSET Attendees]
    BY <1>1, RollTypes
  <2>5. RollTrue'
    BY <1>1, RollKept
  <2>6. UNCHANGED <<blockVars, grades, marking, published, records>>
    BY <1>1, <2>1 DEF blockVars
  <2>7. QED
    BY <1>1, <2>1, <2>2, <2>3, <2>4, <2>5, <2>6, SaveStep
<1>4. QED
  BY <1>2, <1>3 DEF Lifecycle

LEMMA LoadedRow ==
  ASSUME EvalTypeOK, NEW c \in Clerks, NEW a \in Attendees, NEW s \in Sessions,
         NEW r \in Loaded(c, a, s)
  PROVE  r \in Presence
<1>1. [by |-> c, id |-> a, session |-> s, status |-> "ABSENT", came |-> "no"] \in Presence
  BY DEF Presence
<1>2. QED
  BY <1>1 DEF Loaded, Rows, EvalTypeOK

\* A request that is free starts to sign a row.
LEMMA SignStep ==
  ASSUME EvalIInv, NEW c \in Clerks, Free(c), NEW r \in Presence,
         NEW counts \in BOOLEAN, Sign(c, r, counts)
  PROVE  EvalIInv'
<1> DEFINE u == [row |-> r, counts |-> counts]
<1>1. /\ EvalTypeOK /\ OneThing
      /\ UNCHANGED <<block, enr, clerk, confirmed, guests, roll, attended>>
      /\ UNCHANGED <<grades, marking, queue, published>>
      /\ records < MaxRecords /\ records' = records + 1
      /\ signing' = [signing EXCEPT ![c] = {u}]
  BY DEF EvalIInv, Sign, enrVars, gradeVars
<1>2. u \in [row : Presence, counts : BOOLEAN]
  OBVIOUS
<1> HIDE DEF u
<1>3. signing'[c] = {u} /\ \A d \in Clerks \ {c} : signing'[d] = signing[d]
  BY <1>1 DEF EvalTypeOK
<1>4. EvalTypeOK'
  <2>1. records' \in 0..MaxRecords
    BY <1>1, CourseAssumption DEF EvalTypeOK
  <2>2. signing' \in [Clerks -> SUBSET [row : Presence, counts : BOOLEAN]]
    BY <1>1, <1>2 DEF EvalTypeOK
  <2>3. QED
    BY <1>1, <2>1, <2>2 DEF EvalTypeOK, EnrTypeOK
<1>5. clerk[c] = {} /\ marking[c] = {} /\ queue[c] = {}
  BY DEF Free
<1>6. RowsTrue' /\ MemoryTrue'
  BY <1>1, <1>3, <1>5, RowsMemoryKept
<1>7. OneThing'
  <2>1. OneThingOf(c)'
    BY <1>1, <1>3, <1>5 DEF OneThingOf
  <2>2. QED
    BY <1>1, <1>3, <2>1, OneThingKept
<1>8. RollTrue' /\ GradesTrue'
  BY <1>1 DEF EvalIInv, RollTrue, GradesTrue
<1>9. QED
  BY <1>4, <1>6, <1>7, <1>8 DEF EvalIInv

LEMMA AttendanceReads ==
  ASSUME EvalIInv, NEW c \in Clerks, NEW a \in Attendees, NEW s \in Sessions,
         AttendRead(c, a, s) \/ CheckInRead(c, a, s) \/ CheckOutRead(c, a, s)
            \/ ConnectRead(c, a, s)
  PROVE  EvalIInv'
<1>1. EvalTypeOK
  BY DEF EvalIInv
<1>2. ASSUME NEW r \in Presence, NEW p \in {"PRESENT", "PARTIAL", "ABSENT", "LATE", "EXCUSED"},
             NEW came \in {"no", "in", "out"}
      PROVE  /\ [r EXCEPT !.status = p, !.came = came] \in Presence
             /\ [r EXCEPT !.status = p] \in Presence
             /\ [r EXCEPT !.came = came] \in Presence
  BY DEF Presence
<1>3. ASSUME AttendRead(c, a, s)
      PROVE  EvalIInv'
  <2>1. Free(c)
    BY <1>3 DEF AttendRead
  <2>2. PICK r \in Loaded(c, a, s), p \in Presences, came \in {"no", "in", "out"} :
           Sign(c, [r EXCEPT !.status = p,
                             !.came = IF came = "no" THEN r.came ELSE came], TRUE)
    BY <1>3 DEF AttendRead
  <2>3. r \in Presence
    BY <1>1, LoadedRow
  <2>4. (IF came = "no" THEN r.came ELSE came) \in {"no", "in", "out"}
    BY <2>3 DEF Presence
  <2>5. p \in {"PRESENT", "PARTIAL", "ABSENT", "LATE", "EXCUSED"}
    BY CourseAssumption
  <2>6. [r EXCEPT !.status = p, !.came = IF came = "no" THEN r.came ELSE came] \in Presence
    BY <1>2, <2>3, <2>4, <2>5
  <2>7. QED
    BY <2>1, <2>2, <2>6, SignStep
<1>4. ASSUME CheckInRead(c, a, s)
      PROVE  EvalIInv'
  <2>1. PICK r \in Loaded(c, a, s) :
           Free(c) /\ Sign(c, [r EXCEPT !.status = "PRESENT", !.came = "in"], FALSE)
    BY <1>4 DEF CheckInRead
  <2>2. [r EXCEPT !.status = "PRESENT", !.came = "in"] \in Presence
    BY <1>1, <1>2, LoadedRow
  <2>3. QED
    BY <2>1, <2>2, SignStep
<1>5. ASSUME CheckOutRead(c, a, s)
      PROVE  EvalIInv'
  <2>1. PICK r \in Rows(roll, a, s) : Free(c) /\ Sign(c, [r EXCEPT !.came = "out"], TRUE)
    BY <1>5 DEF CheckOutRead
  <2>2. [r EXCEPT !.came = "out"] \in Presence
    BY <1>1, <1>2 DEF Rows, EvalTypeOK
  <2>3. QED
    BY <2>1, <2>2, SignStep
<1>6. ASSUME ConnectRead(c, a, s)
      PROVE  EvalIInv'
  <2>1. PICK r \in Loaded(c, a, s) :
           /\ Free(c)
           /\ Sign(c, IF r \in roll THEN r ELSE [r EXCEPT !.status = "PRESENT"], FALSE)
    BY <1>6 DEF ConnectRead
  <2>2. (IF r \in roll THEN r ELSE [r EXCEPT !.status = "PRESENT"]) \in Presence
    BY <1>1, <1>2, LoadedRow
  <2>3. QED
    BY <2>1, <2>2, SignStep
<1>7. QED
  BY <1>3, <1>4, <1>5, <1>6

\* Row r is written, and whoever came is known to have come.
LEMMA WriteRoll ==
  ASSUME EvalIInv, NEW r \in Presence, roll' = Write(roll, r), Attend(r)
  PROVE  /\ roll' \subseteq Presence /\ RollTrue'
         /\ attended \subseteq attended' /\ attended' \subseteq Attendees \X Sessions
         /\ r.status # "ABSENT" => <<r.id, r.session>> \in attended'
<1>1. r.id \in Attendees /\ r.session \in Sessions
  BY DEF Presence
<1>2. /\ attended \subseteq attended' /\ attended' \subseteq Attendees \X Sessions
      /\ r.status # "ABSENT" => <<r.id, r.session>> \in attended'
  BY <1>1, RollTypes DEF Attend
<1>3. roll' \subseteq roll \cup {r}
  BY DEF Write
<1>4. IsFiniteSet(roll')
  <2>1. IsFiniteSet(roll \cup {r})
    BY FS_AddElement, RollTypes DEF RollTrue
  <2>2. QED
    BY <1>3, <2>1, FS_Subset
<1>5. RollTrue'
  BY <1>2, <1>3, <1>4, RollTypes DEF RollTrue
<1>6. QED
  BY <1>2, <1>3, <1>5, RollTypes

LEMMA SignSaveStep ==
  ASSUME EvalIInv, NEW c \in Clerks, SignSave(c)
  PROVE  EvalIInv'
<1>1. PICK t \in signing[c] :
         ~t.counts /\ roll' = Write(roll, t.row) /\ Attend(t.row)
  BY DEF SignSave
<1>2. /\ EvalTypeOK /\ OneThing
      /\ signing' = [signing EXCEPT ![c] = {}]
      /\ UNCHANGED <<block, enr, clerk, confirmed, guests>>
      /\ UNCHANGED <<grades, marking, queue, published, records>>
  BY DEF EvalIInv, SignSave, enrVars, gradeVars
<1>3. t.row \in Presence
  BY RollTypes
<1>4. /\ roll' \subseteq Presence /\ RollTrue'
      /\ attended \subseteq attended' /\ attended' \subseteq Attendees \X Sessions
  BY <1>1, <1>3, WriteRoll
<1>5. signing'[c] = {} /\ \A d \in Clerks \ {c} : signing'[d] = signing[d]
  BY <1>2 DEF EvalTypeOK
<1>6. EvalTypeOK'
  <2>1. signing' \in [Clerks -> SUBSET [row : Presence, counts : BOOLEAN]]
    BY <1>2 DEF EvalTypeOK
  <2>2. QED
    BY <1>2, <1>4, <2>1 DEF EvalTypeOK, EnrTypeOK
<1>7. clerk[c] = {}
  BY <1>1, <1>2 DEF OneThing, OneThingOf
<1>8. RowsTrue' /\ MemoryTrue'
  BY <1>2, <1>4, <1>5, <1>7, RowsMemoryKept
<1>9. OneThing'
  BY <1>2, <1>5, OneThingKept
<1>10. GradesTrue'
  BY <1>2, GradesKept
<1>11. QED
  BY <1>4, <1>6, <1>8, <1>9, <1>10 DEF EvalIInv

LEMMA CountLoadStep ==
  ASSUME EvalIInv, NEW c \in Clerks, CountLoad(c)
  PROVE  EvalIInv'
<1>1. PICK u \in signing[c] :
         /\ u.counts
         /\ clerk' = [clerk EXCEPT ![c] =
                {[op  |-> "attend",
                  id  |-> u.row.id,
                  row |-> [enr[u.row.id] EXCEPT !.attendance =
                              Percentage(Write(roll, u.row), u.row.id)]]}]
  BY DEF CountLoad
<1>2. UNCHANGED <<blockVars, enr, rollVars, grades, queue, published, records>>
      /\ marking' = marking
  BY DEF CountLoad, gradeVars
<1>3. u.row \in Presence /\ u.row.id \in Attendees
  BY RollTypes DEF Presence
<1> DEFINE a == u.row.id
           seen == Write(roll, u.row)
           row == [enr[a] EXCEPT !.attendance = Percentage(seen, a)]
           t == [op |-> "attend", id |-> a, row |-> row]
<1>4. IsFiniteSet(seen) /\ seen \subseteq roll \cup {u.row}
  <2>1. IsFiniteSet(roll \cup {u.row})
    BY FS_AddElement, RollTypes DEF RollTrue
  <2>2. seen \subseteq roll \cup {u.row}
    BY DEF Write
  <2>3. QED
    BY <2>1, <2>2, FS_Subset
<1>5. clerk' = [clerk EXCEPT ![c] = {t}]
  BY <1>1
<1> HIDE DEF seen
<1>6. Percentage(seen, a) \in Nat
  BY <1>4, PercentageCounts
<1>7. enr[a] \in Row /\ Fine(a, enr[a])
  BY <1>3, FineNow
<1>8. /\ row \in Row /\ row.status = enr[a].status /\ row.final = enr[a].final
      /\ row.after = enr[a].after /\ row.attendance = Percentage(seen, a)
  BY <1>6, <1>7 DEF Row
<1> HIDE DEF row
<1>9. t \in Entity /\ t.id = a /\ t.row = row /\ t.op = "attend"
  BY <1>3, <1>8 DEF Entity, Operation
<1> HIDE DEF t
<1>10. Supported(a, row) /\ Approved(a, row)
  BY <1>7, <1>8 DEF Fine, Supported, Approved
<1>11. Counted(c, t)
  <2>1. ASSUME row.attendance > 0, Sessions # {}
        PROVE  Came(a) \/ (u.row.status # "ABSENT")
    <3>1. PICK r \in seen : r.id = a /\ r.status # "ABSENT"
      BY <1>4, <1>8, <2>1, PercentageCounts
    <3>2. CASE r \in roll
      <4>1. <<r.id, r.session>> \in attended /\ r.session \in Sessions
        BY <3>1, <3>2, RollTypes DEF RollTrue, Presence
      <4>2. QED
        BY <3>1, <4>1 DEF Came
    <3>3. CASE r = u.row
      BY <3>1, <3>3
    <3>4. QED
      BY <1>4, <3>2, <3>3
  <2>2. QED
    BY <1>9, <2>1 DEF Counted, Attended
<1>12. \A v \in signing[c] : v.counts
  BY <1>1 DEF EvalIInv, OneThing, OneThingOf
<1>13. /\ marking' \in [Clerks -> SUBSET MarkTask]
       /\ \A d \in Clerks : /\ marking[d] = {} => marking'[d] = {}
                            /\ \A v \in marking'[d] : v.grade.mark \in Marks
  BY <1>2 DEF EvalIInv, EvalTypeOK, GradesTrue
<1>14. QED
  BY <1>2, <1>5, <1>9, <1>10, <1>11, <1>12, <1>13, LoadStep

LEMMA CountSaveStep ==
  ASSUME EvalIInv, NEW c \in Clerks, CountSave(c)
  PROVE  EvalIInv'
<1>1. PICK u \in signing[c], t \in clerk[c] :
         /\ roll' = Write(roll, u.row) /\ Attend(u.row)
         /\ Put(t.id, t.row) /\ Done(c)
  BY DEF CountSave
<1>2. /\ signing' = [signing EXCEPT ![c] = {}]
      /\ UNCHANGED <<blockVars, grades, marking, published, records>>
      /\ queue' = queue
  BY DEF CountSave, gradeVars
<1>3. u.row \in Presence
  BY RollTypes
<1>4. /\ roll' \subseteq Presence /\ RollTrue'
      /\ attended \subseteq attended' /\ attended' \subseteq Attendees \X Sessions
      /\ u.row.status # "ABSENT" => <<u.row.id, u.row.session>> \in attended'
  BY <1>1, <1>3, WriteRoll
<1>5. t.id \in Attendees /\ t.row \in Row
  BY FineNow
<1>6. Supported(t.id, t.row) /\ Counted(c, t) /\ Approved(t.id, t.row)
  BY DEF EvalIInv, MemoryTrue
<1>7. published \subseteq published'
  BY <1>2
<1>8. Supported(t.id, t.row)' /\ Approved(t.id, t.row)'
  BY <1>4, <1>6, <1>7, FineStays DEF EvalIInv
<1>9. Attended(t.id, t.row)'
  <2>1. CASE Attended(t.id, t.row)
    BY <1>4, <1>7, <2>1, FineStays DEF EvalIInv
  <2>2. CASE \E v \in signing[c] : v.row.id = t.id /\ v.row.status # "ABSENT"
    <3>1. u.row.id = t.id /\ u.row.status # "ABSENT"
      BY <2>2 DEF EvalIInv, OneThing, OneThingOf
    <3>2. <<t.id, u.row.session>> \in attended' /\ u.row.session \in Sessions
      BY <1>3, <1>4, <3>1 DEF Presence
    <3>3. QED
      BY <3>2 DEF Attended, Came
  <2>3. QED
    BY <1>6, <2>1, <2>2 DEF Counted
<1>10. Fine(t.id, t.row)'
  BY <1>8, <1>9 DEF Fine
<1>11. /\ signing' \in [Clerks -> SUBSET [row : Presence, counts : BOOLEAN]]
       /\ \A d \in Clerks : /\ signing'[d] \subseteq signing[d]
                            /\ d # c => signing'[d] = signing[d]
  BY <1>2, RollTypes
<1>12. queue' \in [Clerks -> SUBSET Attendees] /\ \A d \in Clerks : queue'[d] = queue[d]
  BY <1>2, RollTypes
<1>13. QED
  BY <1>1, <1>2, <1>4, <1>5, <1>10, <1>11, <1>12, SaveStep

LEMMA RecordReadStep ==
  ASSUME EvalIInv, NEW c \in Clerks, NEW a \in Attendees, NEW e \in Exams,
         RecordRead(c, a, e)
  PROVE  EvalIInv'
<1>1. PICK m \in Marks, s \in {"DRAFT", "PUBLISHED"}, retake \in BOOLEAN :
         marking' = [marking EXCEPT ![c] =
            {[id |-> a, exam |-> e, held |-> FALSE,
              fresh |-> grades[a][e].status = "NONE",
              grade |-> [mark |-> m, status |-> s, retake |-> retake]]}]
  BY DEF RecordRead
<1> DEFINE t == [id |-> a, exam |-> e, held |-> FALSE,
                 fresh |-> grades[a][e].status = "NONE",
                 grade |-> [mark |-> m, status |-> s, retake |-> retake]]
<1>2. t \in MarkTask /\ t.grade.mark \in Marks
  <2>1. m \in Nat /\ (grades[a][e].status = "NONE") \in BOOLEAN
    BY CourseAssumption
  <2>2. [mark |-> m, status |-> s, retake |-> retake] \in Grade
    BY <2>1 DEF Grade
  <2>3. QED
    BY <2>1, <2>2 DEF MarkTask
<1>3. marking' = [marking EXCEPT ![c] = {t}]
  BY <1>1
<1> HIDE DEF t
<1>4. /\ EvalTypeOK /\ OneThing /\ GradesTrue
      /\ UNCHANGED <<block, enr, clerk, confirmed, guests, roll, signing, attended>>
      /\ UNCHANGED <<grades, queue, published>>
      /\ records < MaxRecords /\ records' = records + 1
      /\ signing[c] = {}
  BY DEF EvalIInv, RecordRead, enrVars, rollVars, Free
<1>5. marking'[c] = {t} /\ \A d \in Clerks \ {c} : marking'[d] = marking[d]
  BY <1>3, <1>4 DEF EvalTypeOK
<1>6. EvalTypeOK'
  <2>1. records' \in 0..MaxRecords
    BY <1>4, CourseAssumption DEF EvalTypeOK
  <2>2. marking' \in [Clerks -> SUBSET MarkTask]
    BY <1>2, <1>3, <1>4 DEF EvalTypeOK
  <2>3. QED
    BY <1>4, <2>1, <2>2 DEF EvalTypeOK, EnrTypeOK
<1>7. RowsTrue' /\ MemoryTrue'
  BY <1>4, RowsMemoryKept
<1>8. OneThing'
  <2>1. OneThingOf(c)'
    BY <1>4 DEF OneThingOf
  <2>2. QED
    BY <1>4, <1>5, <2>1, OneThingKept
<1>9. RollTrue'
  BY <1>4, RollKept
<1>10. GradesTrue'
  BY <1>2, <1>4, <1>5 DEF GradesTrue
<1>11. QED
  BY <1>6, <1>7, <1>8, <1>9, <1>10 DEF EvalIInv

\* A grade is written and, if it is published, published.
LEMMA SetGradeStep ==
  ASSUME EvalIInv, NEW c \in Clerks, NEW t \in marking[c], SetGrade(t),
         marking' = [marking EXCEPT ![c] = {}],
         UNCHANGED <<enrVars, rollVars, queue, records>>
  PROVE  EvalIInv'
<1>1. /\ EvalTypeOK /\ OneThing /\ GradesTrue
      /\ UNCHANGED <<block, enr, clerk, confirmed, guests, roll, signing, attended>>
      /\ UNCHANGED <<queue, records>>
  BY DEF EvalIInv, enrVars, rollVars
<1>2. /\ t.id \in Attendees /\ t.exam \in Exams /\ t.grade \in Grade
      /\ t.grade.mark \in Marks
  BY <1>1 DEF EvalTypeOK, MarkTask, GradesTrue
<1>3. /\ marking' \in [Clerks -> SUBSET MarkTask]
      /\ \A d \in Clerks : marking'[d] \subseteq marking[d]
  BY <1>1 DEF EvalTypeOK
<1> DEFINE p == [id |-> t.id, mark |-> t.grade.mark, retake |-> t.grade.retake]
<1>4. /\ grades' = [grades EXCEPT ![t.id][t.exam] = t.grade]
      /\ published' = IF t.grade.status = "PUBLISHED" THEN published \cup {p}
                                                      ELSE published
  BY DEF SetGrade
<1>5. p \in [id : Attendees, mark : Marks, retake : BOOLEAN]
  BY <1>2 DEF Grade
<1>6. /\ published \subseteq published'
      /\ published' \subseteq [id : Attendees, mark : Marks, retake : BOOLEAN]
      /\ t.grade.status = "PUBLISHED" => p \in published'
  BY <1>1, <1>4, <1>5 DEF EvalTypeOK
<1>7. /\ grades' \in [Attendees -> [Exams -> Grade]]
      /\ grades'[t.id][t.exam] = t.grade
      /\ \A a \in Attendees : \A e \in Exams :
            a # t.id \/ e # t.exam => grades'[a][e] = grades[a][e]
  BY <1>1, <1>2, <1>4 DEF EvalTypeOK
<1>8. EvalTypeOK'
  BY <1>1, <1>3, <1>6, <1>7 DEF EvalTypeOK, EnrTypeOK
<1>9. RowsTrue' /\ MemoryTrue'
  BY <1>1, <1>6, RowsMemoryKept
<1>10. OneThing'
  BY <1>1, <1>3, OneThingKept
<1>11. RollTrue'
  BY <1>1, RollKept
<1>12. GradesTrue'
  <2>1. ASSUME NEW a \in Attendees, NEW e \in Exams
        PROVE  /\ grades'[a][e].status # "NONE" => grades'[a][e].mark \in Marks
               /\ grades'[a][e].status = "PUBLISHED" =>
                    [id |-> a, mark |-> grades'[a][e].mark,
                     retake |-> grades'[a][e].retake] \in published'
    <3>1. CASE a = t.id /\ e = t.exam
      BY <1>2, <1>6, <1>7, <3>1
    <3>2. CASE a # t.id \/ e # t.exam
      <4>1. grades'[a][e] = grades[a][e]
        BY <1>7, <3>2
      <4>2. QED
        BY <1>1, <1>6, <4>1 DEF GradesTrue
    <3>3. QED
      BY <3>1, <3>2
  <2>2. \A d \in Clerks : \A u \in marking'[d] : u.grade.mark \in Marks
    BY <1>1, <1>3 DEF GradesTrue
  <2>3. QED
    BY <2>1, <2>2 DEF GradesTrue
<1>13. QED
  BY <1>8, <1>9, <1>10, <1>11, <1>12 DEF EvalIInv

\* Every recalculation loads what publishing allows.
LEMMA RecalculatedEntity ==
  ASSUME EvalIInv, NEW c \in Clerks, NEW a \in Attendees,
         NEW op \in {"grade", "publish"}
  PROVE  LET t == [op |-> op, id |-> a, row |-> Recalculated(a)]
         IN  /\ t \in Entity
             /\ Supported(t.id, t.row) /\ Approved(t.id, t.row) /\ Counted(c, t)
<1>1. /\ Recalculated(a) \in Row /\ Recalculated(a).status = enr[a].status
      /\ Recalculated(a).attendance = enr[a].attendance
      /\ Supported(a, Recalculated(a))
  BY RecalculatedRow
<1>2. Fine(a, enr[a])
  BY FineNow
<1> DEFINE t == [op |-> op, id |-> a, row |-> Recalculated(a)]
<1> HIDE DEF Recalculated
<1>3. t \in Entity /\ t.id = a /\ t.row = Recalculated(a)
  BY <1>1 DEF Entity, Operation
<1> HIDE DEF t
<1>4. Supported(t.id, t.row) /\ Approved(t.id, t.row) /\ Counted(c, t)
  BY <1>1, <1>2, <1>3 DEF Fine, Approved, Attended, Counted
<1>5. QED
  BY <1>3, <1>4 DEF t

LEMMA RetakeLoadStep ==
  ASSUME EvalIInv, NEW c \in Clerks, RetakeLoad(c)
  PROVE  EvalIInv'
<1>1. PICK u \in marking[c] :
         /\ marking' = [marking EXCEPT ![c] = {[u EXCEPT !.held = TRUE]}]
         /\ clerk' = [clerk EXCEPT ![c] =
               {[op |-> "grade", id |-> u.id, row |-> Recalculated(u.id)]}]
  BY DEF RetakeLoad
<1>2. UNCHANGED <<blockVars, enr, rollVars, grades, queue, published, records>>
  BY DEF RetakeLoad
<1>3. EvalTypeOK /\ GradesTrue /\ signing[c] = {}
  BY <1>1 DEF EvalIInv, OneThing, OneThingOf
<1>4. u \in MarkTask /\ u.id \in Attendees /\ u.grade.mark \in Marks
  BY <1>3 DEF EvalTypeOK, MarkTask, GradesTrue
<1> DEFINE v == [u EXCEPT !.held = TRUE]
           t == [op |-> "grade", id |-> u.id, row |-> Recalculated(u.id)]
<1>5. v \in MarkTask /\ v.grade = u.grade
  BY <1>4 DEF MarkTask
<1>6. marking' = [marking EXCEPT ![c] = {v}] /\ clerk' = [clerk EXCEPT ![c] = {t}]
  BY <1>1
<1> HIDE DEF v
<1>7. /\ marking' \in [Clerks -> SUBSET MarkTask]
      /\ \A d \in Clerks : /\ marking[d] = {} => marking'[d] = {}
                           /\ \A w \in marking'[d] : w.grade.mark \in Marks
  <2>1. marking'[c] = {v} /\ \A d \in Clerks \ {c} : marking'[d] = marking[d]
    BY <1>3, <1>6 DEF EvalTypeOK
  <2>2. marking' \in [Clerks -> SUBSET MarkTask]
    BY <1>3, <1>5, <1>6 DEF EvalTypeOK
  <2>3. QED
    BY <1>3, <1>4, <1>5, <2>1, <2>2 DEF GradesTrue
<1>8. /\ t \in Entity
      /\ Supported(t.id, t.row) /\ Approved(t.id, t.row) /\ Counted(c, t)
  BY <1>4, RecalculatedEntity
<1> HIDE DEF t
<1>9. QED
  BY <1>2, <1>3, <1>6, <1>7, <1>8, LoadStep

LEMMA PublishLoadStep ==
  ASSUME EvalIInv, NEW c \in Clerks, PublishLoad(c)
  PROVE  EvalIInv'
<1>1. PICK a \in queue[c] :
         clerk' = [clerk EXCEPT ![c] =
            {[op |-> "publish", id |-> a, row |-> Recalculated(a)]}]
  BY DEF PublishLoad
<1>2. UNCHANGED <<blockVars, enr, rollVars, grades, queue, published, records>>
      /\ marking' = marking
  BY DEF PublishLoad, gradeVars
<1>3. signing[c] = {} /\ a \in Attendees
  BY <1>1, RollTypes DEF EvalIInv, OneThing, OneThingOf
<1> DEFINE t == [op |-> "publish", id |-> a, row |-> Recalculated(a)]
<1>4. clerk' = [clerk EXCEPT ![c] = {t}]
  BY <1>1
<1>5. /\ t \in Entity
      /\ Supported(t.id, t.row) /\ Approved(t.id, t.row) /\ Counted(c, t)
  BY <1>3, RecalculatedEntity
<1> HIDE DEF t
<1>6. /\ marking' \in [Clerks -> SUBSET MarkTask]
      /\ \A d \in Clerks : /\ marking[d] = {} => marking'[d] = {}
                           /\ \A u \in marking'[d] : u.grade.mark \in Marks
  BY <1>2 DEF EvalIInv, EvalTypeOK, GradesTrue
<1>7. QED
  BY <1>2, <1>3, <1>4, <1>5, <1>6, LoadStep

LEMMA RecalculationSaves ==
  ASSUME EvalIInv, NEW c \in Clerks, RetakeSave(c) \/ PublishSave(c)
  PROVE  EvalIInv'
<1>1. PICK t \in clerk[c] :
         /\ t.op \in {"grade", "publish"} /\ Put(t.id, t.row) /\ Done(c)
         /\ queue' = queue \/ queue' = [queue EXCEPT ![c] = @ \ {t.id}]
  BY DEF RetakeSave, PublishSave, gradeVars
<1>2. UNCHANGED <<roll, signing, attended>>
      /\ UNCHANGED <<blockVars, grades, marking, published, records>>
  BY DEF RetakeSave, PublishSave, rollVars, gradeVars
<1>3. t.id \in Attendees /\ t.row \in Row /\ Fine(t.id, t.row)
  BY <1>1, FineNow
<1>4. Fine(t.id, t.row)'
  BY <1>2, <1>3, FineStays DEF Fine, EvalIInv
<1>5. /\ attended' \subseteq Attendees \X Sessions /\ roll' \subseteq Presence
      /\ signing' \in [Clerks -> SUBSET [row : Presence, counts : BOOLEAN]]
  BY <1>2, RollTypes
<1>6. RollTrue'
  BY <1>2, RollKept
<1>7. /\ queue' \in [Clerks -> SUBSET Attendees]
      /\ \A d \in Clerks : queue'[d] \subseteq queue[d]
  BY <1>1, RollTypes
<1>8. QED
  BY <1>1, <1>2, <1>3, <1>4, <1>5, <1>6, <1>7, SaveStep

LEMMA PublishUpdateStep ==
  ASSUME EvalIInv, NEW c \in Clerks, NEW E \in SUBSET Exams, PublishUpdate(c, E)
  PROVE  EvalIInv'
<1> DEFINE drafts == {d \in Attendees \X E : grades[d[1]][d[2]].status = "DRAFT"}
           fresh == {[id     |-> d[1],
                      mark   |-> grades[d[1]][d[2]].mark,
                      retake |-> grades[d[1]][d[2]].retake] : d \in drafts}
<1>1. /\ EvalTypeOK /\ OneThing /\ GradesTrue
      /\ UNCHANGED <<block, enr, clerk, confirmed, guests, roll, signing, attended>>
      /\ UNCHANGED <<marking, records>>
      /\ signing[c] = {}
  BY DEF EvalIInv, PublishUpdate, enrVars, rollVars, Free
<1>2. grades' = [a \in Attendees |-> [e \in Exams |->
                   IF <<a, e>> \in drafts
                   THEN [grades[a][e] EXCEPT !.status = "PUBLISHED"]
                   ELSE grades[a][e]]]
  BY DEF PublishUpdate
<1>3. published' = published \cup fresh
  BY DEF PublishUpdate
<1>4. queue' = [queue EXCEPT ![c] = {a \in Attendees : enr[a].status # "ABSENT"}]
  BY DEF PublishUpdate
<1>5. ASSUME NEW a \in Attendees, NEW e \in Exams
      PROVE  <<a, e>> \in drafts <=> e \in E /\ grades[a][e].status = "DRAFT"
  OBVIOUS
<1>6. ASSUME NEW a \in Attendees, NEW e \in Exams, <<a, e>> \in drafts
      PROVE  [id |-> a, mark |-> grades[a][e].mark, retake |-> grades[a][e].retake]
                \in fresh
  <2> DEFINE d == <<a, e>>
  <2>1. d \in drafts /\ d[1] = a /\ d[2] = e
    BY <1>6
  <2> HIDE DEF d, drafts
  <2>2. QED
    BY <2>1
<1>7. fresh \subseteq [id : Attendees, mark : Marks, retake : BOOLEAN]
  <2>1. ASSUME NEW d \in drafts
        PROVE  [id |-> d[1], mark |-> grades[d[1]][d[2]].mark,
                retake |-> grades[d[1]][d[2]].retake]
                   \in [id : Attendees, mark : Marks, retake : BOOLEAN]
    <3>1. d[1] \in Attendees /\ d[2] \in Exams /\ grades[d[1]][d[2]].status = "DRAFT"
      OBVIOUS
    <3>2. grades[d[1]][d[2]] \in Grade /\ grades[d[1]][d[2]].mark \in Marks
      BY <1>1, <3>1 DEF EvalTypeOK, GradesTrue
    <3>3. QED
      BY <3>1, <3>2 DEF Grade
  <2> HIDE DEF drafts
  <2>2. QED
    BY <2>1
<1> HIDE DEF drafts, fresh
<1>8. ASSUME NEW a \in Attendees, NEW e \in Exams
      PROVE  /\ grades'[a][e] \in Grade
             /\ grades'[a][e].status # "NONE" => grades'[a][e].mark \in Marks
             /\ grades'[a][e].status = "PUBLISHED" =>
                  [id |-> a, mark |-> grades'[a][e].mark,
                   retake |-> grades'[a][e].retake] \in published'
  <2>1. grades[a][e] \in Grade
    BY <1>1 DEF EvalTypeOK
  <2>2. CASE <<a, e>> \in drafts
    <3>1. grades'[a][e] = [grades[a][e] EXCEPT !.status = "PUBLISHED"]
      BY <1>2, <2>2
    <3>2. /\ grades'[a][e] \in Grade
          /\ grades'[a][e].mark = grades[a][e].mark
          /\ grades'[a][e].retake = grades[a][e].retake
      BY <2>1, <3>1 DEF Grade
    <3>3. grades[a][e].mark \in Marks
      BY <1>1, <1>5, <2>2 DEF GradesTrue
    <3>4. [id |-> a, mark |-> grades[a][e].mark, retake |-> grades[a][e].retake]
             \in published'
      BY <1>3, <1>6, <2>2
    <3>5. QED
      BY <3>2, <3>3, <3>4
  <2>3. CASE <<a, e>> \notin drafts
    <3>1. grades'[a][e] = grades[a][e]
      BY <1>2, <2>3
    <3>2. QED
      BY <1>1, <1>3, <2>1, <3>1 DEF GradesTrue
  <2>4. QED
    BY <2>2, <2>3
<1>9. grades' \in [Attendees -> [Exams -> Grade]]
  <2>1. ASSUME NEW a \in Attendees
        PROVE  grades'[a] \in [Exams -> Grade]
    BY <1>2, <1>8
  <2>2. QED
    BY <1>2, <2>1
<1>10. EvalTypeOK'
  <2>1. queue' \in [Clerks -> SUBSET Attendees]
    BY <1>1, <1>4 DEF EvalTypeOK
  <2>2. published' \subseteq [id : Attendees, mark : Marks, retake : BOOLEAN]
    BY <1>1, <1>3, <1>7 DEF EvalTypeOK
  <2>3. QED
    BY <1>1, <1>9, <2>1, <2>2 DEF EvalTypeOK, EnrTypeOK
<1>11. RowsTrue' /\ MemoryTrue'
  <2>1. published \subseteq published'
    BY <1>3
  <2>2. QED
    BY <1>1, <2>1, RowsMemoryKept
<1>12. OneThing'
  <2>1. OneThingOf(c)'
    BY <1>1 DEF OneThingOf
  <2>2. \A d \in Clerks \ {c} : queue'[d] = queue[d]
    BY <1>1, <1>4 DEF EvalTypeOK
  <2>3. QED
    BY <1>1, <2>1, <2>2, OneThingKept
<1>13. RollTrue'
  BY <1>1, RollKept
<1>14. GradesTrue'
  BY <1>1, <1>8 DEF GradesTrue
<1>15. QED
  BY <1>10, <1>11, <1>12, <1>13, <1>14 DEF EvalIInv

LEMMA RequestFailStep ==
  ASSUME EvalIInv, NEW c \in Clerks, RequestFail(c)
  PROVE  EvalIInv'
<1>1. /\ EvalTypeOK /\ OneThing
      /\ Done(c)
      /\ signing' = [signing EXCEPT ![c] = {}]
      /\ marking' = [marking EXCEPT ![c] = {}]
      /\ queue' = [queue EXCEPT ![c] = {}]
      /\ UNCHANGED <<block, confirmed, guests, enr, roll, grades, records>>
      /\ UNCHANGED <<published, attended>>
  BY DEF EvalIInv, RequestFail, blockVars
<1>2. /\ clerk' \in [Clerks -> SUBSET Entity] /\ clerk'[c] = {}
      /\ \A d \in Clerks : clerk'[d] \subseteq clerk[d]
  BY <1>1, DoneMemory DEF EvalTypeOK
<1>3. /\ signing' \in [Clerks -> SUBSET [row : Presence, counts : BOOLEAN]]
      /\ marking' \in [Clerks -> SUBSET MarkTask]
      /\ queue' \in [Clerks -> SUBSET Attendees]
  BY <1>1 DEF EvalTypeOK
<1>4. \A d \in Clerks : /\ signing'[d] \subseteq signing[d]
                        /\ marking'[d] \subseteq marking[d]
                        /\ queue'[d] \subseteq queue[d]
                        /\ d # c => signing'[d] = signing[d]
  BY <1>1 DEF EvalTypeOK
<1>5. EvalTypeOK'
  BY <1>1, <1>2, <1>3 DEF EvalTypeOK, EnrTypeOK
<1>6. RowsTrue' /\ MemoryTrue'
  BY <1>1, <1>2, <1>4, RowsMemoryKept
<1>7. OneThing'
  BY <1>1, <1>2, <1>4, OneThingKept
<1>8. RollTrue' /\ GradesTrue'
  BY <1>1, <1>4, RollKept, GradesKept
<1>9. QED
  BY <1>5, <1>6, <1>7, <1>8 DEF EvalIInv

LEMMA EvalStep ==
  ASSUME EvalIInv, [EvalNext]_evalVars
  PROVE  EvalIInv'
<1>1. ASSUME NEW c \in Clerks, RecordSave(c) \/ RetakeCommit(c)
      PROVE  EvalIInv'
  <2>1. PICK t \in marking[c] :
           /\ SetGrade(t) /\ marking' = [marking EXCEPT ![c] = {}]
           /\ UNCHANGED <<enrVars, rollVars, queue, records>>
    BY <1>1 DEF RecordSave, RetakeCommit
  <2>2. QED
    BY <2>1, SetGradeStep
<1>2. ASSUME NEW c \in Clerks,
             PublishUpdate(c, Exams) \/ \E e \in Exams : PublishUpdate(c, {e})
      PROVE  EvalIInv'
  BY <1>2, PublishUpdateStep
<1>3. CASE BlockEdit \/ UNCHANGED evalVars
  <2>1. /\ EvalTypeOK /\ OneThing /\ block' \in Blocks
        /\ UNCHANGED <<confirmed, guests, enr, clerk, roll, grades>>
        /\ UNCHANGED <<signing, marking, queue, records, published, attended>>
    BY <1>3 DEF EvalIInv, EvalTypeOK, EnrTypeOK, BlockEdit, BlockSave, evalVars,
                enrVars, rollVars, gradeVars
  <2>2. EvalTypeOK'
    BY <2>1 DEF EvalTypeOK, EnrTypeOK
  <2>3. RowsTrue' /\ MemoryTrue'
    BY <2>1, RowsMemoryKept
  <2>4. OneThing'
    BY <2>1, OneThingKept
  <2>5. RollTrue' /\ GradesTrue'
    BY <2>1, RollKept, GradesKept
  <2>6. QED
    BY <2>2, <2>3, <2>4, <2>5 DEF EvalIInv
<1>4. QED
  BY <1>1, <1>2, <1>3, LifecycleStep, AttendanceReads, SignSaveStep, CountLoadStep,
     CountSaveStep, RecordReadStep, RetakeLoadStep, RecalculationSaves,
     PublishLoadStep, RequestFailStep DEF EvalNext

LEMMA EvalStart == EvalInit => EvalIInv
<1> SUFFICES ASSUME EvalInit
             PROVE  EvalIInv
  OBVIOUS
<1> DEFINE row == [NoRow EXCEPT !.status = "IN_PROGRESS", !.free = TRUE]
<1>1. /\ row \in Row /\ row.status = "IN_PROGRESS" /\ row.attendance = 0
      /\ row.final = NoGrade /\ row.after = NoGrade
  BY DEF NoRow, Row, BlockEnrollmentStatus, Mark, NoGrade
<1>2. enr = [a \in Attendees |-> row]
  BY DEF EvalInit
<1> HIDE DEF row
<1>3. EvalTypeOK
  <2>1. EnrTypeOK
    BY <1>1, <1>2 DEF EvalInit, EnrTypeOK
  <2>2. NoRecord \in Grade
    BY DEF NoRecord, Grade
  <2>3. 0 \in 0..MaxRecords
    BY CourseAssumption
  <2>4. QED
    BY <2>1, <2>2, <2>3 DEF EvalInit, EvalTypeOK
<1>4. RowsTrue
  <2>1. ASSUME NEW a
        PROVE  Supported(a, row) /\ Attended(a, row) /\ Approved(a, row)
    BY <1>1 DEF Supported, Attended, Approved
  <2>2. QED
    BY <1>2, <2>1 DEF RowsTrue
<1>5. MemoryTrue /\ OneThing
  BY DEF EvalInit, MemoryTrue, OneThing, OneThingOf
<1>6. RollTrue
  BY FS_EmptySet DEF EvalInit, RollTrue
<1>7. GradesTrue
  BY DEF EvalInit, GradesTrue, NoRecord
<1>8. QED
  BY <1>3, <1>4, <1>5, <1>6, <1>7 DEF EvalIInv

THEOREM EvalInvariant == EvalSpec => []EvalIInv
BY EvalStart, EvalStep, PTL DEF EvalSpec

\* Rows, grades and requests keep their types.
THEOREM EvalTypeCorrect == EvalSpec => []EvalTypeOK
<1>1. EvalIInv => EvalTypeOK
  BY DEF EvalIInv
<1>2. QED
  BY <1>1, EvalInvariant, PTL

\* finalGrade is an average of marks that were published.
THEOREM FinalIsFromPublished == EvalSpec => []FinalFromPublished
<1>1. EvalIInv => FinalFromPublished
  BY DEF EvalIInv, RowsTrue, Supported, FinalFromPublished
<1>2. QED
  BY <1>1, EvalInvariant, PTL

\* A recovery lifts nobody above the passing grade.
THEOREM RetakeStaysCapped == EvalSpec => []RetakeIsCapped
<1>1. EvalIInv => RetakeIsCapped
  BY DEF EvalIInv, RowsTrue, Supported, RetakeIsCapped
<1>2. QED
  BY <1>1, EvalInvariant, PTL

\* Whoever is approved came and passed.
THEOREM ApprovalIsEarned == EvalSpec => []ApprovedWasEarned
<1>1. EvalIInv => ApprovedWasEarned
  BY DEF EvalIInv, RowsTrue, Approved, Earned, Came, Passed, ApprovedWasEarned
<1>2. QED
  BY <1>1, EvalInvariant, PTL

-----------------------------------------------------------------------------
(***************************************************************************)
(* What is over stays over, graded or not                                  *)
(***************************************************************************)

\* No request of these services enrolls, and who judges or withdraws loaded
\* somebody who was in it.
Holds(t) ==
    /\ t.op \in {"withdraw", "finalize", "attend", "grade", "publish"}
    /\ t.op = "withdraw" => t.row.status \in {"ENROLLED", "IN_PROGRESS"}

HoldsIInv == EvalIInv /\ \A c \in Clerks : \A t \in clerk[c] : Holds(t)

\* A row as it is stored, or with the verdict on somebody in progress.
Held(t) ==
    \/ t.row.status = enr[t.id].status
    \/ enr[t.id].status = "IN_PROGRESS"

\* Request c loads an enrollment, whatever columns it computes,
Loads(c) ==
    /\ enr' = enr
    /\ \E t : /\ clerk' = [clerk EXCEPT ![c] = {t}]
              /\ Held(t)
              /\ Holds(t)

\* ... saves it, with a status of its own if it withdraws it,
Saves(c) ==
    \E t \in clerk[c] : \E r :
        /\ Put(t.id, r)
        /\ Done(c)
        /\ r.status = t.row.status \/ t.op = "withdraw"

\* ... or gives up.
GivesUp(c) == Done(c) /\ enr' = enr

LEMMA RequestsLoadOrSave ==
  ASSUME HoldsIInv, [EvalNext]_evalVars
  PROVE  \/ UNCHANGED <<enr, clerk>>
         \/ \E c \in Clerks : Loads(c) \/ Saves(c) \/ GivesUp(c)
<1>1. EvalIInv
  BY DEF HoldsIInv
<1>2. ASSUME NEW c \in Clerks, Lifecycle(c)
      PROVE  Loads(c) \/ Saves(c)
  <2>1. ASSUME NEW a \in Attendees, WithdrawRead(c, a)
        PROVE  Loads(c)
    <3> DEFINE t == [op |-> "withdraw", id |-> a, row |-> enr[a]]
    <3>1. clerk' = [clerk EXCEPT ![c] = {t}] /\ enr' = enr
      BY <2>1 DEF WithdrawRead, Load
    <3>2. Held(t) /\ Holds(t)
      BY <2>1 DEF WithdrawRead, Held, Holds
    <3> HIDE DEF t
    <3>3. QED
      BY <3>1, <3>2 DEF Loads
  <2>4. ASSUME NEW a \in Attendees, FinalizeRead(c, a)
        PROVE  Loads(c)
    <3>1. PICK t \in Entity : /\ clerk' = [clerk EXCEPT ![c] = {t}]
                              /\ t.op = "finalize" /\ t.id = a
      BY <1>1, <2>4, FinalizeReadMemory DEF EvalIInv, EvalTypeOK
    <3>2. enr' = enr /\ Held(t) /\ Holds(t)
      BY <2>4, <3>1 DEF FinalizeRead, Held, Holds
    <3>3. QED
      BY <3>1, <3>2 DEF Loads
  <2>2. ASSUME WithdrawSave(c) \/ FinalizeSave(c)
        PROVE  Saves(c)
    BY <2>2 DEF WithdrawSave, FinalizeSave, Saves
  <2>3. QED
    BY <1>2, <2>1, <2>2, <2>4 DEF Lifecycle
<1>3. ASSUME NEW c \in Clerks, CountLoad(c)
      PROVE  Loads(c)
  <2>1. PICK u \in signing[c] :
           clerk' = [clerk EXCEPT ![c] =
                {[op  |-> "attend",
                  id  |-> u.row.id,
                  row |-> [enr[u.row.id] EXCEPT !.attendance =
                              Percentage(Write(roll, u.row), u.row.id)]]}]
    BY <1>3 DEF CountLoad
  <2> DEFINE a == u.row.id
             row == [enr[a] EXCEPT !.attendance = Percentage(Write(roll, u.row), a)]
             t == [op |-> "attend", id |-> a, row |-> row]
  <2>2. a \in Attendees
    BY <1>1, RollTypes DEF Presence
  <2>3. enr[a] \in Row
    BY <1>1, <2>2 DEF EvalIInv, EvalTypeOK, EnrTypeOK
  <2>4. row.status = enr[a].status
    BY <2>3 DEF Row
  <2>5. Held(t) /\ Holds(t)
    BY <2>4 DEF Held, Holds
  <2>6. clerk' = [clerk EXCEPT ![c] = {t}]
    BY <2>1
  <2> HIDE DEF t
  <2>7. QED
    BY <1>3, <2>5, <2>6 DEF Loads, CountLoad
<1>4. ASSUME NEW c \in Clerks, RetakeLoad(c) \/ PublishLoad(c)
      PROVE  Loads(c)
  <2>1. PICK a \in Attendees, op \in {"grade", "publish"} :
           clerk' = [clerk EXCEPT ![c] =
                        {[op |-> op, id |-> a, row |-> Recalculated(a)]}]
    <3>1. CASE RetakeLoad(c)
      <4>1. \A t \in marking[c] : t.id \in Attendees
        BY <1>1 DEF EvalIInv, EvalTypeOK, MarkTask
      <4>2. QED
        BY <3>1, <4>1 DEF RetakeLoad
    <3>2. CASE PublishLoad(c)
      <4>1. queue[c] \subseteq Attendees
        BY <1>1 DEF EvalIInv, EvalTypeOK
      <4>2. QED
        BY <3>2, <4>1 DEF PublishLoad
    <3>3. QED
      BY <1>4, <3>1, <3>2
  <2> DEFINE t == [op |-> op, id |-> a, row |-> Recalculated(a)]
  <2>2. t.row.status = enr[t.id].status
    BY <1>1, RecalculatedRow
  <2>3. Holds(t)
    BY DEF Holds
  <2>4. enr' = enr
    BY <1>4 DEF RetakeLoad, PublishLoad
  <2>5. clerk' = [clerk EXCEPT ![c] = {t}]
    BY <2>1
  <2> HIDE DEF t
  <2>6. QED
    BY <2>2, <2>3, <2>4, <2>5 DEF Loads, Held
<1>5. ASSUME NEW c \in Clerks, CountSave(c) \/ RetakeSave(c) \/ PublishSave(c)
      PROVE  Saves(c)
  BY <1>5 DEF CountSave, RetakeSave, PublishSave, Saves
<1>6. ASSUME NEW c \in Clerks, RequestFail(c)
      PROVE  GivesUp(c)
  BY <1>6 DEF RequestFail, GivesUp
<1>7. ASSUME NEW c \in Clerks,
             \/ \E a \in Attendees, s \in Sessions :
                   \/ AttendRead(c, a, s) \/ CheckInRead(c, a, s)
                   \/ CheckOutRead(c, a, s) \/ ConnectRead(c, a, s)
             \/ SignSave(c) \/ RecordSave(c) \/ RetakeCommit(c)
             \/ \E a \in Attendees, e \in Exams : RecordRead(c, a, e)
             \/ PublishUpdate(c, Exams) \/ \E e \in Exams : PublishUpdate(c, {e})
      PROVE  UNCHANGED <<enr, clerk>>
  <2>1. UNCHANGED enrVars
    <3>1. ASSUME NEW r, NEW counts, Sign(c, r, counts)
          PROVE  UNCHANGED enrVars
      BY <3>1 DEF Sign
    <3>2. ASSUME NEW a \in Attendees, NEW s \in Sessions, AttendRead(c, a, s)
          PROVE  UNCHANGED enrVars
      BY <3>1, <3>2 DEF AttendRead
    <3>3. ASSUME NEW a \in Attendees, NEW s \in Sessions,
                 \/ CheckInRead(c, a, s) \/ CheckOutRead(c, a, s)
                 \/ ConnectRead(c, a, s)
          PROVE  UNCHANGED enrVars
      BY <3>1, <3>3 DEF CheckInRead, CheckOutRead, ConnectRead
    <3>4. CASE \/ SignSave(c) \/ RecordSave(c) \/ RetakeCommit(c)
               \/ \E a \in Attendees, e \in Exams : RecordRead(c, a, e)
      BY <3>4 DEF SignSave, RecordSave, RetakeCommit, RecordRead
    <3>5. ASSUME NEW E, PublishUpdate(c, E)
          PROVE  UNCHANGED enrVars
      BY <3>5 DEF PublishUpdate
    <3>6. QED
      BY <1>7, <3>2, <3>3, <3>4, <3>5
  <2>2. QED
    BY <2>1 DEF enrVars
<1>8. CASE BlockEdit \/ UNCHANGED evalVars
  BY <1>8 DEF BlockEdit, BlockSave, evalVars, enrVars
<1>9. QED
  BY <1>2, <1>3, <1>4, <1>5, <1>6, <1>7, <1>8 DEF EvalNext

\* Who holds what after such a step.
LEMMA HeldAfter ==
  ASSUME HoldsIInv, NEW c \in Clerks, Loads(c) \/ Saves(c) \/ GivesUp(c),
         NEW d \in Clerks, NEW t \in clerk'[d]
  PROVE  t \in clerk[d] \/ (enr' = enr /\ Held(t) /\ Holds(t))
<1>1. clerk \in [Clerks -> SUBSET Entity]
  BY DEF HoldsIInv, EvalIInv, EvalTypeOK, EnrTypeOK
<1>2. CASE Loads(c)
  BY <1>1, <1>2 DEF Loads
<1>3. CASE Done(c)
  BY <1>1, <1>3 DEF Done
<1>4. QED
  BY <1>2, <1>3 DEF Saves, GivesUp

LEMMA HoldsStep == HoldsIInv /\ [EvalNext]_evalVars => HoldsIInv'
<1> SUFFICES ASSUME HoldsIInv, [EvalNext]_evalVars
             PROVE  HoldsIInv'
  OBVIOUS
<1>1. EvalIInv'
  BY EvalStep DEF HoldsIInv
<1>2. ASSUME NEW d \in Clerks, NEW t \in clerk'[d]
      PROVE  t \in clerk[d] \/ Holds(t)
  BY <1>2, RequestsLoadOrSave, HeldAfter
<1>3. \A d \in Clerks : \A t \in clerk'[d] : Holds(t)
  BY <1>2 DEF HoldsIInv
<1>4. QED
  BY <1>1, <1>3 DEF HoldsIInv, Holds

LEMMA GradedStaysOver ==
  ASSUME HoldsIInv, [EvalNext]_evalVars, NEW a \in Attendees, Over(a)
  PROVE  StaysOver(a)
<1>1. \A d \in Clerks : \A t \in clerk[d] :
        t.id = a => t.row.status = enr[a].status /\ t.op # "withdraw"
  BY DEF HoldsIInv, Holds, Over
<1>2. CASE UNCHANGED <<enr, clerk>>
  BY <1>2 DEF StaysOver, Over
<1>3. ASSUME NEW c \in Clerks, Loads(c) \/ Saves(c) \/ GivesUp(c)
      PROVE  StaysOver(a)
  <2>1. enr'[a].status = enr[a].status
    <3>1. CASE Saves(c)
      <4>1. PICK t \in clerk[c] : \E r :
               /\ Put(t.id, r)
               /\ r.status = t.row.status \/ t.op = "withdraw"
        BY <3>1 DEF Saves
      <4>2. PICK r : /\ Put(t.id, r)
                     /\ r.status = t.row.status \/ t.op = "withdraw"
        BY <4>1
      <4>3. enr'[a] = IF a = t.id THEN r ELSE enr[a]
        BY <4>2 DEF Put, HoldsIInv, EvalIInv, EvalTypeOK, EnrTypeOK
      <4>4. QED
        BY <1>1, <4>2, <4>3
    <3>2. QED
      BY <1>3, <3>1 DEF Loads, GivesUp
  <2>2. ASSUME NEW d \in Clerks, NEW t \in clerk'[d], t.id = a
        PROVE  t.row.status = enr'[a].status
    BY <1>1, <1>3, <2>1, <2>2, HeldAfter DEF Held, Over
  <2>3. enr'[a].status \in {"APPROVED", "FAILED", "WITHDRAWN", "CANCELLED"}
    BY <2>1 DEF Over
  <2>4. QED
    BY <2>1, <2>2, <2>3 DEF StaysOver, Over
<1>4. QED
  BY <1>2, <1>3, RequestsLoadOrSave

\* The promise of Enrollments holds of grading and attendance too: no
\* recalculation, however late it saves, brings back an enrollment that was
\* judged or withdrawn, and no later one changes the verdict.
THEOREM GradingKeepsOver == EvalSpec => OverIsOver
<1>1. EvalInit => HoldsIInv
  BY EvalStart DEF EvalInit, HoldsIInv
<1>2. EvalSpec => []HoldsIInv
  BY <1>1, HoldsStep, PTL DEF EvalSpec
<1>3. HoldsIInv /\ [EvalNext]_evalVars =>
        [\A a \in Attendees :
            Over(a) => Over(a)' /\ enr'[a].status = enr[a].status]_enrVars
  BY GradedStaysOver DEF StaysOver
<1>4. QED
  BY <1>2, <1>3, PTL DEF EvalSpec, OverIsOver

=============================================================================

----------------------------- MODULE SeatsProofs -----------------------------
(***************************************************************************)
(* The registrations table and those who work on it: the requests and the  *)
(* cron jobs alone, then the desks beside them and the refinement of       *)
(* SeatLedger, then the waiting list beside the jobs.                      *)
(***************************************************************************)
EXTENDS CheckIns, Waitlist, FiniteSetTheorems, TLAPS

-----------------------------------------------------------------------------
(***************************************************************************)
(* Registrations alone: create() and the two cron jobs, for every set of   *)
(* people, every stock and every number of rounds that die half way.       *)
(*                                                                         *)
(* CountedWithinStock and the other invariants are not inductive: what a   *)
(* job will write depends on what it read, so the invariant has to say     *)
(* what a batch knows of the rows it holds (BatchKnows).                   *)
(***************************************************************************)

\* A batch holds rows that were PENDING and past their deadline when they were
\* read, and since then at most expired.  A reservation that waits for money
\* is not free.
BatchKnows ==
    \A k \in CronJobs : \A t \in sweep[k] :
        /\ t.row.status = "PENDING" /\ ~t.row.free
        /\ t.id \in overdue
        /\ reg[t.id].status \in {"PENDING", "EXPIRED"}
        /\ t.saved => reg[t.id].status = "EXPIRED"

\* A step of the induction, and true of create() and the jobs only: a desk and
\* a payment request write an expired row back (AnnouncedIsExcused says when).
AnnouncedAreExpired == \A a \in offered \cup told : reg[a].status = "EXPIRED"

PendingCosts == \A a \in Attendees : reg[a].status = "PENDING" => ~reg[a].free

RegIInv ==
    /\ RegTypeOK
    /\ BatchKnows
    /\ PendingCosts
    /\ NoEarlyExpiry
    /\ AnnouncedAreExpired
    /\ CountedWithinStock

-----------------------------------------------------------------------------

\* Counting rows.

LEMMA ReservedFinite == IsFiniteSet(Reserved)
<1>1. Reserved \subseteq Attendees
  BY DEF Reserved
<1>2. QED
  BY <1>1, AttendeesAssumption, FS_Subset

\* A step after which no new row counts keeps the count within the stock.
LEMMA FewerReserved ==
  ASSUME CountedWithinStock, Reserved' \subseteq Reserved
  PROVE  CountedWithinStock'
<1>1. Cardinality(Reserved') <= Cardinality(Reserved) /\ IsFiniteSet(Reserved')
  BY ReservedFinite, FS_Subset
<1>2. Cardinality(Reserved') \in Nat /\ Cardinality(Reserved) \in Nat
  BY <1>1, ReservedFinite, FS_CardinalityType
<1>3. QED
  BY <1>1, <1>2, StockAssumption DEF CountedWithinStock

\* A step that finds room in the stock may add one row to the count.
LEMMA OneMoreReserved ==
  ASSUME NEW a, InStock, Reserved' \subseteq Reserved \cup {a}
  PROVE  CountedWithinStock'
<1>1. IsFiniteSet(Reserved \cup {a})
  BY ReservedFinite, FS_AddElement
<1>2. \/ Cardinality(Reserved \cup {a}) = Cardinality(Reserved)
      \/ Cardinality(Reserved \cup {a}) = Cardinality(Reserved) + 1
  BY ReservedFinite, FS_AddElement
<1>3. IsFiniteSet(Reserved') /\ Cardinality(Reserved') <= Cardinality(Reserved \cup {a})
  BY <1>1, FS_Subset
<1>4. Cardinality(Reserved) \in Nat /\ Cardinality(Reserved') \in Nat
  BY <1>3, ReservedFinite, FS_CardinalityType
<1>5. QED
  BY <1>2, <1>3, <1>4, StockAssumption DEF CountedWithinStock, InStock

-----------------------------------------------------------------------------

\* The types of a saved row, a new batch and a batch with one task replaced.

LEMMA SaveType ==
  ASSUME RegTypeOK, NEW a \in Attendees, NEW r \in Row, Save(a, r)
  PROVE  reg' \in [Attendees -> Row]
BY DEF RegTypeOK, Save

LEMMA StatusType ==
  ASSUME NEW r \in Row, NEW s \in RegistrationStatus
  PROVE  [r EXCEPT !.status = s] \in Row
BY DEF Row

\* Every action of the module keeps the types.
LEMMA RegTypeStep == RegTypeOK /\ [RegNext]_regVars => RegTypeOK'
<1> SUFFICES ASSUME RegTypeOK, [RegNext]_regVars
             PROVE  RegTypeOK'
  OBVIOUS
<1>1. ASSUME NEW a \in Attendees, NEW free \in BOOLEAN, Create(a, free)
      PROVE  RegTypeOK'
  <2>1. [status |-> IF free THEN "CONFIRMED" ELSE "PENDING",
         attended |-> FALSE, free |-> free] \in Row
    BY DEF Row, RegistrationStatus
  <2>2. reg' \in [Attendees -> Row]
    BY <1>1, <2>1, SaveType DEF Create
  <2>3. QED
    BY <1>1, <2>2 DEF Create, RegTypeOK
<1>2. ASSUME NEW a \in Attendees, Deadline(a)
      PROVE  RegTypeOK'
  BY <1>2 DEF Deadline, RegTypeOK
<1>3. ASSUME NEW k \in CronJobs, SweepFind(k)
      PROVE  RegTypeOK'
  <2>1. {[id |-> a, row |-> reg[a], saved |-> FALSE] :
            a \in {x \in Attendees : Expirable(x)}} \in SUBSET SweepTask
    <3>1. \A a \in Attendees : [id |-> a, row |-> reg[a], saved |-> FALSE] \in SweepTask
      BY DEF SweepTask, RegTypeOK
    <3>2. QED
      BY <3>1
  <2>2. sweep' \in [CronJobs -> SUBSET SweepTask]
    BY <1>3, <2>1 DEF SweepFind, RegTypeOK
  <2>3. QED
    BY <1>3, <2>2 DEF SweepFind, RegTypeOK
<1>4. ASSUME NEW k \in CronJobs, NEW t \in sweep[k], SweepSave(k, t)
      PROVE  RegTypeOK'
  <2>1. t \in SweepTask /\ t.id \in Attendees /\ t.row \in Row
    BY DEF RegTypeOK, SweepTask
  <2>2. [t.row EXCEPT !.status = "EXPIRED"] \in Row
    BY <2>1, StatusType DEF RegistrationStatus
  <2>3. reg' \in [Attendees -> Row]
    BY <1>4, <2>1, <2>2, SaveType DEF SweepSave
  <2>4. [t EXCEPT !.saved = TRUE] \in SweepTask
    BY <2>1 DEF SweepTask
  <2>5. sweep' \in [CronJobs -> SUBSET SweepTask]
    BY <1>4, <2>4 DEF SweepSave, RegTypeOK
  <2>6. QED
    BY <1>4, <2>3, <2>5 DEF SweepSave, RegTypeOK
<1>5. ASSUME NEW k \in CronJobs, NEW t \in sweep[k], SweepAnnounce(k, t)
      PROVE  RegTypeOK'
  <2>1. t.id \in Attendees
    BY DEF RegTypeOK, SweepTask
  <2>2. QED
    BY <1>5, <2>1 DEF SweepAnnounce, RegTypeOK
<1>6. ASSUME NEW k \in CronJobs, SweepAbort(k)
      PROVE  RegTypeOK'
  BY <1>6, AbortsAssumption DEF SweepAbort, RegTypeOK
<1>7. CASE UNCHANGED regVars
  BY <1>7 DEF regVars, RegTypeOK
<1>8. QED
  BY <1>1, <1>2, <1>3, <1>4, <1>5, <1>6, <1>7 DEF RegNext

\* Type correctness of the registrations table and of the batches in memory.
THEOREM RegTypeCorrect == RegistrationsSpec => []RegTypeOK
<1>1. RegInit => RegTypeOK
  BY AbortsAssumption DEF RegInit, RegTypeOK, NoRow, Row
<1>2. QED
  BY <1>1, RegTypeStep, PTL DEF RegistrationsSpec

-----------------------------------------------------------------------------

\* An action that writes no row and makes nobody less late keeps what it says
\* about rows.
LEMMA RowsUntouched ==
  ASSUME RegIInv, UNCHANGED reg, overdue \subseteq overdue'
  PROVE  PendingCosts' /\ NoEarlyExpiry' /\ CountedWithinStock'
<1>1. Reserved' \subseteq Reserved
  BY DEF Reserved
<1>2. CountedWithinStock'
  BY <1>1, FewerReserved DEF RegIInv
<1>3. QED
  BY <1>2 DEF RegIInv, PendingCosts, NoEarlyExpiry

LEMMA RegIInvInit == RegInit => RegIInv
<1> SUFFICES ASSUME RegInit
             PROVE  RegIInv
  OBVIOUS
<1>1. RegTypeOK
  BY AbortsAssumption DEF RegInit, RegTypeOK, NoRow, Row
<1>2. BatchKnows /\ PendingCosts /\ NoEarlyExpiry /\ AnnouncedAreExpired
  BY DEF RegInit, NoRow, BatchKnows, PendingCosts, NoEarlyExpiry, AnnouncedAreExpired
<1>3. Reserved = {}
  BY DEF RegInit, NoRow, Reserved, CountedStatus
<1>4. CountedWithinStock
  BY <1>3, FS_EmptySet, StockAssumption DEF CountedWithinStock
<1>5. QED
  BY <1>1, <1>2, <1>4 DEF RegIInv

LEMMA RegIInvStep == RegIInv /\ [RegNext]_regVars => RegIInv'
<1> SUFFICES ASSUME RegIInv, [RegNext]_regVars
             PROVE  RegIInv'
  OBVIOUS
<1> USE DEF RegIInv
<1>0. RegTypeOK'
  BY RegTypeStep
<1>1. ASSUME NEW a \in Attendees, NEW free \in BOOLEAN, Create(a, free)
      PROVE  RegIInv'
  <2> DEFINE new == [status |-> IF free THEN "CONFIRMED" ELSE "PENDING",
                     attended |-> FALSE, free |-> free]
  <2>1. reg' = [reg EXCEPT ![a] = new] /\ reg[a].status = "ABSENT"
    BY <1>1 DEF Create, Save, IndexAccepts
  <2>2. \A b \in Attendees : reg'[b] = IF b = a THEN new ELSE reg[b]
    BY <2>1 DEF RegTypeOK
  <2>3. UNCHANGED <<overdue, sweep, offered, told>>
    BY <1>1 DEF Create
  <2>4. BatchKnows'
    <3>1. \A k \in CronJobs : \A t \in sweep[k] : t.id \in Attendees /\ t.id # a
      BY <2>1 DEF BatchKnows, RegTypeOK, SweepTask
    <3>2. QED
      BY <2>2, <2>3, <3>1 DEF BatchKnows
  <2>5. PendingCosts' /\ NoEarlyExpiry'
    BY <2>2, <2>3 DEF PendingCosts, NoEarlyExpiry
  <2>6. AnnouncedAreExpired'
    BY <2>1, <2>2, <2>3 DEF AnnouncedAreExpired, RegTypeOK
  <2>7. CountedWithinStock'
    <3>1. Reserved' \subseteq Reserved \cup {a}
      BY <2>2 DEF Reserved
    <3>2. InStock
      BY <1>1 DEF Create
    <3>3. QED
      BY <3>1, <3>2, OneMoreReserved
  <2>8. QED
    BY <1>0, <2>4, <2>5, <2>6, <2>7
<1>2. ASSUME NEW a \in Attendees, Deadline(a)
      PROVE  RegIInv'
  <2>1. UNCHANGED <<reg, sweep, offered, told>> /\ overdue \subseteq overdue'
    BY <1>2 DEF Deadline
  <2>2. BatchKnows' /\ AnnouncedAreExpired'
    BY <2>1 DEF BatchKnows, AnnouncedAreExpired
  <2>3. QED
    BY <1>0, <2>1, <2>2, RowsUntouched
<1>3. ASSUME NEW k \in CronJobs, SweepFind(k)
      PROVE  RegIInv'
  <2>1. UNCHANGED <<reg, overdue, offered, told>>
    BY <1>3 DEF SweepFind
  <2>2. BatchKnows'
    <3> SUFFICES ASSUME NEW j \in CronJobs, NEW t \in sweep'[j]
                 PROVE  /\ t.row.status = "PENDING" /\ ~t.row.free
                        /\ t.id \in overdue
                        /\ reg[t.id].status \in {"PENDING", "EXPIRED"}
                        /\ t.saved => reg[t.id].status = "EXPIRED"
      BY <2>1 DEF BatchKnows
    <3>1. CASE j # k
      BY <1>3, <3>1 DEF SweepFind, BatchKnows, RegTypeOK
    <3>2. CASE j = k
      <4>1. PICK a \in Attendees : Expirable(a) /\ t = [id |-> a, row |-> reg[a], saved |-> FALSE]
        BY <1>3, <3>2 DEF SweepFind, RegTypeOK
      <4>2. QED
        BY <4>1 DEF Expirable, PendingCosts
    <3>3. QED
      BY <3>1, <3>2
  <2>3. AnnouncedAreExpired'
    BY <2>1 DEF AnnouncedAreExpired
  <2>4. QED
    BY <1>0, <2>1, <2>2, <2>3, RowsUntouched
<1>4. ASSUME NEW k \in CronJobs, NEW t \in sweep[k], SweepSave(k, t)
      PROVE  RegIInv'
  <2> DEFINE new == [t.row EXCEPT !.status = "EXPIRED"]
  <2>1. t \in SweepTask /\ t.id \in Attendees /\ t.row \in Row
    BY DEF RegTypeOK, SweepTask
  <2>2. new.status = "EXPIRED" /\ ~new.free /\ t.id \in overdue
    BY <2>1 DEF BatchKnows, Row
  <2>3. \A b \in Attendees : reg'[b] = IF b = t.id THEN new ELSE reg[b]
    BY <1>4, <2>1 DEF SweepSave, Save, RegTypeOK
  <2>4. UNCHANGED <<overdue, offered, told>>
    BY <1>4 DEF SweepSave
  <2>5. BatchKnows'
    <3> SUFFICES ASSUME NEW j \in CronJobs, NEW u \in sweep'[j]
                 PROVE  /\ u.row.status = "PENDING" /\ ~u.row.free
                        /\ u.id \in overdue
                        /\ reg'[u.id].status \in {"PENDING", "EXPIRED"}
                        /\ u.saved => reg'[u.id].status = "EXPIRED"
      BY <2>4 DEF BatchKnows
    <3>1. CASE u \in sweep[j]
      <4>1. u.id \in Attendees
        BY <3>1 DEF RegTypeOK, SweepTask
      <4>2. QED
        BY <2>2, <2>3, <3>1, <4>1 DEF BatchKnows
    <3>2. CASE u = [t EXCEPT !.saved = TRUE]
      <4>1. u.id = t.id /\ u.row = t.row
        BY <2>1, <3>2 DEF SweepTask
      <4>2. reg'[u.id].status = "EXPIRED"
        BY <2>1, <2>2, <2>3, <4>1
      <4>3. t.row.status = "PENDING" /\ ~t.row.free /\ t.id \in overdue
        BY DEF BatchKnows
      <4>4. QED
        BY <4>1, <4>2, <4>3
    <3>3. u \in sweep[j] \/ u = [t EXCEPT !.saved = TRUE]
      BY <1>4 DEF SweepSave, RegTypeOK
    <3>4. QED
      BY <3>1, <3>2, <3>3
  <2>6. PendingCosts' /\ NoEarlyExpiry'
    BY <2>2, <2>3, <2>4 DEF PendingCosts, NoEarlyExpiry
  <2>7. AnnouncedAreExpired'
    BY <2>2, <2>3, <2>4 DEF AnnouncedAreExpired, RegTypeOK
  <2>8. CountedWithinStock'
    <3>1. Reserved' \subseteq Reserved
      BY <2>2, <2>3 DEF Reserved, CountedStatus
    <3>2. QED
      BY <3>1, FewerReserved
  <2>9. QED
    BY <1>0, <2>5, <2>6, <2>7, <2>8
<1>5. ASSUME NEW k \in CronJobs, NEW t \in sweep[k], SweepAnnounce(k, t)
      PROVE  RegIInv'
  <2>1. UNCHANGED <<reg, overdue>> /\ t.saved
        /\ offered' \cup told' \subseteq offered \cup told \cup {t.id}
    BY <1>5 DEF SweepAnnounce
  <2>2. \A j \in CronJobs : sweep'[j] \subseteq sweep[j]
    BY <1>5 DEF SweepAnnounce, RegTypeOK
  <2>3. BatchKnows'
    BY <2>1, <2>2 DEF BatchKnows
  <2>4. AnnouncedAreExpired'
    BY <2>1 DEF AnnouncedAreExpired, BatchKnows
  <2>5. QED
    BY <1>0, <2>1, <2>3, <2>4, RowsUntouched
<1>6. ASSUME NEW k \in CronJobs, SweepAbort(k)
      PROVE  RegIInv'
  <2>1. UNCHANGED <<reg, overdue, offered, told>>
    BY <1>6 DEF SweepAbort
  <2>2. \A j \in CronJobs : sweep'[j] \subseteq sweep[j]
    BY <1>6 DEF SweepAbort, RegTypeOK
  <2>3. BatchKnows' /\ AnnouncedAreExpired'
    BY <2>1, <2>2 DEF BatchKnows, AnnouncedAreExpired
  <2>4. QED
    BY <1>0, <2>1, <2>3, RowsUntouched
<1>7. CASE UNCHANGED regVars
  <2>1. UNCHANGED <<reg, overdue, sweep, offered, told>>
    BY <1>7 DEF regVars
  <2>2. BatchKnows' /\ AnnouncedAreExpired'
    BY <2>1 DEF BatchKnows, AnnouncedAreExpired
  <2>3. QED
    BY <1>0, <2>1, <2>2, RowsUntouched
<1>8. QED
  BY <1>1, <1>2, <1>3, <1>4, <1>5, <1>6, <1>7 DEF RegNext

THEOREM RegInvariant == RegistrationsSpec => []RegIInv
BY RegIInvInit, RegIInvStep, PTL DEF RegistrationsSpec

\* create() never lets more seats count than there are in stock, although the
\* two cron jobs write rows back from overlapping and outdated batches.
THEOREM StockRespected == RegistrationsSpec => []CountedWithinStock
BY RegInvariant, PTL DEF RegIInv

\* Nobody loses a seat before its deadline.
THEOREM NobodyExpiresEarly == RegistrationsSpec => []NoEarlyExpiry
BY RegInvariant, PTL DEF RegIInv

-----------------------------------------------------------------------------
(***************************************************************************)
(* The registrations table, its cron jobs and the desks implement          *)
(* SeatLedger, for every number of people, seats, desks and sessions.      *)
(*                                                                         *)
(* A step of SeatLedger is allowed by who is excused, and a step of the    *)
(* code by a row somebody read long ago.  The invariant connects the two:  *)
(* whatever row is held in memory exists in the table, and a row, held or  *)
(* stored, that does not count belongs to somebody excused.                *)
(***************************************************************************)

\* A row in memory and the stored one are the same registration: both exist,
\* and what the seat costs was settled when it was created.
Faithful(a, row) ==
    /\ row.status # "ABSENT"
    /\ reg[a].status # "ABSENT"
    /\ row.free = reg[a].free

\* A row that does not count belongs to somebody excused.
Accounted(a, row) == row.status \in CountedStatus \cup {"ABSENT"} \/ a \in Excused

RowsAccounted == \A a \in Attendees : Accounted(a, reg[a])

BatchesFaithful ==
    \A k \in CronJobs : \A t \in sweep[k] : Faithful(t.id, t.row) /\ t.id \in overdue

DesksFaithful ==
    \A d \in Desks : \A t \in desk[d] : Faithful(t.id, t.row) /\ Accounted(t.id, t.row)

DoorIInv ==
    /\ RegTypeOK
    /\ DoorTypeOK
    /\ RowsAccounted
    /\ BatchesFaithful
    /\ DesksFaithful

-----------------------------------------------------------------------------

\* What a save leaves as it was.

LEMMA RowAfterSave ==
  ASSUME RegTypeOK, NEW a \in Attendees, NEW r, Save(a, r)
  PROVE  \A b \in Attendees : reg'[b] = IF b = a THEN r ELSE reg[b]
BY DEF RegTypeOK, Save

\* A save of a faithful row keeps every table and memory in order, if the row
\* is accounted for.
LEMMA SaveKeepsRows ==
  ASSUME DoorIInv, NEW a \in Attendees, NEW r \in Row, Save(a, r), Faithful(a, r),
         Excused \subseteq Excused', overdue \subseteq overdue',
         r.status \in CountedStatus \/ a \in Excused'
  PROVE  /\ reg' \in [Attendees -> Row]
         /\ RowsAccounted'
         /\ \A k \in CronJobs : \A t \in sweep[k] :
               Faithful(t.id, t.row)' /\ t.id \in overdue'
         /\ \A d \in Desks : \A t \in desk[d] :
               Faithful(t.id, t.row)' /\ Accounted(t.id, t.row)'
<1> USE DEF DoorIInv
<1>1. reg' \in [Attendees -> Row]
  BY SaveType
<1>2. RowsAccounted'
  BY RowAfterSave DEF RowsAccounted, Accounted
<1>3. ASSUME NEW k \in CronJobs, NEW t \in sweep[k]
      PROVE  Faithful(t.id, t.row)' /\ t.id \in overdue'
  <2>1. t.id \in Attendees
    BY DEF RegTypeOK, SweepTask
  <2>2. Faithful(t.id, t.row) /\ t.id \in overdue
    BY DEF BatchesFaithful
  <2>3. QED
    BY <2>1, <2>2, RowAfterSave DEF Faithful
<1>4. ASSUME NEW d \in Desks, NEW t \in desk[d]
      PROVE  Faithful(t.id, t.row)' /\ Accounted(t.id, t.row)'
  <2>1. t.id \in Attendees
    BY DEF DoorTypeOK, DeskTask
  <2>2. Faithful(t.id, t.row) /\ Accounted(t.id, t.row)
    BY DEF DesksFaithful
  <2>3. QED
    BY <2>1, <2>2, RowAfterSave DEF Faithful, Accounted
<1>5. QED
  BY <1>1, <1>2, <1>3, <1>4

\* A step that writes no row keeps them in order too.
LEMMA NoSaveKeepsRows ==
  ASSUME DoorIInv, UNCHANGED reg, Excused \subseteq Excused', overdue \subseteq overdue'
  PROVE  /\ RowsAccounted'
         /\ \A k \in CronJobs : \A t \in sweep[k] :
               Faithful(t.id, t.row)' /\ t.id \in overdue'
         /\ \A d \in Desks : \A t \in desk[d] :
               Faithful(t.id, t.row)' /\ Accounted(t.id, t.row)'
BY DEF DoorIInv, RowsAccounted, BatchesFaithful, DesksFaithful, Faithful, Accounted

-----------------------------------------------------------------------------

LEMMA DoorIInvInit == CheckInsInit => DoorIInv
<1> SUFFICES ASSUME CheckInsInit
             PROVE  DoorIInv
  OBVIOUS
<1>1. RegTypeOK
  BY RegIInvInit DEF CheckInsInit, RegIInv
<1>2. DoorTypeOK /\ DesksFaithful
  BY DEF CheckInsInit, DoorInit, DoorTypeOK, DesksFaithful
<1>3. RowsAccounted /\ BatchesFaithful
  BY DEF CheckInsInit, RegInit, NoRow, RowsAccounted, Accounted, BatchesFaithful
<1>4. QED
  BY <1>1, <1>2, <1>3 DEF DoorIInv

\* create() and the cron jobs.
LEMMA DoorIInvReg ==
  ASSUME DoorIInv, RegNext, UNCHANGED doorVars
  PROVE  DoorIInv'
<1> USE DEF DoorIInv
<1>0. RegTypeOK' /\ DoorTypeOK' /\ UNCHANGED <<desk, inside>>
  BY RegTypeStep DEF doorVars, DoorTypeOK
<1>1. ASSUME NEW a \in Attendees, NEW free \in BOOLEAN, Create(a, free)
      PROVE  DoorIInv'
  <2> DEFINE new == [status |-> IF free THEN "CONFIRMED" ELSE "PENDING",
                     attended |-> FALSE, free |-> free]
  <2>1. Save(a, new) /\ reg[a].status = "ABSENT" /\ UNCHANGED <<overdue, sweep>>
    BY <1>1 DEF Create, IndexAccepts
  <2>2. \A b \in Attendees : reg'[b] = IF b = a THEN new ELSE reg[b]
    BY <2>1, RowAfterSave
  <2>3. new.status \in CountedStatus
    BY DEF CountedStatus
  <2>4. RowsAccounted'
    BY <1>0, <2>1, <2>2, <2>3 DEF RowsAccounted, Accounted, Excused
  <2>5. BatchesFaithful'
    <3> SUFFICES ASSUME NEW k \in CronJobs, NEW t \in sweep[k]
                 PROVE  Faithful(t.id, t.row)' /\ t.id \in overdue
      BY <2>1 DEF BatchesFaithful
    <3>1. t.id \in Attendees /\ Faithful(t.id, t.row) /\ t.id \in overdue
      BY DEF RegTypeOK, SweepTask, BatchesFaithful
    <3>2. QED
      BY <2>1, <2>2, <3>1 DEF Faithful
  <2>6. DesksFaithful'
    <3> SUFFICES ASSUME NEW d \in Desks, NEW t \in desk[d]
                 PROVE  Faithful(t.id, t.row)' /\ Accounted(t.id, t.row)'
      BY <1>0 DEF DesksFaithful
    <3>1. t.id \in Attendees /\ Faithful(t.id, t.row) /\ Accounted(t.id, t.row)
      BY DEF DoorTypeOK, DeskTask, DesksFaithful
    <3>2. QED
      BY <1>0, <2>1, <2>2, <3>1 DEF Faithful, Accounted, Excused
  <2>7. QED
    BY <1>0, <2>4, <2>5, <2>6
<1>2. ASSUME NEW a \in Attendees, Deadline(a)
      PROVE  DoorIInv'
  <2>1. UNCHANGED <<reg, sweep>> /\ overdue \subseteq overdue' /\ Excused \subseteq Excused'
    BY <1>0, <1>2 DEF Deadline, Excused
  <2>2. QED
    BY <1>0, <2>1, NoSaveKeepsRows DEF BatchesFaithful, DesksFaithful
<1>3. ASSUME NEW k \in CronJobs, SweepFind(k)
      PROVE  DoorIInv'
  <2>1. UNCHANGED <<reg, overdue>> /\ Excused \subseteq Excused'
    BY <1>0, <1>3 DEF SweepFind, Excused
  <2>2. BatchesFaithful'
    <3> SUFFICES ASSUME NEW j \in CronJobs, NEW t \in sweep'[j]
                 PROVE  Faithful(t.id, t.row)' /\ t.id \in overdue'
      BY DEF BatchesFaithful
    <3>1. CASE j # k
      <4>1. t \in sweep[j]
        BY <1>3, <3>1 DEF SweepFind, RegTypeOK
      <4>2. QED
        BY <2>1, <4>1, NoSaveKeepsRows
    <3>2. CASE j = k
      <4>1. PICK a \in Attendees : Expirable(a) /\ t = [id |-> a, row |-> reg[a], saved |-> FALSE]
        BY <1>3, <3>2 DEF SweepFind, RegTypeOK
      <4>2. QED
        BY <2>1, <4>1 DEF Expirable, Faithful
    <3>3. QED
      BY <3>1, <3>2
  <2>3. QED
    BY <1>0, <2>1, <2>2, NoSaveKeepsRows DEF DesksFaithful
<1>4. ASSUME NEW k \in CronJobs, NEW t \in sweep[k], SweepSave(k, t)
      PROVE  DoorIInv'
  <2> DEFINE new == [t.row EXCEPT !.status = "EXPIRED"]
  <2>1. t \in SweepTask /\ t.id \in Attendees /\ t.row \in Row
    BY DEF RegTypeOK, SweepTask
  <2>2. Faithful(t.id, t.row) /\ t.id \in overdue
    BY DEF BatchesFaithful
  <2>3. new \in Row /\ Faithful(t.id, new)
    <3>1. new \in Row
      BY <2>1, StatusType DEF RegistrationStatus
    <3>2. new.status = "EXPIRED" /\ new.free = t.row.free
      BY <2>1 DEF Row
    <3>3. QED
      BY <2>2, <3>1, <3>2 DEF Faithful
  <2>4. Save(t.id, new) /\ UNCHANGED overdue /\ Excused' = Excused
    BY <1>0, <1>4 DEF SweepSave, Excused
  <2>5. t.id \in Excused'
    BY <2>2, <2>4 DEF Excused
  <2>6. /\ RowsAccounted'
        /\ \A j \in CronJobs : \A u \in sweep[j] :
              Faithful(u.id, u.row)' /\ u.id \in overdue'
        /\ DesksFaithful'
    <3> HIDE DEF new
    <3>1. QED
      BY <1>0, <2>1, <2>3, <2>4, <2>5, SaveKeepsRows DEF DesksFaithful
  <2>7. BatchesFaithful'
    <3> SUFFICES ASSUME NEW j \in CronJobs, NEW u \in sweep'[j]
                 PROVE  Faithful(u.id, u.row)' /\ u.id \in overdue'
      BY DEF BatchesFaithful
    <3>1. u \in sweep[j] \/ (j = k /\ u = [t EXCEPT !.saved = TRUE])
      BY <1>4 DEF SweepSave, RegTypeOK
    <3>2. CASE u \in sweep[j]
      BY <2>6, <3>2
    <3>3. CASE j = k /\ u = [t EXCEPT !.saved = TRUE]
      <4>1. u.id = t.id /\ u.row = t.row
        BY <2>1, <3>3 DEF SweepTask
      <4>2. QED
        BY <2>6, <4>1
    <3>4. QED
      BY <3>1, <3>2, <3>3
  <2>8. QED
    BY <1>0, <2>6, <2>7
<1>5. ASSUME NEW k \in CronJobs,
             UNCHANGED <<reg, overdue>>, \A j \in CronJobs : sweep'[j] \subseteq sweep[j]
      PROVE  DoorIInv'
  <2>1. Excused' = Excused
    BY <1>0, <1>5 DEF Excused
  <2>2. QED
    BY <1>0, <1>5, <2>1, NoSaveKeepsRows DEF BatchesFaithful, DesksFaithful
<1>6. ASSUME NEW k \in CronJobs, NEW t \in sweep[k], SweepAnnounce(k, t)
      PROVE  DoorIInv'
  BY <1>5, <1>6 DEF SweepAnnounce, RegTypeOK
<1>7. ASSUME NEW k \in CronJobs, SweepAbort(k)
      PROVE  DoorIInv'
  BY <1>5, <1>7 DEF SweepAbort, RegTypeOK
<1>8. QED
  BY <1>1, <1>2, <1>3, <1>4, <1>6, <1>7 DEF RegNext

\* A desk writes at most the row it holds, and the requests it holds after the
\* step are those of before, or hold a row that was just read.
LEMMA DoorIInvDesk ==
  ASSUME DoorIInv, DoorNext
  PROVE  DoorIInv'
<1> USE DEF DoorIInv
<1>0. PICK d \in Desks : DeskStart(d) \/ DeskGoOn(d) \/ DeskFail(d)
  BY DEF DoorNext
<1>1. ASSUME NEW a \in Attendees, NEW step \in DeskStep, NEW in \in SUBSET Sessions,
             Begin(d, step, a, in), reg[a].status # "ABSENT",
             UNCHANGED <<regVars, ins, outs, inside>>
      PROVE  DoorIInv'
  <2> DEFINE task == [step |-> step, id |-> a, row |-> reg[a], in |-> in]
  <2>1. UNCHANGED regVars /\ Excused' = Excused
    BY <1>1 DEF Excused, regVars
  <2>2. RegTypeOK' /\ RowsAccounted' /\ BatchesFaithful'
    BY <2>1, RegTypeStep, NoSaveKeepsRows DEF regVars, BatchesFaithful
  <2>3. \A e \in Desks : desk'[e] = IF e = d THEN {task} ELSE desk[e]
    BY <1>1 DEF Begin, DoorTypeOK
  <2>4. DoorTypeOK'
    BY <1>1 DEF Begin, DoorTypeOK, DeskTask, RegTypeOK
  <2>5. DesksFaithful'
    <3> SUFFICES ASSUME NEW e \in Desks, NEW t \in desk'[e]
                 PROVE  Faithful(t.id, t.row)' /\ Accounted(t.id, t.row)'
      BY DEF DesksFaithful
    <3>1. CASE e = d
      <4>1. t = task
        BY <2>3, <3>1
      <4>2. Faithful(a, reg[a]) /\ Accounted(a, reg[a])
        BY <1>1 DEF Faithful, RowsAccounted
      <4>3. QED
        BY <2>1, <4>1, <4>2 DEF Faithful, Accounted, regVars
    <3>2. CASE e # d
      BY <2>1, <2>3, <3>2, NoSaveKeepsRows DEF regVars
    <3>3. QED
      BY <3>1, <3>2
  <2>6. QED
    BY <2>2, <2>4, <2>5
<1>2. ASSUME NEW t \in desk[d], NEW r \in Row, Save(t.id, r), r.free = t.row.free,
             r.status \in CountedStatus \/ t.id \in Excused', r.status # "ABSENT",
             UNCHANGED <<overdue, sweep, offered, told, aborts, ins, outs>>,
             Done(d), Admit(t.id)
      PROVE  DoorIInv'
  <2>1. t.id \in Attendees /\ Faithful(t.id, t.row)
    BY DEF DoorTypeOK, DeskTask, DesksFaithful
  <2>2. Faithful(t.id, r)
    BY <1>2, <2>1 DEF Faithful
  <2>3. Excused \subseteq Excused' /\ overdue \subseteq overdue'
    BY <1>2 DEF Excused, Admit
  <2>4. /\ reg' \in [Attendees -> Row]
        /\ RowsAccounted'
        /\ \A k \in CronJobs : \A u \in sweep[k] :
              Faithful(u.id, u.row)' /\ u.id \in overdue'
        /\ \A e \in Desks : \A u \in desk[e] :
              Faithful(u.id, u.row)' /\ Accounted(u.id, u.row)'
    BY <1>2, <2>1, <2>2, <2>3, SaveKeepsRows
  <2>5. RegTypeOK' /\ BatchesFaithful'
    BY <1>2, <2>4 DEF RegTypeOK, BatchesFaithful
  <2>6. \A e \in Desks : desk'[e] \subseteq desk[e]
    BY <1>2 DEF Done, DoorTypeOK
  <2>7. DesksFaithful'
    BY <2>4, <2>6 DEF DesksFaithful
  <2>8. DoorTypeOK'
    BY <1>2, <2>1 DEF Done, Admit, DoorTypeOK
  <2>9. QED
    BY <2>4, <2>5, <2>7, <2>8
<1>3. ASSUME UNCHANGED regVars, inside \subseteq inside', DoorTypeOK',
             \A e \in Desks : \A u \in desk'[e] :
                \E t \in desk[e] : u.id = t.id /\ u.row = t.row
      PROVE  DoorIInv'
  <2>1. Excused \subseteq Excused'
    BY <1>3 DEF Excused, regVars
  <2>2. RegTypeOK' /\ RowsAccounted' /\ BatchesFaithful'
    BY <1>3, <2>1, RegTypeStep, NoSaveKeepsRows DEF regVars, BatchesFaithful
  <2>3. DesksFaithful'
    BY <1>3, <2>1, NoSaveKeepsRows DEF regVars, DesksFaithful
  <2>4. QED
    BY <1>3, <2>2, <2>3
<1>4. CASE DeskStart(d)
  <2>1. PICK a \in Attendees :
           \/ LegacyRead(d, a)
           \/ EventRead(d, a)
           \/ \E s \in Sessions : SessionRead(d, a, s) \/ OutRead(d, a, s)
    BY <1>4 DEF DeskStart
  <2>2. CASE LegacyRead(d, a)
    BY <1>1, <2>2 DEF LegacyRead, DeskStep
  <2>3. CASE EventRead(d, a)
    BY <1>1, <2>3 DEF EventRead, DeskStep, ValidTicket
  <2>4. ASSUME NEW s \in Sessions, SessionRead(d, a, s) \/ OutRead(d, a, s)
        PROVE  DoorIInv'
    <3>1. {s} \in SUBSET Sessions /\ "lookup" \in DeskStep /\ "leave" \in DeskStep
      BY DEF DeskStep
    <3>2. CASE SessionRead(d, a, s)
      BY <1>1, <3>1, <3>2 DEF SessionRead, ValidTicket
    <3>3. CASE OutRead(d, a, s)
      BY <1>1, <3>1, <3>3 DEF OutRead, ValidTicket
    <3>4. QED
      BY <2>4, <3>2, <3>3
  <2>5. QED
    BY <2>1, <2>2, <2>3, <2>4
<1>5. CASE DeskFail(d)
  <2>1. DoorTypeOK' /\ \A e \in Desks : desk'[e] \subseteq desk[e]
    BY <1>5 DEF DeskFail, Done, DoorTypeOK
  <2>2. QED
    BY <1>3, <1>5, <2>1 DEF DeskFail
<1>6. ASSUME NEW t \in desk[d],
             \/ LegacySave(d, t)
             \/ AttendedSave(d, t)
             \/ SessionLookup(d, t)
             \/ SessionAttend(d, t)
             \/ OutSave(d, t)
      PROVE  DoorIInv'
  <2>1. t \in DeskTask /\ t.id \in Attendees /\ t.row \in Row /\ t.in \subseteq Sessions
    BY DEF DoorTypeOK, DeskTask
  <2>2. Faithful(t.id, t.row) /\ Accounted(t.id, t.row)
    BY DEF DesksFaithful
  <2>3. CASE LegacySave(d, t)
    <3> DEFINE new == [t.row EXCEPT !.attended = TRUE]
    <3>1. new \in Row /\ new.free = t.row.free /\ new.status = t.row.status
      BY <2>1 DEF Row
    <3>2. t.id \in Excused'
      BY <2>3 DEF LegacySave, Admit, Excused
    <3>3. Save(t.id, new) /\ Done(d) /\ Admit(t.id)
          /\ UNCHANGED <<overdue, sweep, offered, told, aborts, ins, outs>>
      BY <2>3 DEF LegacySave
    <3>4. new.status # "ABSENT"
      BY <2>2, <3>1 DEF Faithful
    <3> HIDE DEF new
    <3>5. QED
      BY <1>2, <3>1, <3>2, <3>3, <3>4
  <2>4. CASE AttendedSave(d, t)
    <3> DEFINE new == [t.row EXCEPT !.attended = TRUE, !.status = "ATTENDED"]
    <3>1. new \in Row /\ new.free = t.row.free /\ new.status = "ATTENDED"
      BY <2>1 DEF Row, RegistrationStatus
    <3>2. t.id \in Excused'
      BY <2>4 DEF AttendedSave, Admit, Excused
    <3>3. Save(t.id, new) /\ Done(d) /\ Admit(t.id)
          /\ UNCHANGED <<overdue, sweep, offered, told, aborts, ins, outs>>
      BY <2>4 DEF AttendedSave
    <3> HIDE DEF new
    <3>4. QED
      BY <1>2, <3>1, <3>2, <3>3
  <2>5. ASSUME NEW step \in DeskStep, Continue(d, t, step) \/ Done(d),
               inside' = inside \/ Admit(t.id), UNCHANGED regVars,
               ins' \subseteq Visit, outs' \subseteq Visit
        PROVE  DoorIInv'
    <3> DEFINE task == [t EXCEPT !.step = step]
    <3>1. task \in DeskTask /\ task.id = t.id /\ task.row = t.row
      BY <2>1 DEF DeskTask
    <3>2. \A e \in Desks : desk'[e] \subseteq desk[e] \/ (e = d /\ desk'[e] = {task})
      BY <2>5 DEF Continue, Done, DoorTypeOK
    <3>3. DoorTypeOK'
      BY <2>1, <2>5, <3>1 DEF Continue, Done, Admit, DoorTypeOK
    <3>4. inside \subseteq inside'
      BY <2>5 DEF Admit
    <3> HIDE DEF task
    <3>5. QED
      BY <1>3, <2>5, <3>1, <3>2, <3>3, <3>4
  <2>6. {t.id} \X t.in \subseteq Visit
    BY <2>1 DEF Visit
  <2>7. ins \subseteq Visit /\ outs \subseteq Visit
    BY DEF DoorTypeOK
  <2>8. CASE SessionLookup(d, t)
    BY <2>5, <2>7, <2>8 DEF SessionLookup, DeskStep
  <2>9. CASE SessionAttend(d, t)
    BY <2>5, <2>6, <2>7, <2>9 DEF SessionAttend, DeskStep
  <2>10. CASE OutSave(d, t)
    BY <2>5, <2>6, <2>7, <2>10 DEF OutSave, DeskStep
  <2>11. QED
    BY <1>6, <2>3, <2>4, <2>8, <2>9, <2>10
<1>7. QED
  BY <1>0, <1>4, <1>5, <1>6 DEF DeskGoOn

LEMMA DoorIInvStep == DoorIInv /\ [CheckInsNext]_checkInVars => DoorIInv'
<1> SUFFICES ASSUME DoorIInv, [CheckInsNext]_checkInVars
             PROVE  DoorIInv'
  OBVIOUS
<1>1. CASE UNCHANGED checkInVars
  BY <1>1 DEF checkInVars, regVars, doorVars, DoorIInv, RegTypeOK, DoorTypeOK,
              RowsAccounted, BatchesFaithful, DesksFaithful, Faithful, Accounted, Excused
<1>2. QED
  BY <1>1, DoorIInvReg, DoorIInvDesk DEF CheckInsNext

THEOREM DoorInvariant == CheckInsSpec => []DoorIInv
BY DoorIInvInit, DoorIInvStep, PTL DEF CheckInsSpec

\* Type correctness of the tables, the batches and the requests of the desks.
THEOREM DoorTypeCorrect == CheckInsSpec => []DoorTypeOK
BY DoorInvariant, PTL DEF DoorIInv

-----------------------------------------------------------------------------
(***************************************************************************)
(* The refinement: what each step does to granted, counted and excused.    *)
(***************************************************************************)

LedgerVars == <<Granted, Reserved, Excused>>

\* A step of the ledger, spelled out over the mapping.
LedgerStep == Ledger!LedgerNext \/ UNCHANGED LedgerVars

\* Saving a row that exists is a Leave, a Return, an Excuse or nothing.
LEMMA SaveIsLedgerStep ==
  ASSUME DoorIInv, NEW a \in Attendees, NEW r \in Row, Save(a, r), Faithful(a, r),
         Excused' = Excused \/ Excused' = Excused \cup {a},
         r.status \in CountedStatus \/ a \in Excused'
  PROVE  LedgerStep
<1> USE DEF DoorIInv
<1>1. Granted' = Granted /\ a \in Granted
  BY RowAfterSave DEF Granted, Faithful
<1>2. Reserved' = IF r.status \in CountedStatus THEN Reserved \cup {a} ELSE Reserved \ {a}
  BY RowAfterSave DEF Reserved
<1>3. a \in Reserved \/ a \in Excused
  BY DEF Reserved, RowsAccounted, Accounted, Faithful
<1>4. CASE Reserved' = Reserved
  BY <1>1, <1>4 DEF LedgerStep, LedgerVars, Ledger!LedgerNext, Ledger!Excuse
<1>5. CASE Reserved' = Reserved \cup {a} /\ Reserved' # Reserved
  <2>1. a \in Excused
    BY <1>3, <1>5
  <2>2. QED
    BY <1>1, <1>5, <2>1 DEF LedgerStep, Ledger!LedgerNext, Ledger!Return
<1>6. CASE Reserved' = Reserved \ {a} /\ Reserved' # Reserved
  <2>1. a \in Reserved /\ r.status \notin CountedStatus
    BY <1>2, <1>6
  <2>2. QED
    BY <1>1, <1>6, <2>1 DEF LedgerStep, Ledger!LedgerNext, Ledger!Leave
<1>7. QED
  BY <1>2, <1>4, <1>5, <1>6

\* A step that writes no row and excuses at most one person who holds a seat.
LEMMA ExcuseIsLedgerStep ==
  ASSUME UNCHANGED reg, NEW a \in Granted,
         Excused' = Excused \/ Excused' = Excused \cup {a}
  PROVE  LedgerStep
<1>1. Granted' = Granted /\ Reserved' = Reserved
  BY DEF Granted, Reserved
<1>2. a \in Attendees
  BY DEF Granted
<1>3. QED
  BY <1>1, <1>2 DEF LedgerStep, LedgerVars, Ledger!LedgerNext, Ledger!Excuse

LEMMA NothingIsLedgerStep ==
  ASSUME UNCHANGED reg, Excused' = Excused
  PROVE  LedgerStep
BY DEF LedgerStep, LedgerVars, Granted, Reserved

LEMMA RegIsLedgerStep ==
  ASSUME DoorIInv, RegNext, UNCHANGED doorVars
  PROVE  LedgerStep
<1> USE DEF DoorIInv
<1>0. UNCHANGED <<desk, inside>>
  BY DEF doorVars
<1>1. ASSUME NEW a \in Attendees, NEW free \in BOOLEAN, Create(a, free)
      PROVE  LedgerStep
  <2> DEFINE new == [status |-> IF free THEN "CONFIRMED" ELSE "PENDING",
                     attended |-> FALSE, free |-> free]
  <2>1. Save(a, new) /\ reg[a].status = "ABSENT" /\ InStock /\ UNCHANGED overdue
    BY <1>1 DEF Create, IndexAccepts
  <2>2. \A b \in Attendees : reg'[b] = IF b = a THEN new ELSE reg[b]
    BY <2>1, RowAfterSave
  <2>3. new.status \in CountedStatus /\ new.status # "ABSENT"
    BY DEF CountedStatus
  <2> HIDE DEF new
  <2>4. a \notin Granted /\ Granted' = Granted \cup {a}
    BY <2>1, <2>2, <2>3 DEF Granted
  <2>5. Reserved' = Reserved \cup {a}
    BY <2>2, <2>3 DEF Reserved
  <2>6. Excused' = Excused
    BY <1>0, <2>1 DEF Excused
  <2>7. Cardinality(Reserved) < Stock
    BY <2>1 DEF InStock
  <2>8. Ledger!Grant(a)
    BY <2>4, <2>5, <2>6, <2>7 DEF Ledger!Grant, Ledger!Cardinality, Cardinality
  <2>9. QED
    BY <2>8 DEF LedgerStep, Ledger!LedgerNext
<1>2. ASSUME NEW a \in Attendees, Deadline(a)
      PROVE  LedgerStep
  <2>1. a \in Granted /\ UNCHANGED reg /\ Excused' = Excused \cup {a}
    BY <1>0, <1>2 DEF Deadline, Granted, Excused
  <2>2. QED
    BY <2>1, ExcuseIsLedgerStep
<1>3. ASSUME NEW k \in CronJobs, NEW t \in sweep[k], SweepSave(k, t)
      PROVE  LedgerStep
  <2> DEFINE new == [t.row EXCEPT !.status = "EXPIRED"]
  <2>1. t.id \in Attendees /\ t.row \in Row
    BY DEF RegTypeOK, SweepTask
  <2>2. Faithful(t.id, t.row) /\ t.id \in overdue
    BY DEF BatchesFaithful
  <2>3. new \in Row /\ Faithful(t.id, new)
    <3>1. new \in Row
      BY <2>1, StatusType DEF RegistrationStatus
    <3>2. new.status = "EXPIRED" /\ new.free = t.row.free
      BY <2>1 DEF Row
    <3>3. QED
      BY <2>2, <3>1, <3>2 DEF Faithful
  <2>4. Save(t.id, new) /\ Excused' = Excused /\ t.id \in Excused'
    BY <1>0, <1>3, <2>2 DEF SweepSave, Excused
  <2> HIDE DEF new
  <2>5. QED
    BY <2>1, <2>3, <2>4, SaveIsLedgerStep
<1>4. ASSUME NEW k \in CronJobs, SweepFind(k) \/ SweepAbort(k)
      PROVE  LedgerStep
  <2>1. UNCHANGED reg /\ Excused' = Excused
    BY <1>0, <1>4 DEF SweepFind, SweepAbort, Excused
  <2>2. QED
    BY <2>1, NothingIsLedgerStep
<1>5. ASSUME NEW k \in CronJobs, NEW t \in sweep[k], SweepAnnounce(k, t)
      PROVE  LedgerStep
  <2>1. UNCHANGED reg /\ Excused' = Excused
    BY <1>0, <1>5 DEF SweepAnnounce, Excused
  <2>2. QED
    BY <2>1, NothingIsLedgerStep
<1>6. QED
  BY <1>1, <1>2, <1>3, <1>4, <1>5 DEF RegNext

LEMMA DeskIsLedgerStep ==
  ASSUME DoorIInv, DoorNext
  PROVE  LedgerStep
<1> USE DEF DoorIInv
<1>0. PICK d \in Desks : DeskStart(d) \/ DeskGoOn(d) \/ DeskFail(d)
  BY DEF DoorNext
<1>1. CASE DeskStart(d) \/ DeskFail(d)
  <2>1. UNCHANGED reg /\ Excused' = Excused
    BY <1>1 DEF DeskStart, DeskFail, LegacyRead, EventRead, SessionRead, OutRead,
                regVars, Excused
  <2>2. QED
    BY <2>1, NothingIsLedgerStep
<1>2. ASSUME NEW t \in desk[d],
             \/ LegacySave(d, t)
             \/ AttendedSave(d, t)
             \/ SessionLookup(d, t)
             \/ SessionAttend(d, t)
             \/ OutSave(d, t)
      PROVE  LedgerStep
  <2>1. t.id \in Attendees /\ t.row \in Row
    BY DEF DoorTypeOK, DeskTask
  <2>2. Faithful(t.id, t.row)
    BY DEF DesksFaithful
  <2>3. t.id \in Granted
    BY <2>1, <2>2 DEF Granted, Faithful
  <2>4. CASE LegacySave(d, t)
    <3> DEFINE new == [t.row EXCEPT !.attended = TRUE]
    <3>1. new \in Row /\ Faithful(t.id, new)
      BY <2>1, <2>2 DEF Row, Faithful
    <3>2. Save(t.id, new) /\ Excused' = Excused \cup {t.id}
      BY <2>4 DEF LegacySave, Admit, Excused
    <3> HIDE DEF new
    <3>3. QED
      BY <2>1, <3>1, <3>2, SaveIsLedgerStep
  <2>5. CASE AttendedSave(d, t)
    <3> DEFINE new == [t.row EXCEPT !.attended = TRUE, !.status = "ATTENDED"]
    <3>1. new \in Row /\ Faithful(t.id, new)
      BY <2>1, <2>2 DEF Row, RegistrationStatus, Faithful
    <3>2. Save(t.id, new) /\ Excused' = Excused \cup {t.id}
      BY <2>5 DEF AttendedSave, Admit, Excused
    <3> HIDE DEF new
    <3>3. QED
      BY <2>1, <3>1, <3>2, SaveIsLedgerStep
  <2>6. CASE SessionLookup(d, t) \/ SessionAttend(d, t) \/ OutSave(d, t)
    <3>1. UNCHANGED <<reg, overdue>> /\ (inside' = inside \/ inside' = inside \cup {t.id})
      BY <2>6 DEF SessionLookup, SessionAttend, OutSave, Admit, regVars
    <3>2. Excused' = Excused \/ Excused' = Excused \cup {t.id}
      BY <3>1 DEF Excused
    <3>3. QED
      BY <2>3, <3>1, <3>2, ExcuseIsLedgerStep
  <2>7. QED
    BY <1>2, <2>4, <2>5, <2>6
<1>3. QED
  BY <1>0, <1>1, <1>2 DEF DeskGoOn

LEMMA LedgerStart == CheckInsInit => Ledger!LedgerInit
BY DEF CheckInsInit, RegInit, DoorInit, NoRow, Ledger!LedgerInit, Granted, Reserved,
       CountedStatus, Excused

LEMMA CheckInsIsLedgerStep ==
  DoorIInv /\ [CheckInsNext]_checkInVars => [Ledger!LedgerNext]_(Ledger!ledgerVars)
<1> SUFFICES ASSUME DoorIInv, [CheckInsNext]_checkInVars
             PROVE  LedgerStep
  BY DEF LedgerStep, LedgerVars, Ledger!ledgerVars
<1>1. CASE UNCHANGED checkInVars
  <2>1. UNCHANGED reg /\ Excused' = Excused
    BY <1>1 DEF checkInVars, regVars, doorVars, Excused
  <2>2. QED
    BY <2>1, NothingIsLedgerStep
<1>2. QED
  BY <1>1, RegIsLedgerStep, DeskIsLedgerStep DEF CheckInsNext

\* The tables, the cron jobs and the desks implement SeatLedger: one grant for
\* each person, under the stock, and no seat comes back into the count but
\* that of somebody late or inside.
THEOREM CheckInsKeepLedger == CheckInsSpec => KeepsLedger
BY LedgerStart, CheckInsIsLedgerStep, DoorInvariant, PTL
   DEF CheckInsSpec, KeepsLedger, Ledger!LedgerSpec

Promise == INSTANCE SeatLedgerProofs
             WITH granted <- Granted, counted <- Reserved, excused <- Excused

\* So the seats of people who are neither late nor inside stay within the
\* stock, as SeatLedger promises.
THEOREM CheckInsKeepStock == CheckInsSpec => []StockKept
<1>1. KeepsLedger => Promise!LedgerSpec
  BY DEF KeepsLedger, Ledger!LedgerSpec, Ledger!LedgerInit, Ledger!LedgerNext,
         Ledger!ledgerVars, Ledger!Grant, Ledger!Excuse, Ledger!Leave, Ledger!Return,
         Promise!LedgerSpec, Promise!LedgerInit, Promise!LedgerNext, Promise!ledgerVars,
         Promise!Grant, Promise!Excuse, Promise!Leave, Promise!Return,
         Ledger!Cardinality, Promise!Cardinality
<1>2. Promise!LedgerSpec => []Promise!WithinStock
  <2>1. Promise!IsFiniteSet(Attendees)
    BY AttendeesAssumption DEF Promise!IsFiniteSet, IsFiniteSet
  <2>2. QED
    BY <2>1, StockAssumption, Promise!LedgerSafe
<1>3. Promise!WithinStock => StockKept
  BY DEF StockKept, Ledger!WithinStock, Promise!WithinStock, Ledger!Cardinality, Promise!Cardinality
<1>4. QED
  BY <1>1, <1>2, <1>3, CheckInsKeepLedger, PTL

-----------------------------------------------------------------------------
(***************************************************************************)
(* The waiting list beside the expiry jobs, for every number of people,    *)
(* seats and failures.                                                     *)
(*                                                                         *)
(* InvitationsHaveSeat is not inductive.  An entry of a batch becomes      *)
(* EXPIRED, and is passed on, whether or not it is still INVITED when its  *)
(* turn comes, so what is bounded is the number of claims: the invitations *)
(* in force and the entries of the batch together.  And a job must not     *)
(* release one seat twice, which is so because it holds every row once,    *)
(* and holds only rows whose seat nobody was offered (BatchUnoffered).     *)
(***************************************************************************)

Claims == Invited \cup {t.id : t \in {u \in round : ~u.saved}}

Passed == {t \in round : t.saved}

\* Everything that stands for a released seat.
ClaimsCovered ==
    Cardinality(Claims) + Cardinality(inviter["minute"])
        + Cardinality(inviter["invitations"]) + Cardinality(Passed)
    <= Cardinality(offered)

\* A caller invites one person at a time, and a round holds an entry once and
\* passes on one at a time.
OneAtATime ==
    /\ \A c \in Callers : inviter[c] = {} \/ \E p \in People : inviter[c] = {p}
    /\ \A t, u \in round : t.id = u.id => t = u
    /\ \A t, u \in round : t.saved /\ u.saved => t = u

\* Rows of other jobs are not offered, so the condition is on "minute" alone.
BatchUnoffered ==
    \A k \in CronJobs : k = "minute" =>
        /\ \A t \in sweep[k] : t.id \notin offered
        /\ \A t, u \in sweep[k] : t.id = u.id => t = u

Listed == {p \in People : entry[p] # NoEntry}

\* A priority never exceeds the number of entries, which a request to join is
\* about to raise by one.
QueueBounded ==
    /\ \A p \in People : entry[p].priority <= Cardinality(Listed)
    /\ \A p \in People : \A t \in asking[p] :
          t.step = "join" /\ entry[p] = NoEntry => t.priority <= Cardinality(Listed) + 1

WaitIInv ==
    /\ RegIInv
    /\ WaitTypeOK
    /\ QueueBounded
    /\ OneAtATime
    /\ BatchUnoffered
    /\ ClaimsCovered

-----------------------------------------------------------------------------
(***************************************************************************)
(* Counting.                                                               *)
(***************************************************************************)

\* A subset of the people is finite and has no more members than the whole.
LEMMA PeopleCount ==
  ASSUME NEW S \in SUBSET People
  PROVE  /\ IsFiniteSet(S) /\ Cardinality(S) \in Nat
         /\ Cardinality(People) \in Nat
         /\ Cardinality(S) <= Cardinality(People)
BY PeopleAssumption, FS_Subset, FS_CardinalityType

LEMMA OneOrNone ==
  ASSUME NEW S, S = {} \/ \E x : S = {x}
  PROVE  /\ IsFiniteSet(S) /\ Cardinality(S) \in {0, 1}
         /\ S # {} => Cardinality(S) = 1
         /\ S = {} => Cardinality(S) = 0
BY FS_EmptySet, FS_Singleton

\* What the sum of ClaimsCovered is made of.
Counted ==
    /\ IsFiniteSet(Claims) /\ Cardinality(Claims) \in Nat
    /\ \A c \in Callers : /\ Cardinality(inviter[c]) \in {0, 1}
                          /\ inviter[c] # {} => Cardinality(inviter[c]) = 1
                          /\ inviter[c] = {} => Cardinality(inviter[c]) = 0
    /\ Cardinality(Passed) \in {0, 1}
    /\ Passed # {} => Cardinality(Passed) = 1
    /\ Passed = {} => Cardinality(Passed) = 0
    /\ IsFiniteSet(offered) /\ Cardinality(offered) \in Nat

LEMMA ClaimsAreCounted == RegTypeOK /\ WaitTypeOK /\ OneAtATime => Counted
<1> SUFFICES ASSUME RegTypeOK, WaitTypeOK, OneAtATime
             PROVE  Counted
  OBVIOUS
<1>1. Claims \subseteq People
  BY DEF WaitTypeOK, Claims, Invited, RoundTask
<1>2. Passed = {} \/ \E t : Passed = {t}
  <2>1. \A t, u \in Passed : t = u
    BY DEF OneAtATime, Passed
  <2>2. ASSUME NEW t \in Passed
        PROVE  Passed = {t}
    BY <2>1
  <2>3. QED
    BY <2>2
<1>3. IsFiniteSet(offered) /\ Cardinality(offered) \in Nat
  BY AttendeesAssumption, FS_Subset, FS_CardinalityType DEF RegTypeOK
<1>4. ASSUME NEW c \in Callers
      PROVE  /\ Cardinality(inviter[c]) \in {0, 1}
             /\ inviter[c] # {} => Cardinality(inviter[c]) = 1
             /\ inviter[c] = {} => Cardinality(inviter[c]) = 0
  <2>1. inviter[c] = {} \/ \E x : inviter[c] = {x}
    BY DEF OneAtATime
  <2>2. QED
    BY <2>1, OneOrNone
<1>5. /\ Cardinality(Passed) \in {0, 1}
      /\ Passed # {} => Cardinality(Passed) = 1
      /\ Passed = {} => Cardinality(Passed) = 0
  BY <1>2, OneOrNone
<1>6. IsFiniteSet(Claims) /\ Cardinality(Claims) \in Nat
  BY <1>1, PeopleCount
<1>7. QED
  BY <1>3, <1>4, <1>5, <1>6 DEF Counted

\* A step that sends no claim and takes back no offer keeps them covered.
LEMMA FewerClaims ==
  ASSUME ClaimsCovered, Counted, Counted',
         Claims' \subseteq Claims, Passed' \subseteq Passed,
         inviter'["minute"] \subseteq inviter["minute"],
         inviter'["invitations"] \subseteq inviter["invitations"],
         offered \subseteq offered'
  PROVE  ClaimsCovered'
<1>1. Cardinality(Claims') <= Cardinality(Claims) /\ Cardinality(offered) <= Cardinality(offered')
  BY FS_Subset DEF Counted
<1>2. "minute" \in Callers /\ "invitations" \in Callers
  BY DEF Callers
<1>3. /\ Cardinality(inviter'["minute"]) <= Cardinality(inviter["minute"])
      /\ Cardinality(inviter'["invitations"]) <= Cardinality(inviter["invitations"])
      /\ Cardinality(Passed') <= Cardinality(Passed)
  BY <1>2 DEF Counted
<1>4. QED
  BY <1>1, <1>2, <1>3 DEF ClaimsCovered, Counted

-----------------------------------------------------------------------------
(***************************************************************************)
(* The table of entries and the queue.                                     *)
(***************************************************************************)

\* MAX(priority) exists, and no entry is above it: it is the least bound.
LEMMA MaxPriorityOf ==
  ASSUME WaitTypeOK, QueueBounded
  PROVE  MaxPriority \in 0..Cardinality(Listed)
<1> DEFINE Size == Cardinality(People)
           Bound(n) == \A p \in People : entry[p].priority <= n
           Bounds == {n \in 0..Size : Bound(n)}
           Reached(n) == n = 0 \/ \E p \in People : entry[p].priority = n
<1>1. Size \in Nat /\ Cardinality(Listed) \in Nat /\ Cardinality(Listed) <= Size
  BY PeopleCount DEF Listed
<1>2. \A p \in People : entry[p].priority \in 0..Size
  BY DEF WaitTypeOK, EntryRow
<1>3. Size \in Bounds
  BY <1>1, <1>2
<1>4. PICK n \in Bounds : \A m \in Bounds : ~(m < n)
  <2>1. PICK n \in Bounds : \A m \in Bounds : <<m, n>> \notin OpToRel(<, Nat)
    <3>1. Bounds \subseteq Nat /\ Bounds # {}
      BY <1>3
    <3>2. QED
      BY <3>1, NatLessThanWellFounded, WFMin
  <2>2. \A m \in Bounds : m < n => <<m, n>> \in OpToRel(<, Nat)
    BY DEF OpToRel
  <2>3. QED
    BY <2>1, <2>2
<1>5. Reached(n)
  <2>1. SUFFICES ASSUME n # 0, \A p \in People : entry[p].priority # n
                 PROVE  FALSE
    OBVIOUS
  <2>2. n - 1 \in 0..Size /\ Bound(n - 1)
    BY <1>1, <1>2, <2>1
  <2>3. QED
    BY <1>4, <2>2
<1>6. \E m \in 0..Size : Reached(m) /\ Bound(m)
  BY <1>5
<1>7. MaxPriority \in 0..Size /\ Reached(MaxPriority)
  BY <1>6 DEF MaxPriority
<1>8. QED
  BY <1>1, <1>7 DEF QueueBounded

\* What the save of an entry does to the table.
LEMMA EntrySaved ==
  ASSUME WaitTypeOK, QueueBounded, NEW p \in People, NEW s \in WaitlistStatus, SaveEntry(p, s)
  PROVE  /\ entry' \in [People -> EntryRow]
         /\ \A q \in People : /\ entry'[q].priority = entry[q].priority
                              /\ entry'[q].status = IF q = p THEN s ELSE entry[q].status
                              /\ entry'[q] = NoEntry => entry[q] = NoEntry
         /\ Cardinality(Listed') \in Nat /\ Cardinality(Listed) \in Nat
         /\ Cardinality(Listed) <= Cardinality(Listed')
<1>1. \A q \in People : entry'[q] = IF q = p THEN [entry[q] EXCEPT !.status = s] ELSE entry[q]
  BY DEF SaveEntry, WaitTypeOK
<1>2. entry' \in [People -> EntryRow]
  BY DEF SaveEntry, WaitTypeOK, EntryRow
<1>3. \A q \in People : /\ entry'[q].priority = entry[q].priority
                        /\ entry'[q].status = IF q = p THEN s ELSE entry[q].status
  BY <1>1 DEF WaitTypeOK, EntryRow
<1>4. \A q \in People : entry'[q] = NoEntry => entry[q] = NoEntry
  <2>1. NoEntry.status = "ABSENT" /\ s # "ABSENT"
    BY DEF NoEntry, WaitlistStatus
  <2>2. \A q \in People \ {p} : entry'[q] = entry[q]
    BY <1>1
  <2>3. entry'[p] # NoEntry
    BY <1>3, <2>1
  <2>4. QED
    BY <2>2, <2>3
<1>5. Listed \subseteq Listed' /\ Listed' \subseteq People
  BY <1>4 DEF Listed
<1>6. IsFiniteSet(Listed')
  BY <1>5, PeopleCount
<1>7. QED
  BY <1>2, <1>3, <1>4, <1>5, <1>6, PeopleCount, FS_Subset DEF Listed

\* A save of an entry by a request or job that adds no request to join.
LEMMA SavedQueue ==
  ASSUME WaitTypeOK, QueueBounded, NEW p \in People, NEW s \in WaitlistStatus, SaveEntry(p, s),
         asking' \in [People -> SUBSET AskTask],
         \A q \in People : asking'[q] \subseteq asking[q]
  PROVE  entry' \in [People -> EntryRow] /\ QueueBounded'
<1>1. \A q \in People : entry[q].priority \in Nat /\ \A t \in asking[q] : t.priority \in Nat
  BY PeopleCount DEF WaitTypeOK, EntryRow, AskTask
<1>2. QED
  BY <1>1, EntrySaved DEF QueueBounded

\* The entries are left alone and no request to join is added.
LEMMA SameQueue ==
  ASSUME QueueBounded, UNCHANGED entry, \A q \in People : asking'[q] \subseteq asking[q]
  PROVE  QueueBounded'
BY DEF QueueBounded, Listed

-----------------------------------------------------------------------------
(***************************************************************************)
(* The steps.                                                              *)
(***************************************************************************)

\* Whoever joins, leaves or waits sends no invitation.
LEMMA PersonKeeps ==
  ASSUME WaitIInv, NEW p \in People, PersonNext(p)
  PROVE  WaitIInv'
<1> USE DEF WaitIInv
<1>1. UNCHANGED <<regVars, inviter, round>>
  BY DEF PersonNext, JoinRead, JoinInsert, LeaveRead, LeaveSave, AskFail, Lapse
<1>2. RegIInv' /\ OneAtATime' /\ BatchUnoffered'
  BY <1>1, RegIInvStep DEF regVars, OneAtATime, BatchUnoffered
<1>3. WaitTypeOK' /\ QueueBounded' /\ Invited' \subseteq Invited
  <2>0. Cardinality(Listed) \in Nat /\ Cardinality(People) \in Nat
        /\ Cardinality(Listed) <= Cardinality(People)
    BY PeopleCount DEF Listed
  <2>1. CASE JoinRead(p)
    <3>1. MaxPriority \in 0..Cardinality(Listed)
      BY MaxPriorityOf
    <3>2. UNCHANGED <<entry, inviter, lapsed, round>>
          /\ asking' = [asking EXCEPT ![p] = {[step |-> "join", priority |-> MaxPriority + 1]}]
      BY <2>1 DEF JoinRead
    <3>3. [step |-> "join", priority |-> MaxPriority + 1] \in AskTask
      BY <2>0, <3>1 DEF AskTask
    <3>4. \A q \in People : asking'[q] = IF q = p THEN {[step |-> "join", priority |-> MaxPriority + 1]}
                                                  ELSE asking[q]
      BY <3>2 DEF WaitTypeOK
    <3>5. WaitTypeOK'
      BY <3>2, <3>3 DEF WaitTypeOK
    <3>6. QueueBounded'
      <4>1. Listed' = Listed
        BY <3>2 DEF Listed
      <4>2. MaxPriority + 1 <= Cardinality(Listed) + 1
        BY <2>0, <3>1
      <4>3. QED
        BY <3>2, <3>4, <4>1, <4>2 DEF QueueBounded
    <3>7. QED
      BY <3>2, <3>5, <3>6 DEF Invited
  <2>2. ASSUME NEW t \in asking[p], JoinInsert(p, t)
        PROVE  WaitTypeOK' /\ QueueBounded' /\ Invited' \subseteq Invited
    <3> DEFINE new == [status |-> "WAITING", priority |-> t.priority]
    <3>1. /\ t.step = "join" /\ entry[p] = NoEntry
          /\ entry' = [entry EXCEPT ![p] = new]
          /\ asking' = [asking EXCEPT ![p] = {}]
          /\ UNCHANGED <<inviter, round, lapsed>>
      BY <2>2 DEF JoinInsert
    <3>2. t \in AskTask /\ t.priority \in Nat
      BY <2>0 DEF WaitTypeOK, AskTask
    <3>3. \A q \in People : /\ entry'[q] = IF q = p THEN new ELSE entry[q]
                            /\ asking'[q] \subseteq asking[q]
      BY <3>1 DEF WaitTypeOK
    <3>4. new # NoEntry
      BY DEF NoEntry
    <3>5. Listed' = Listed \cup {p} /\ p \notin Listed
      BY <3>1, <3>3, <3>4 DEF Listed
    <3>6. Cardinality(Listed') = Cardinality(Listed) + 1
      BY <3>5, FS_AddElement, PeopleCount DEF Listed
    <3>7. Cardinality(Listed') <= Cardinality(People)
      BY PeopleCount DEF Listed
    <3>8. t.priority <= Cardinality(Listed) + 1
      BY <3>1 DEF QueueBounded
    <3>9. WaitTypeOK'
      <4>1. new \in EntryRow
        BY <2>0, <3>2, <3>6, <3>7, <3>8 DEF EntryRow, WaitlistStatus
      <4>2. QED
        BY <3>1, <4>1 DEF WaitTypeOK
    <3>10. QueueBounded'
      <4>1. \A q \in People : entry[q].priority \in Nat /\ \A u \in asking[q] : u.priority \in Nat
        BY <2>0 DEF WaitTypeOK, EntryRow, AskTask
      <4>2. \A q \in People : entry'[q].priority <= Cardinality(Listed')
        BY <2>0, <3>2, <3>3, <3>6, <3>8, <4>1 DEF QueueBounded
      <4>3. \A q \in People : entry'[q] = NoEntry => entry[q] = NoEntry
        BY <3>3, <3>4
      <4>4. QED
        BY <2>0, <3>3, <3>6, <4>1, <4>2, <4>3 DEF QueueBounded
    <3>11. Invited' \subseteq Invited
      BY <3>3 DEF Invited
    <3>12. QED
      BY <3>9, <3>10, <3>11
  <2>3. CASE LeaveRead(p)
    <3> DEFINE new == [step |-> "leave", priority |-> entry[p].priority]
    <3>1. UNCHANGED <<entry, inviter, lapsed, round>> /\ asking' = [asking EXCEPT ![p] = {new}]
      BY <2>3 DEF LeaveRead
    <3>2. new \in AskTask
      BY <2>0 DEF WaitTypeOK, EntryRow, AskTask
    <3>3. WaitTypeOK'
      BY <3>1, <3>2 DEF WaitTypeOK
    <3>4. QueueBounded'
      BY <3>1 DEF QueueBounded, WaitTypeOK, Listed
    <3>5. QED
      BY <3>1, <3>3, <3>4 DEF Invited
  <2>4. ASSUME NEW t \in asking[p], LeaveSave(p, t)
        PROVE  WaitTypeOK' /\ QueueBounded' /\ Invited' \subseteq Invited
    <3>1. SaveEntry(p, "CANCELLED") /\ asking' = [asking EXCEPT ![p] = {}]
          /\ UNCHANGED <<inviter, round, lapsed>>
      BY <2>4 DEF LeaveSave
    <3>2. "CANCELLED" \in WaitlistStatus
      BY DEF WaitlistStatus
    <3>3. asking' \in [People -> SUBSET AskTask] /\ \A q \in People : asking'[q] \subseteq asking[q]
      BY <3>1 DEF WaitTypeOK
    <3>4. entry' \in [People -> EntryRow] /\ QueueBounded'
      BY <3>1, <3>2, <3>3, SavedQueue
    <3>5. Invited' \subseteq Invited
      BY <3>1, <3>2, EntrySaved DEF Invited
    <3>6. QED
      BY <3>1, <3>3, <3>4, <3>5 DEF WaitTypeOK
  <2>5. CASE AskFail(p)
    <3>1. UNCHANGED <<entry, inviter, lapsed, round>> /\ asking' = [asking EXCEPT ![p] = {}]
      BY <2>5 DEF AskFail
    <3>2. WaitTypeOK' /\ \A q \in People : asking'[q] \subseteq asking[q]
      BY <3>1 DEF WaitTypeOK
    <3>3. QED
      BY <3>1, <3>2, SameQueue DEF Invited
  <2>6. CASE Lapse(p)
    <3>1. UNCHANGED <<entry, asking, inviter, round>> /\ lapsed' = lapsed \cup {p}
      BY <2>6 DEF Lapse
    <3>2. QED
      BY <3>1, SameQueue DEF WaitTypeOK, Invited
  <2>7. QED
    BY <2>1, <2>2, <2>3, <2>4, <2>5, <2>6 DEF PersonNext
<1>4. Claims' \subseteq Claims /\ Passed' = Passed
  BY <1>1, <1>3 DEF Claims, Passed
<1>5. Counted /\ Counted'
  BY <1>2, <1>3, ClaimsAreCounted, PTL DEF RegIInv
<1>6. ClaimsCovered'
  BY <1>1, <1>4, <1>5, FewerClaims DEF regVars
<1>7. QED
  BY <1>2, <1>3, <1>6

\* Steps of Registrations that leave the list alone and offer no seat.
LEMMA QuietStep ==
  ASSUME WaitIInv, RegIInv', BatchUnoffered', UNCHANGED listVars, offered \subseteq offered'
  PROVE  WaitIInv'
<1>1. UNCHANGED <<entry, asking, inviter, lapsed, round>>
  BY DEF listVars
<1>2. WaitTypeOK' /\ QueueBounded' /\ OneAtATime'
  BY <1>1, SameQueue DEF WaitIInv, WaitTypeOK, OneAtATime
<1>3. Claims' = Claims /\ Passed' = Passed
  BY <1>1 DEF Claims, Passed, Invited
<1>4. Counted /\ Counted'
  BY <1>2, ClaimsAreCounted, PTL DEF RegIInv, WaitIInv
<1>5. ClaimsCovered'
  BY <1>1, <1>3, <1>4, FewerClaims DEF WaitIInv
<1>6. QED
  BY <1>2, <1>5 DEF WaitIInv

\* No batch grows and no seat is offered.
LEMMA SameOffers ==
  ASSUME BatchUnoffered, UNCHANGED offered, \A k \in CronJobs : sweep'[k] \subseteq sweep[k]
  PROVE  BatchUnoffered'
BY DEF BatchUnoffered

LEMMA RegistrationsKeep ==
  ASSUME WaitIInv, RegistrationsStep
  PROVE  WaitIInv'
<1> USE DEF WaitIInv
<1>1. RegNext /\ UNCHANGED listVars
  BY DEF RegistrationsStep, RegNext
<1>2. UNCHANGED offered /\ \A k \in CronJobs : sweep'[k] \subseteq sweep[k]
  BY DEF RegistrationsStep, Create, Deadline, SweepAbort, RegIInv, RegTypeOK
<1>3. RegIInv'
  BY <1>1, RegIInvStep
<1>4. QED
  BY <1>1, <1>2, <1>3, SameOffers, QuietStep

\* The expiry jobs but for what they do with the list.
LEMMA SweepKeeps ==
  ASSUME WaitIInv, NEW k \in CronJobs, UNCHANGED listVars,
         \/ SweepFind(k)
         \/ \E t \in sweep[k] : SweepSave(k, t)
         \/ /\ ~(k = "minute" /\ AllowsWaitlist)
            /\ \E t \in sweep[k] : SweepAnnounce(k, t)
  PROVE  WaitIInv'
<1> USE DEF WaitIInv
<1>1. RegIInv'
  BY RegIInvStep DEF RegNext
<1>2. CASE SweepFind(k)
  <2> DEFINE batch == {[id |-> a, row |-> reg[a], saved |-> FALSE] :
                          a \in {x \in Attendees : Expirable(x)}}
  <2>1. UNCHANGED offered /\ \A j \in CronJobs : sweep'[j] = IF j = k THEN batch ELSE sweep[j]
    BY <1>2 DEF SweepFind, RegIInv, RegTypeOK
  <2>2. \A t \in batch : t.id \notin offered
    BY DEF Expirable, RegIInv, AnnouncedAreExpired
  <2>3. \A t, u \in batch : t.id = u.id => t = u
    <3>1. \A t \in batch : t = [id |-> t.id, row |-> reg[t.id], saved |-> FALSE]
      OBVIOUS
    <3>2. QED
      BY <3>1
  <2>4. BatchUnoffered'
    BY <2>1, <2>2, <2>3 DEF BatchUnoffered
  <2>5. QED
    BY <1>1, <2>1, <2>4, QuietStep
<1>3. ASSUME NEW t \in sweep[k], SweepSave(k, t)
      PROVE  WaitIInv'
  <2> DEFINE new == [t EXCEPT !.saved = TRUE]
  <2>1. UNCHANGED offered
        /\ \A j \in CronJobs : sweep'[j] = IF j = k THEN (sweep[k] \ {t}) \cup {new} ELSE sweep[j]
    BY <1>3 DEF SweepSave, RegIInv, RegTypeOK
  <2>2. new.id = t.id
    BY DEF RegIInv, RegTypeOK, SweepTask
  <2>3. BatchUnoffered'
    <3> SUFFICES ASSUME k = "minute"
                 PROVE  /\ \A u \in sweep'[k] : u.id \notin offered
                        /\ \A u, v \in sweep'[k] : u.id = v.id => u = v
      BY <2>1 DEF BatchUnoffered
    <3>1. /\ \A u \in sweep[k] : u.id \notin offered
          /\ \A u, v \in sweep[k] : u.id = v.id => u = v
      BY DEF BatchUnoffered
    <3>2. \A u \in sweep'[k] : u = new \/ (u \in sweep[k] /\ u # t)
      BY <2>1
    <3> HIDE DEF new
    <3>3. QED
      BY <2>2, <3>1, <3>2
  <2>4. QED
    BY <1>1, <2>1, <2>3, QuietStep
<1>4. ASSUME ~(k = "minute" /\ AllowsWaitlist), NEW t \in sweep[k], SweepAnnounce(k, t)
      PROVE  WaitIInv'
  <2>1. UNCHANGED offered /\ \A j \in CronJobs : sweep'[j] \subseteq sweep[j]
    BY <1>4 DEF SweepAnnounce, RegIInv, RegTypeOK
  <2>2. QED
    BY <1>1, <2>1, SameOffers, QuietStep
<1>5. QED
  BY <1>2, <1>3, <1>4

\* A caller takes the next person: what it holds before and after.
LEMMA NextFound ==
  ASSUME WaitTypeOK, OneAtATime, NEW c \in Callers, NEW chosen, FindNext(c, chosen)
  PROVE  /\ inviter[c] = {}
         /\ inviter' \in [Callers -> SUBSET People]
         /\ \A d \in Callers : inviter'[d] = {} \/ \E p \in People : inviter'[d] = {p}
         /\ \A d \in Callers : inviter'[d] = IF d = c THEN chosen ELSE inviter[d]
<1>1. inviter[c] = {} /\ inviter' = [inviter EXCEPT ![c] = chosen]
      /\ (chosen = {} \/ \E p \in People : chosen = {p})
  BY DEF FindNext
<1>2. chosen \subseteq People
  BY <1>1
<1>3. QED
  BY <1>1, <1>2 DEF WaitTypeOK, OneAtATime

\* The minute job offers a seat for the first time, and one person is chosen
\* for it.
LEMMA ReleaseKeeps ==
  ASSUME WaitIInv, "minute" \in CronJobs, NEW t \in sweep["minute"], NEW chosen,
         Release(t, chosen)
  PROVE  WaitIInv'
<1> USE DEF WaitIInv
<1>1. RegIInv'
  BY RegIInvStep DEF Release, RegNext
<1>2. /\ UNCHANGED <<entry, asking, lapsed, round>>
      /\ offered' = offered \cup {t.id}
      /\ \A k \in CronJobs : sweep'[k] = IF k = "minute" THEN sweep[k] \ {t} ELSE sweep[k]
  BY DEF Release, SweepAnnounce, RegIInv, RegTypeOK
<1>3. /\ inviter["minute"] = {}
      /\ inviter' \in [Callers -> SUBSET People]
      /\ \A d \in Callers : inviter'[d] = {} \/ \E p \in People : inviter'[d] = {p}
      /\ \A d \in Callers : inviter'[d] = IF d = "minute" THEN chosen ELSE inviter[d]
  BY NextFound DEF Release, Callers
<1>4. WaitTypeOK' /\ QueueBounded' /\ OneAtATime'
  BY <1>2, <1>3, SameQueue DEF WaitTypeOK, OneAtATime
<1>5. t.id \notin offered
  BY DEF BatchUnoffered
<1>6. BatchUnoffered'
  BY <1>2 DEF BatchUnoffered
<1>7. Counted /\ Counted'
  BY <1>1, <1>4, ClaimsAreCounted, PTL DEF RegIInv
<1>8. Cardinality(offered') = Cardinality(offered) + 1
  BY <1>2, <1>5, <1>7, FS_AddElement DEF Counted
<1>9. Claims' = Claims /\ Passed' = Passed /\ inviter'["invitations"] = inviter["invitations"]
  BY <1>2, <1>3 DEF Claims, Passed, Invited, Callers
<1>10. Cardinality(inviter'["minute"]) \in {0, 1} /\ Cardinality(inviter["minute"]) = 0
       /\ Cardinality(inviter["invitations"]) \in {0, 1} /\ Cardinality(Passed) \in {0, 1}
       /\ Cardinality(Claims) \in Nat /\ Cardinality(offered) \in Nat
  BY <1>3, <1>7 DEF Counted, Callers
<1>11. ClaimsCovered'
  BY <1>8, <1>9, <1>10 DEF ClaimsCovered
<1>12. QED
  BY <1>1, <1>4, <1>6, <1>11

\* inviteNext() saves: what was about to be sent is in force.
LEMMA InviteKeeps ==
  ASSUME WaitIInv, NEW c \in Callers, InviteSave(c)
  PROVE  WaitIInv'
<1> USE DEF WaitIInv
<1>1. PICK p \in inviter[c] : /\ SaveEntry(p, "INVITED")
                              /\ lapsed' = lapsed \ {p}
                              /\ inviter' = [inviter EXCEPT ![c] = {}]
                              /\ UNCHANGED <<regVars, asking, round>>
  BY DEF InviteSave
<1>2. p \in People /\ "INVITED" \in WaitlistStatus
  BY DEF WaitTypeOK, WaitlistStatus
<1>3. entry' \in [People -> EntryRow] /\ QueueBounded'
  BY <1>1, <1>2, SavedQueue DEF WaitTypeOK
<1>4. \A d \in Callers : inviter'[d] = IF d = c THEN {} ELSE inviter[d]
  BY <1>1 DEF WaitTypeOK
<1>5. WaitTypeOK' /\ OneAtATime'
  BY <1>1, <1>3, <1>4 DEF WaitTypeOK, OneAtATime
<1>6. RegIInv' /\ BatchUnoffered'
  BY <1>1, RegIInvStep DEF regVars, BatchUnoffered
<1>7. Counted /\ Counted'
  BY <1>5, <1>6, ClaimsAreCounted, PTL DEF RegIInv
<1>8. Invited' \subseteq Invited \cup {p}
  BY <1>1, <1>2, EntrySaved DEF Invited
<1>9. Claims' \subseteq Claims \cup {p} /\ Passed' = Passed
  BY <1>1, <1>8 DEF Claims, Passed
<1>10. /\ IsFiniteSet(Claims \cup {p})
       /\ Cardinality(Claims \cup {p}) = Cardinality(Claims)
            \/ Cardinality(Claims \cup {p}) = Cardinality(Claims) + 1
  BY <1>7, FS_AddElement DEF Counted
<1>11. Cardinality(Claims') <= Cardinality(Claims \cup {p})
  BY <1>9, <1>10, FS_Subset
<1>12. Cardinality(inviter[c]) = 1 /\ Cardinality(inviter'[c]) = 0
  BY <1>4, <1>7 DEF Counted
<1>13. \A d \in Callers \ {c} : inviter'[d] = inviter[d]
  BY <1>4
<1>14. ClaimsCovered'
  <2>1. Cardinality(inviter'["minute"]) + Cardinality(inviter'["invitations"]) + 1
          = Cardinality(inviter["minute"]) + Cardinality(inviter["invitations"])
    <3>1. CASE c = "minute"
      BY <1>7, <1>12, <1>13, <3>1 DEF Counted, Callers
    <3>2. CASE c = "invitations"
      BY <1>7, <1>12, <1>13, <3>2 DEF Counted, Callers
    <3>3. QED
      BY <3>1, <3>2 DEF Callers
  <2>2. /\ Cardinality(Claims) \in Nat /\ Cardinality(Claims') \in Nat
        /\ Cardinality(Passed) \in Nat
        /\ \A d \in Callers : Cardinality(inviter[d]) \in Nat /\ Cardinality(inviter'[d]) \in Nat
    BY <1>7 DEF Counted
  <2>3. Cardinality(Claims') <= Cardinality(Claims) + 1
    BY <1>10, <1>11, <2>2
  <2>4. UNCHANGED offered /\ Cardinality(offered) \in Nat
    BY <1>1, <1>7 DEF regVars, Counted
  <2>5. QED
    BY <1>9, <2>1, <2>2, <2>3, <2>4 DEF ClaimsCovered, Callers
<1>15. QED
  BY <1>3, <1>5, <1>6, <1>14

\* The start of a round makes no new claim: its entries are INVITED.
LEMMA RoundFindKeeps ==
  ASSUME WaitIInv, RoundFind
  PROVE  WaitIInv'
<1> USE DEF WaitIInv
<1>1. /\ round = {} /\ round' = [id : LapsedEntries, saved : {FALSE}]
      /\ UNCHANGED <<regVars, entry, asking, inviter, lapsed>>
  BY DEF RoundFind
<1>2. LapsedEntries \subseteq Invited /\ Invited \subseteq People /\ Invited' = Invited
  BY <1>1 DEF LapsedEntries, Invited
<1>3. \A t \in round' : t.id \in Invited /\ ~t.saved /\ t = [id |-> t.id, saved |-> FALSE]
  <2> SUFFICES ASSUME NEW t \in [id : LapsedEntries, saved : {FALSE}]
               PROVE  t.id \in Invited /\ ~t.saved /\ t = [id |-> t.id, saved |-> FALSE]
    BY <1>1
  <2>1. t.id \in LapsedEntries /\ t.saved = FALSE
    OBVIOUS
  <2>2. t = [id |-> t.id, saved |-> t.saved]
    OBVIOUS
  <2>3. QED
    BY <1>2, <2>1, <2>2
<1>4. WaitTypeOK' /\ QueueBounded'
  BY <1>1, <1>2, <1>3, SameQueue DEF WaitTypeOK, RoundTask
<1>5. OneAtATime'
  BY <1>1, <1>3 DEF OneAtATime
<1>6. RegIInv' /\ BatchUnoffered'
  BY <1>1, RegIInvStep DEF regVars, BatchUnoffered
<1>7. Claims' \subseteq Claims /\ Passed' \subseteq Passed
  BY <1>1, <1>2, <1>3 DEF Claims, Passed
<1>8. Counted /\ Counted'
  BY <1>4, <1>5, <1>6, ClaimsAreCounted, PTL DEF RegIInv
<1>9. ClaimsCovered'
  BY <1>1, <1>7, <1>8, FewerClaims DEF regVars
<1>10. QED
  BY <1>4, <1>5, <1>6, <1>9

\* An entry of the batch becomes EXPIRED, and its claim is passed on.
LEMMA RoundSaveKeeps ==
  ASSUME WaitIInv, NEW t \in round, RoundSave(t)
  PROVE  WaitIInv'
<1> USE DEF WaitIInv
<1> DEFINE new == [t EXCEPT !.saved = TRUE]
<1>1. /\ \A u \in round : ~u.saved
      /\ SaveEntry(t.id, "EXPIRED")
      /\ round' = (round \ {t}) \cup {new}
      /\ UNCHANGED <<regVars, asking, inviter, lapsed>>
  BY DEF RoundSave
<1>2. t.id \in People /\ "EXPIRED" \in WaitlistStatus /\ new \in RoundTask
      /\ new.id = t.id /\ new.saved
  BY DEF WaitTypeOK, RoundTask, WaitlistStatus
<1> HIDE DEF new
<1>3. entry' \in [People -> EntryRow] /\ QueueBounded'
  BY <1>1, <1>2, SavedQueue DEF WaitTypeOK
<1>4. WaitTypeOK'
  BY <1>1, <1>2, <1>3 DEF WaitTypeOK
<1>5. \A u \in round : u.id = t.id => u = t
  BY DEF OneAtATime
<1>6. OneAtATime'
  <2>1. \A u \in round' : u = new \/ (u \in round /\ u.id # t.id /\ ~u.saved)
    BY <1>1, <1>5
  <2>2. QED
    BY <1>1, <1>2, <2>1 DEF OneAtATime
<1>7. RegIInv' /\ BatchUnoffered'
  BY <1>1, RegIInvStep DEF regVars, BatchUnoffered
<1>8. Counted /\ Counted'
  BY <1>4, <1>6, <1>7, ClaimsAreCounted, PTL DEF RegIInv
<1>9. Passed = {} /\ Passed' # {}
  BY <1>1, <1>2 DEF Passed
<1>10. t.id \in Claims /\ Claims' \subseteq Claims \ {t.id}
  <2>1. Invited' \subseteq Invited \ {t.id}
    BY <1>1, <1>2, EntrySaved DEF Invited
  <2>2. \A u \in round' : ~u.saved => u \in round /\ u.id # t.id
    BY <1>1, <1>2, <1>5
  <2>3. t.id \in Claims
    BY <1>1 DEF Claims
  <2>4. QED
    BY <2>1, <2>2, <2>3 DEF Claims
<1>11. Cardinality(Claims') <= Cardinality(Claims) - 1
  <2>1. IsFiniteSet(Claims \ {t.id}) /\ Cardinality(Claims \ {t.id}) = Cardinality(Claims) - 1
    BY <1>8, <1>10, FS_RemoveElement DEF Counted
  <2>2. Cardinality(Claims') <= Cardinality(Claims \ {t.id})
    BY <1>10, <2>1, FS_Subset
  <2>3. QED
    BY <2>1, <2>2
<1>12. UNCHANGED <<inviter, offered>>
  BY <1>1 DEF regVars
<1>13. Cardinality(Passed) = 0 /\ Cardinality(Passed') = 1
       /\ Cardinality(Claims) \in Nat /\ Cardinality(Claims') \in Nat
       /\ Cardinality(offered) \in Nat
       /\ Cardinality(inviter["minute"]) \in Nat /\ Cardinality(inviter["invitations"]) \in Nat
  BY <1>8, <1>9 DEF Counted, Callers
<1>14. ClaimsCovered'
  BY <1>11, <1>12, <1>13 DEF ClaimsCovered
<1>15. QED
  BY <1>3, <1>4, <1>6, <1>7, <1>14

\* What was passed on is about to be sent to the next person, or to nobody.
LEMMA RoundInviteKeeps ==
  ASSUME WaitIInv, NEW t \in round, NEW chosen, RoundInvite(t, chosen)
  PROVE  WaitIInv'
<1> USE DEF WaitIInv
<1>1. /\ t.saved /\ round' = round \ {t}
      /\ UNCHANGED <<regVars, entry, asking, lapsed>>
  BY DEF RoundInvite
<1>2. /\ inviter["invitations"] = {}
      /\ inviter' \in [Callers -> SUBSET People]
      /\ \A d \in Callers : inviter'[d] = {} \/ \E p \in People : inviter'[d] = {p}
      /\ \A d \in Callers : inviter'[d] = IF d = "invitations" THEN chosen ELSE inviter[d]
  BY NextFound DEF RoundInvite, Callers
<1>3. WaitTypeOK' /\ QueueBounded' /\ OneAtATime'
  BY <1>1, <1>2, SameQueue DEF WaitTypeOK, OneAtATime
<1>4. RegIInv' /\ BatchUnoffered'
  BY <1>1, RegIInvStep DEF regVars, BatchUnoffered
<1>5. Counted /\ Counted'
  BY <1>3, <1>4, ClaimsAreCounted, PTL DEF RegIInv
<1>6. Passed # {} /\ Passed' = {}
  BY <1>1 DEF Passed, OneAtATime
<1>7. Claims' = Claims
  BY <1>1 DEF Claims, Invited
<1>8. /\ Cardinality(Passed) = 1 /\ Cardinality(Passed') = 0
      /\ Cardinality(inviter["invitations"]) = 0 /\ Cardinality(inviter'["invitations"]) \in {0, 1}
      /\ inviter'["minute"] = inviter["minute"] /\ Cardinality(inviter["minute"]) \in Nat
      /\ Cardinality(Claims) \in Nat /\ Cardinality(offered) \in Nat
  BY <1>2, <1>5, <1>6 DEF Counted, Callers
<1>9. ClaimsCovered'
  BY <1>1, <1>7, <1>8 DEF ClaimsCovered, regVars
<1>10. QED
  BY <1>3, <1>4, <1>9

\* A round, or a call of inviteNext(), that dies forgets its claims.
LEMMA FailureKeeps ==
  ASSUME WaitIInv, RoundAbort \/ InviteFail
  PROVE  WaitIInv'
<1> USE DEF WaitIInv
<1>1. /\ aborts < MaxAborts /\ aborts' = aborts + 1
      /\ round' \subseteq round
      /\ UNCHANGED <<reg, overdue, sweep, offered, told, entry, asking, lapsed>>
  BY DEF RoundAbort, InviteFail
<1>2. PICK c \in Callers : inviter' = [inviter EXCEPT ![c] = {}]
  BY DEF RoundAbort, InviteFail, Callers
<1>3. \A d \in Callers : inviter'[d] = {} \/ inviter'[d] = inviter[d]
  BY <1>2 DEF WaitTypeOK
<1>4. WaitTypeOK' /\ QueueBounded' /\ OneAtATime' /\ BatchUnoffered'
  BY <1>1, <1>2, <1>3, SameQueue DEF WaitTypeOK, OneAtATime, BatchUnoffered
<1>5. RegIInv'
  <2>1. RegTypeOK'
    BY <1>1, AbortsAssumption DEF RegIInv, RegTypeOK
  <2>2. BatchKnows' /\ PendingCosts' /\ NoEarlyExpiry' /\ AnnouncedAreExpired' /\ CountedWithinStock'
    BY <1>1 DEF RegIInv, BatchKnows, PendingCosts, NoEarlyExpiry, AnnouncedAreExpired,
                CountedWithinStock, Reserved
  <2>3. QED
    BY <2>1, <2>2 DEF RegIInv
<1>6. Claims' \subseteq Claims /\ Passed' \subseteq Passed
  BY <1>1 DEF Claims, Passed, Invited
<1>7. Counted /\ Counted'
  BY <1>4, <1>5, ClaimsAreCounted, PTL DEF RegIInv
<1>8. ClaimsCovered'
  BY <1>1, <1>3, <1>6, <1>7, FewerClaims DEF Callers
<1>9. QED
  BY <1>4, <1>5, <1>8

LEMMA WaitIInvInit == WaitInit => WaitIInv
<1> SUFFICES ASSUME WaitInit
             PROVE  WaitIInv
  OBVIOUS
<1> USE DEF WaitInit, ListInit
<1>1. RegIInv
  BY RegIInvInit
<1>2. Cardinality(People) \in Nat /\ Cardinality({}) = 0 /\ Cardinality(Listed) \in Nat
  BY PeopleCount, FS_EmptySet DEF Listed
<1>3. WaitTypeOK
  BY <1>2 DEF WaitTypeOK, EntryRow, NoEntry
<1>4. QueueBounded
  BY <1>2 DEF QueueBounded, NoEntry
<1>5. OneAtATime /\ BatchUnoffered
  BY DEF OneAtATime, BatchUnoffered, RegInit
<1>6. Claims = {} /\ Passed = {} /\ offered = {}
  BY DEF Claims, Passed, Invited, NoEntry, RegInit
<1>7. ClaimsCovered
  BY <1>2, <1>6 DEF ClaimsCovered, Callers
<1>8. QED
  BY <1>1, <1>3, <1>4, <1>5, <1>7 DEF WaitIInv

LEMMA WaitIInvStep == WaitIInv /\ [WaitNext]_waitVars => WaitIInv'
<1> SUFFICES ASSUME WaitIInv, [WaitNext]_waitVars
             PROVE  WaitIInv'
  OBVIOUS
<1>1. CASE UNCHANGED waitVars
  <2>1. UNCHANGED listVars /\ UNCHANGED regVars
    BY <1>1 DEF waitVars
  <2>2. RegIInv' /\ BatchUnoffered'
    BY <2>1, RegIInvStep DEF WaitIInv, regVars, BatchUnoffered
  <2>3. QED
    BY <2>1, <2>2, QuietStep DEF regVars
<1>2. CASE RegistrationsStep
  BY <1>2, RegistrationsKeep
<1>3. ASSUME NEW k \in CronJobs, JobNext(k)
      PROVE  WaitIInv'
  <2>1. CASE k = "minute" /\ \E t \in sweep[k], chosen \in SUBSET People : Release(t, chosen)
    BY <2>1, ReleaseKeeps
  <2>2. CASE k = "minute" /\ InviteSave(k)
    BY <2>2, InviteKeeps DEF Callers
  <2>3. CASE /\ UNCHANGED listVars
             /\ \/ SweepFind(k)
                \/ \E t \in sweep[k] : SweepSave(k, t)
                \/ /\ ~(k = "minute" /\ AllowsWaitlist)
                   /\ \E t \in sweep[k] : SweepAnnounce(k, t)
    BY <2>3, SweepKeeps
  <2>4. QED
    BY <1>3, <2>1, <2>2, <2>3 DEF JobNext
<1>4. CASE RoundNext
  BY <1>4, RoundFindKeeps, RoundSaveKeeps, RoundInviteKeeps, InviteKeeps DEF RoundNext, Callers
<1>5. CASE RoundAbort \/ InviteFail
  BY <1>5, FailureKeeps
<1>6. ASSUME NEW p \in People, PersonNext(p)
      PROVE  WaitIInv'
  BY <1>6, PersonKeeps
<1>7. QED
  BY <1>1, <1>2, <1>3, <1>4, <1>5, <1>6 DEF WaitNext

THEOREM WaitInvariant == WaitSpec => []WaitIInv
BY WaitIInvInit, WaitIInvStep, PTL DEF WaitSpec

\* Type correctness of the list; that a priority stays within the number of
\* people takes the existence of MAX(priority).
THEOREM WaitTypeCorrect == WaitSpec => []WaitTypeOK
BY WaitInvariant, PTL DEF WaitIInv

\* Two jobs that invite, late saves, people who leave and rounds that die never
\* put out more invitations than seats were released for.
THEOREM InvitationsCovered == WaitSpec => []InvitationsHaveSeat
<1>1. WaitIInv => InvitationsHaveSeat
  <2> SUFFICES ASSUME WaitIInv
               PROVE  InvitationsHaveSeat
    OBVIOUS
  <2>1. Counted
    BY ClaimsAreCounted DEF WaitIInv, RegIInv
  <2>2. Invited \subseteq Claims
    BY DEF Claims
  <2>3. Cardinality(Invited) <= Cardinality(Claims) /\ Cardinality(Invited) \in Nat
    BY <2>1, <2>2, FS_Subset, FS_CardinalityType DEF Counted
  <2>4. QED
    BY <2>1, <2>3 DEF WaitIInv, ClaimsCovered, InvitationsHaveSeat, Passed, Counted, Callers
<1>2. QED
  BY <1>1, WaitInvariant, PTL

\* Beside the waiting list, too, create() holds the stock and only the late
\* expire.
THEOREM ListKeepsSeats == WaitSpec => [](CountedWithinStock /\ NoEarlyExpiry)
<1>1. WaitIInv => CountedWithinStock /\ NoEarlyExpiry
  BY DEF WaitIInv, RegIInv
<1>2. QED
  BY <1>1, WaitInvariant, PTL

=============================================================================

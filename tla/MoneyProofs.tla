---------------------------- MODULE MoneyProofs ----------------------------
(***************************************************************************)
(* No seat without money, and the refinement of SeatLedger, for the whole  *)
(* composition: create(), the cron jobs, the desks and the payment         *)
(* requests, for every number of each.  Then the same with refunds and     *)
(* chargebacks, and no money back without money or approval.               *)
(*                                                                         *)
(* Every handler writes back rows it read before, so "paid" has to hold of *)
(* what the handlers hold in memory and of the step each of them has       *)
(* reached, not only of the tables (DesksPaid, TellersKnow).               *)
(***************************************************************************)
EXTENDS Disputes, SeatsProofs

\* A row that says the seat is held says the truth about the money.
Settled(a, row) ==
    row.status \in {"CONFIRMED", "ATTENDED"} => row.free \/ Vouched(a)

RowsPaid == \A a \in Attendees : Settled(a, reg[a])

\* Past validateTicket(), a request is about a seat that is paid for.
DesksPaid ==
    \A d \in Desks : \A t \in desk[d] :
        /\ Settled(t.id, t.row)
        /\ t.step \in {"saveAttended", "lookup", "attend"} => t.row.free \/ Vouched(t.id)

\* A payment belongs to a registration.
PaymentsHaveSeat ==
    \A a \in Attendees : pay[a].status # "ABSENT" => reg[a].status # "ABSENT"

\* A visit belongs to a registration.
VisitsHaveSeat == \A v \in ins : reg[v[1]].status # "ABSENT"

\* What a payment request has achieved when it reaches each of its steps.
TellerKnows(t) ==
    /\ reg[t.id].status # "ABSENT"
    /\ t.pay.status # "COMPLETED"
    /\ t.step \in {"capture", "savePaid", "confirm", "approveSeat"} => Faithful(t.id, t.row)
    /\ t.step \in {"savePaid", "confirm"} => t.id \in captured
    /\ t.step \in {"approveSeat", "approvePay"} => t.id \in vouched

TellersKnow == \A p \in Tellers : \A t \in teller[p] : TellerKnows(t)

MoneyIInv ==
    /\ DoorIInv
    /\ MoneyTypeOK
    /\ RowsPaid
    /\ DesksPaid
    /\ PaymentsHaveSeat
    /\ VisitsHaveSeat
    /\ TellersKnow
    /\ NoCompletionWithoutMoney
    /\ OnlyPaidAttend

-----------------------------------------------------------------------------

\* The seat stays the seat it is: a row is never deleted, and what it costs
\* does not change.
SeatsStay ==
    \A a \in Attendees :
        reg[a].status # "ABSENT" =>
            reg'[a].status # "ABSENT" /\ reg'[a].free = reg[a].free

\* The rows create(), the cron jobs and the desks write.
LEMMA RowsWritten ==
  ASSUME MoneyIInv, CheckInsNext
  PROVE  \A a \in Attendees :
            \/ reg'[a] = reg[a]
            \/ /\ reg[a].status = "ABSENT"
               /\ reg'[a].status = "PENDING" \/ reg'[a].free
            \/ /\ reg[a].status # "ABSENT" /\ reg'[a].status # "ABSENT"
               /\ reg'[a].free = reg[a].free
               /\ Settled(a, reg'[a])
<1> USE DEF MoneyIInv, DoorIInv
<1>1. ASSUME NEW a \in Attendees, NEW r, Save(a, r), Faithful(a, r), Settled(a, r)
      PROVE  \A b \in Attendees :
                \/ reg'[b] = reg[b]
                \/ /\ reg[b].status # "ABSENT" /\ reg'[b].status # "ABSENT"
                   /\ reg'[b].free = reg[b].free
                   /\ Settled(b, reg'[b])
  BY <1>1, RowAfterSave DEF Faithful
<1>2. ASSUME NEW a \in Attendees, NEW free \in BOOLEAN, Create(a, free)
      PROVE  \A b \in Attendees :
                \/ reg'[b] = reg[b]
                \/ /\ reg[b].status = "ABSENT"
                   /\ reg'[b].status = "PENDING" \/ reg'[b].free
  <2> DEFINE new == [status |-> IF free THEN "CONFIRMED" ELSE "PENDING",
                     attended |-> FALSE, free |-> free]
  <2>1. Save(a, new) /\ reg[a].status = "ABSENT"
    BY <1>2 DEF Create, IndexAccepts
  <2>2. new.status = "PENDING" \/ new.free
    OBVIOUS
  <2> HIDE DEF new
  <2>3. QED
    BY <2>1, <2>2, RowAfterSave
<1>3. ASSUME NEW k \in CronJobs, NEW t \in sweep[k], SweepSave(k, t)
      PROVE  \A b \in Attendees :
                \/ reg'[b] = reg[b]
                \/ /\ reg[b].status # "ABSENT" /\ reg'[b].status # "ABSENT"
                   /\ reg'[b].free = reg[b].free
                   /\ Settled(b, reg'[b])
  <2> DEFINE new == [t.row EXCEPT !.status = "EXPIRED"]
  <2>1. t.id \in Attendees /\ t.row \in Row /\ Faithful(t.id, t.row)
    BY DEF RegTypeOK, SweepTask, BatchesFaithful
  <2>2. new.status = "EXPIRED" /\ new.free = t.row.free
    BY <2>1 DEF Row
  <2>3. Save(t.id, new)
    BY <1>3 DEF SweepSave
  <2> HIDE DEF new
  <2>4. Faithful(t.id, new) /\ Settled(t.id, new)
    BY <2>1, <2>2 DEF Faithful, Settled
  <2>5. QED
    BY <1>1, <2>1, <2>3, <2>4
<1>4. ASSUME NEW d \in Desks, NEW t \in desk[d], LegacySave(d, t) \/ AttendedSave(d, t)
      PROVE  \A b \in Attendees :
                \/ reg'[b] = reg[b]
                \/ /\ reg[b].status # "ABSENT" /\ reg'[b].status # "ABSENT"
                   /\ reg'[b].free = reg[b].free
                   /\ Settled(b, reg'[b])
  <2>1. t.id \in Attendees /\ t.row \in Row /\ Faithful(t.id, t.row)
    BY DEF DoorTypeOK, DeskTask, DesksFaithful
  <2>2. CASE LegacySave(d, t)
    <3> DEFINE new == [t.row EXCEPT !.attended = TRUE]
    <3>1. new.status = t.row.status /\ new.free = t.row.free
      BY <2>1 DEF Row
    <3>2. Save(t.id, new)
      BY <2>2 DEF LegacySave
    <3> HIDE DEF new
    <3>3. Faithful(t.id, new) /\ Settled(t.id, new)
      BY <2>1, <3>1 DEF Faithful, DesksPaid, Settled
    <3>4. QED
      BY <1>1, <2>1, <3>2, <3>3
  <2>3. CASE AttendedSave(d, t)
    <3> DEFINE new == [t.row EXCEPT !.attended = TRUE, !.status = "ATTENDED"]
    <3>1. new.status = "ATTENDED" /\ new.free = t.row.free
      BY <2>1 DEF Row
    <3>2. Save(t.id, new) /\ t.step = "saveAttended"
      BY <2>3 DEF AttendedSave
    <3> HIDE DEF new
    <3>3. Faithful(t.id, new) /\ Settled(t.id, new)
      BY <2>1, <3>1, <3>2 DEF Faithful, DesksPaid, Settled
    <3>4. QED
      BY <1>1, <2>1, <3>2, <3>3
  <2>4. QED
    BY <1>4, <2>2, <2>3
<1>5. CASE UNCHANGED reg
  BY <1>5
<1>6. CASE RegNext
  BY <1>2, <1>3, <1>5, <1>6
     DEF RegNext, Deadline, SweepFind, SweepAnnounce, SweepAbort
<1>7. CASE DoorNext
  BY <1>4, <1>5, <1>7
     DEF DoorNext, DeskStart, DeskGoOn, DeskFail, LegacyRead, EventRead, SessionRead,
         OutRead, SessionLookup, SessionAttend, OutSave, regVars
<1>8. QED
  BY <1>6, <1>7 DEF CheckInsNext

LEMMA RowsStayPaid ==
  ASSUME MoneyIInv, CheckInsNext, UNCHANGED moneyVars
  PROVE  SeatsStay /\ RowsPaid'
<1>1. SeatsStay
  BY RowsWritten DEF SeatsStay
<1>2. ASSUME NEW a \in Attendees
      PROVE  Settled(a, reg[a])'
  <2>1. UNCHANGED <<captured, vouched>>
    BY DEF moneyVars
  <2>2. Settled(a, reg'[a])
    <3>1. CASE reg'[a] = reg[a]
      BY <3>1 DEF MoneyIInv, RowsPaid
    <3>2. CASE reg'[a].status = "PENDING" \/ reg'[a].free
      BY <3>2 DEF Settled
    <3>3. QED
      BY <3>1, <3>2, RowsWritten
  <2>3. QED
    BY <2>1, <2>2 DEF Settled, Vouched
<1>3. QED
  BY <1>1, <1>2 DEF RowsPaid

\* What a step of somebody else leaves of the payment requests.
LEMMA TellersUntouched ==
  ASSUME MoneyIInv, SeatsStay, UNCHANGED moneyVars
  PROVE  /\ MoneyTypeOK' /\ PaymentsHaveSeat' /\ TellersKnow'
         /\ NoCompletionWithoutMoney'
         /\ \A v \in ins : reg'[v[1]].status # "ABSENT"
                            /\ (reg'[v[1]].free \/ Vouched(v[1])')
<1> USE DEF MoneyIInv
<1>0. UNCHANGED <<pay, teller, captured, vouched>>
  BY DEF moneyVars
<1>1. MoneyTypeOK' /\ NoCompletionWithoutMoney'
  BY <1>0 DEF MoneyTypeOK, NoCompletionWithoutMoney, Vouched
<1>2. PaymentsHaveSeat'
  BY <1>0 DEF PaymentsHaveSeat, SeatsStay
<1>3. TellersKnow'
  <2> SUFFICES ASSUME NEW p \in Tellers, NEW t \in teller[p]
               PROVE  TellerKnows(t)'
    BY <1>0 DEF TellersKnow
  <2>1. t.id \in Attendees /\ TellerKnows(t)
    BY DEF MoneyTypeOK, TellerTask, TellersKnow
  <2>2. QED
    BY <1>0, <2>1 DEF TellerKnows, Faithful, SeatsStay
<1>4. ASSUME NEW v \in ins
      PROVE  reg'[v[1]].status # "ABSENT" /\ (reg'[v[1]].free \/ Vouched(v[1])')
  <2>1. v[1] \in Attendees
    BY DEF DoorIInv, DoorTypeOK, Visit
  <2>2. reg[v[1]].status # "ABSENT" /\ (reg[v[1]].free \/ Vouched(v[1]))
    BY DEF VisitsHaveSeat, OnlyPaidAttend
  <2>3. QED
    BY <1>0, <2>1, <2>2 DEF SeatsStay, Vouched
<1>5. QED
  BY <1>1, <1>2, <1>3, <1>4

LEMMA MoneyIInvReg ==
  ASSUME MoneyIInv, RegNext, UNCHANGED doorVars, UNCHANGED moneyVars
  PROVE  MoneyIInv'
<1>1. SeatsStay /\ RowsPaid'
  BY RowsStayPaid DEF CheckInsNext
<1>2. UNCHANGED <<desk, ins, captured, vouched>>
  BY DEF doorVars, moneyVars
<1>3. DesksPaid'
  BY <1>2 DEF MoneyIInv, DesksPaid, Settled, Vouched
<1>4. VisitsHaveSeat' /\ OnlyPaidAttend'
  BY <1>1, <1>2, TellersUntouched DEF VisitsHaveSeat, OnlyPaidAttend
<1>5. DoorIInv'
  BY DoorIInvReg DEF MoneyIInv
<1>6. QED
  BY <1>1, <1>3, <1>4, <1>5, TellersUntouched DEF MoneyIInv

LEMMA MoneyIInvDesk ==
  ASSUME MoneyIInv, DoorNext, UNCHANGED moneyVars
  PROVE  MoneyIInv'
<1> USE DEF MoneyIInv
<1>1. SeatsStay /\ RowsPaid'
  BY RowsStayPaid DEF CheckInsNext
<1>2. UNCHANGED <<captured, vouched>>
  BY DEF moneyVars
<1>3. DoorIInv'
  BY DoorIInvDesk
<1>4. PICK d \in Desks : DeskStart(d) \/ DeskGoOn(d) \/ DeskFail(d)
  BY DEF DoorNext
<1>5. ASSUME NEW u, desk' = [desk EXCEPT ![d] = {u}] \/ desk' = [desk EXCEPT ![d] = {}],
             /\ Settled(u.id, u.row)
             /\ u.step \in {"saveAttended", "lookup", "attend"} => u.row.free \/ Vouched(u.id)
      PROVE  DesksPaid'
  <2> SUFFICES ASSUME NEW e \in Desks, NEW t \in desk'[e]
               PROVE  /\ Settled(t.id, t.row)
                      /\ t.step \in {"saveAttended", "lookup", "attend"}
                            => t.row.free \/ Vouched(t.id)
    BY <1>2 DEF DesksPaid, Settled, Vouched
  <2>1. t = u \/ t \in desk[e]
    BY <1>5 DEF DoorIInv, DoorTypeOK
  <2>2. QED
    BY <1>5, <2>1 DEF DesksPaid
<1>6. CASE DeskStart(d)
  <2>1. ins' = ins
    BY <1>6 DEF DeskStart, LegacyRead, EventRead, SessionRead, OutRead
  <2>2. PICK a \in Attendees :
           \/ LegacyRead(d, a)
           \/ EventRead(d, a)
           \/ \E s \in Sessions : SessionRead(d, a, s) \/ OutRead(d, a, s)
    BY <1>6 DEF DeskStart
  <2>3. Settled(a, reg[a])
    BY DEF RowsPaid
  <2>4. ASSUME NEW step, NEW in, Begin(d, step, a, in), step = "save" \/ ValidTicket(a)
        PROVE  DesksPaid'
    <3> DEFINE u == [step |-> step, id |-> a, row |-> reg[a], in |-> in]
    <3>1. desk' = [desk EXCEPT ![d] = {u}]
      BY <2>4 DEF Begin
    <3>2. ValidTicket(a) => reg[a].free \/ Vouched(a)
      BY <2>3 DEF ValidTicket, Settled
    <3>3. u.id = a /\ u.row = reg[a] /\ u.step = step
      OBVIOUS
    <3> HIDE DEF u
    <3>4. QED
      BY <1>5, <2>3, <2>4, <3>1, <3>2, <3>3
  <2>5. DesksPaid'
    BY <2>2, <2>4 DEF LegacyRead, EventRead, SessionRead, OutRead
  <2>6. VisitsHaveSeat' /\ OnlyPaidAttend'
    BY <1>1, <2>1, TellersUntouched DEF VisitsHaveSeat, OnlyPaidAttend
  <2>7. QED
    BY <1>1, <1>3, <2>5, <2>6, TellersUntouched
<1>7. ASSUME desk' = [desk EXCEPT ![d] = {}]
      PROVE  DesksPaid'
  <2>1. \A e \in Desks : desk'[e] \subseteq desk[e]
    BY <1>7 DEF DoorIInv, DoorTypeOK
  <2>2. QED
    BY <1>2, <2>1 DEF DesksPaid, Settled, Vouched
<1>8. CASE DeskFail(d)
  <2>1. ins' = ins /\ DesksPaid'
    BY <1>7, <1>8 DEF DeskFail, Done
  <2>2. VisitsHaveSeat' /\ OnlyPaidAttend'
    BY <1>1, <2>1, TellersUntouched DEF VisitsHaveSeat, OnlyPaidAttend
  <2>3. QED
    BY <1>1, <1>3, <2>1, <2>2, TellersUntouched
<1>9. ASSUME NEW t \in desk[d],
             \/ LegacySave(d, t)
             \/ AttendedSave(d, t)
             \/ SessionLookup(d, t)
             \/ SessionAttend(d, t)
             \/ OutSave(d, t)
      PROVE  MoneyIInv'
  <2>1. t \in DeskTask /\ t.id \in Attendees /\ t.row \in Row /\ t.in \subseteq Sessions
    BY DEF DoorIInv, DoorTypeOK, DeskTask
  <2>2. /\ Settled(t.id, t.row)
        /\ t.step \in {"saveAttended", "lookup", "attend"} => t.row.free \/ Vouched(t.id)
        /\ Faithful(t.id, t.row)
    BY DEF DesksPaid, DoorIInv, DesksFaithful
  <2>3. ASSUME NEW step, Continue(d, t, step), t.step \in {"lookup", "attend"}
        PROVE  DesksPaid'
    <3> DEFINE u == [t EXCEPT !.step = step]
    <3>1. u.id = t.id /\ u.row = t.row
      BY <2>1 DEF DeskTask
    <3>2. desk' = [desk EXCEPT ![d] = {u}]
      BY <2>3 DEF Continue
    <3> HIDE DEF u
    <3>3. QED
      BY <1>5, <2>2, <2>3, <3>1, <3>2
  <2>4. DesksPaid'
    BY <1>7, <1>9, <2>3
       DEF LegacySave, AttendedSave, SessionLookup, SessionAttend, OutSave, Done
  <2>5. ASSUME NEW v \in ins'
        PROVE  reg'[v[1]].status # "ABSENT" /\ (reg'[v[1]].free \/ Vouched(v[1])')
    <3>1. CASE v \in ins
      BY <1>1, <3>1, TellersUntouched
    <3>2. CASE v \notin ins
      <4>1. SessionAttend(d, t)
        BY <1>9, <2>5, <3>2
           DEF LegacySave, AttendedSave, SessionLookup, OutSave
      <4>2. v[1] = t.id /\ t.step = "attend"
        BY <2>5, <3>2, <4>1 DEF SessionAttend
      <4>3. QED
        BY <1>1, <1>2, <2>1, <2>2, <4>2 DEF SeatsStay, Faithful, Vouched
    <3>3. QED
      BY <3>1, <3>2
  <2>6. VisitsHaveSeat' /\ OnlyPaidAttend'
    BY <2>5 DEF VisitsHaveSeat, OnlyPaidAttend
  <2>7. QED
    BY <1>1, <1>3, <2>4, <2>6, TellersUntouched
<1>10. QED
  BY <1>4, <1>6, <1>8, <1>9 DEF DeskGoOn

-----------------------------------------------------------------------------

\* What every step of a payment request leaves of the desks and the visits,
\* and of the other requests.
LEMMA TellerStepKeeps ==
  ASSUME MoneyIInv, SeatsStay, RowsPaid', DoorIInv', UNCHANGED doorVars,
         captured \subseteq captured', vouched \subseteq vouched'
  PROVE  /\ DesksPaid' /\ VisitsHaveSeat' /\ OnlyPaidAttend'
         /\ \A p \in Tellers : \A t \in teller[p] : TellerKnows(t)'
         /\ \A a \in Attendees : Vouched(a) => Vouched(a)'
         /\ \A a \in Attendees : pay[a].status # "ABSENT" => reg'[a].status # "ABSENT"
<1> USE DEF MoneyIInv
<1>1. UNCHANGED <<desk, ins>>
  BY DEF doorVars
<1>2. DesksPaid'
  BY <1>1 DEF DesksPaid, Settled, Vouched
<1>3. VisitsHaveSeat' /\ OnlyPaidAttend'
  <2> SUFFICES ASSUME NEW v \in ins
               PROVE  reg'[v[1]].status # "ABSENT" /\ (reg'[v[1]].free \/ Vouched(v[1])')
    BY <1>1 DEF VisitsHaveSeat, OnlyPaidAttend
  <2>1. v[1] \in Attendees
    BY DEF DoorIInv, DoorTypeOK, Visit
  <2>2. reg[v[1]].status # "ABSENT" /\ (reg[v[1]].free \/ Vouched(v[1]))
    BY DEF VisitsHaveSeat, OnlyPaidAttend
  <2>3. QED
    BY <2>1, <2>2 DEF SeatsStay, Vouched
<1>4. ASSUME NEW p \in Tellers, NEW t \in teller[p]
      PROVE  TellerKnows(t)'
  <2>1. t.id \in Attendees /\ TellerKnows(t)
    BY DEF MoneyTypeOK, TellerTask, TellersKnow
  <2>2. QED
    BY <2>1 DEF TellerKnows, Faithful, SeatsStay
<1>5. \A a \in Attendees : pay[a].status # "ABSENT" => reg'[a].status # "ABSENT"
  BY DEF PaymentsHaveSeat, SeatsStay
<1>6. QED
  BY <1>2, <1>3, <1>4, <1>5 DEF Vouched

\* A step that writes no registration and at most one payment, and after which
\* its request, if it goes on, knows what it should.
LEMMA PayStep ==
  ASSUME MoneyIInv, UNCHANGED checkInVars,
         captured \subseteq captured', vouched \subseteq vouched', MoneyTypeOK',
         \A a \in Attendees : \/ pay'[a] = pay[a]
                              \/ /\ reg[a].status # "ABSENT"
                                 /\ pay'[a].status = "COMPLETED" => Vouched(a)',
         \A p \in Tellers : \A t \in teller'[p] : t \in teller[p] \/ TellerKnows(t)'
  PROVE  MoneyIInv'
<1>1. UNCHANGED reg /\ UNCHANGED doorVars /\ DoorIInv'
  BY DoorIInvStep DEF MoneyIInv, checkInVars, regVars
<1>2. SeatsStay /\ RowsPaid'
  BY <1>1 DEF SeatsStay, MoneyIInv, RowsPaid, Settled, Vouched
<1>3. TellersKnow'
  BY <1>1, <1>2, TellerStepKeeps DEF TellersKnow
<1>4. PaymentsHaveSeat' /\ NoCompletionWithoutMoney'
  <2> SUFFICES ASSUME NEW a \in Attendees
               PROVE  /\ pay'[a].status # "ABSENT" => reg'[a].status # "ABSENT"
                      /\ pay'[a].status = "COMPLETED" => Vouched(a)'
    BY DEF PaymentsHaveSeat, NoCompletionWithoutMoney
  <2>1. CASE pay'[a] = pay[a]
    BY <1>1, <1>2, <2>1, TellerStepKeeps DEF MoneyIInv, NoCompletionWithoutMoney
  <2>2. CASE pay'[a] # pay[a]
    BY <1>1, <2>2
  <2>3. QED
    BY <2>1, <2>2
<1>5. QED
  BY <1>1, <1>2, <1>3, <1>4, TellerStepKeeps DEF MoneyIInv

\* A step that confirms a seat somebody paid for.
LEMMA SeatStep ==
  ASSUME MoneyIInv, NEW a \in Attendees, NEW row \in Row, Faithful(a, row), Vouched(a),
         Save(a, [row EXCEPT !.status = "CONFIRMED"]),
         UNCHANGED <<overdue, sweep, offered, told, aborts, doorVars, pay, captured, vouched>>,
         MoneyTypeOK',
         \A p \in Tellers : \A t \in teller'[p] : t \in teller[p] \/ TellerKnows(t)'
  PROVE  MoneyIInv' /\ LedgerStep
<1> DEFINE new == [row EXCEPT !.status = "CONFIRMED"]
<1>1. new \in Row /\ new.status = "CONFIRMED" /\ Faithful(a, new)
  BY DEF Row, RegistrationStatus, Faithful
<1>2. Save(a, new)
  OBVIOUS
<1> HIDE DEF new
<1>3. UNCHANGED <<desk, ins, outs, inside, overdue, sweep>> /\ Excused' = Excused
  BY DEF doorVars, Excused
<1>4. /\ reg' \in [Attendees -> Row]
      /\ RowsAccounted'
      /\ \A k \in CronJobs : \A t \in sweep[k] :
            Faithful(t.id, t.row)' /\ t.id \in overdue'
      /\ \A d \in Desks : \A t \in desk[d] :
            Faithful(t.id, t.row)' /\ Accounted(t.id, t.row)'
  <2>1. new.status \in CountedStatus
    BY <1>1 DEF CountedStatus
  <2>2. QED
    BY <1>1, <1>2, <1>3, <2>1, SaveKeepsRows DEF MoneyIInv
<1>5. DoorIInv'
  BY <1>3, <1>4 DEF MoneyIInv, DoorIInv, RegTypeOK, DoorTypeOK, BatchesFaithful, DesksFaithful
<1>6. SeatsStay /\ RowsPaid'
  BY <1>1, <1>2, RowAfterSave
     DEF MoneyIInv, DoorIInv, SeatsStay, RowsPaid, Settled, Faithful, Vouched
<1>7. TellersKnow' /\ PaymentsHaveSeat' /\ NoCompletionWithoutMoney'
  BY <1>5, <1>6, TellerStepKeeps
     DEF TellersKnow, PaymentsHaveSeat, MoneyIInv, NoCompletionWithoutMoney, Vouched
<1>8. LedgerStep
  BY <1>1, <1>2, <1>3, SaveIsLedgerStep DEF MoneyIInv, CountedStatus
<1>9. QED
  BY <1>5, <1>6, <1>7, <1>8, TellerStepKeeps DEF MoneyIInv

LEMMA MoneyIInvTeller ==
  ASSUME MoneyIInv, MoneyNext
  PROVE  MoneyIInv' /\ LedgerStep
<1>0. PICK p \in Tellers : TellerStart(p) \/ TellerGoOn(p) \/ TellerFail(p)
  BY DEF MoneyNext
<1>1. MoneyTypeOK
  BY DEF MoneyIInv
<1>2. UNCHANGED checkInVars => LedgerStep
  <2> SUFFICES ASSUME UNCHANGED checkInVars
               PROVE  UNCHANGED reg /\ Excused' = Excused
    BY NothingIsLedgerStep
  <2>1. QED
    BY DEF checkInVars, regVars, doorVars, Excused
<1>3. ASSUME NEW step \in TellerStep, NEW a \in Attendees, NEW payment \in PayRow,
             Load(p, step, a, payment), UNCHANGED <<checkInVars, pay, captured>>,
             vouched' = vouched \/ vouched' = vouched \cup {a},
             reg[a].status # "ABSENT", payment.status # "COMPLETED",
             step \in {"insert", "capture", "report", "approveSeat", "reject"},
             step = "approveSeat" => a \in vouched'
      PROVE  MoneyIInv' /\ LedgerStep
  <2> DEFINE row == IF step \in {"capture", "approveSeat"} THEN reg[a] ELSE NoRow
  <2>1. row \in Row
    BY DEF MoneyIInv, DoorIInv, RegTypeOK, NoRow, Row
  <2>2. PICK u \in TellerTask :
           u = [step |-> step, id |-> a, pay |-> payment, row |-> row]
    BY <2>1 DEF TellerTask
  <2>3. teller' = [teller EXCEPT ![p] = {u}]
    BY <1>3, <2>2 DEF Load
  <2>4. MoneyTypeOK'
    BY <1>1, <1>3, <2>3 DEF MoneyTypeOK
  <2>5. TellerKnows(u)'
    <3>1. UNCHANGED reg /\ vouched \subseteq vouched'
      BY <1>3 DEF checkInVars, regVars
    <3>2. QED
      BY <1>3, <2>2, <3>1 DEF TellerKnows, Faithful
  <2>6. \A q \in Tellers : \A t \in teller'[q] : t \in teller[q] \/ t = u
    BY <1>1, <2>3 DEF MoneyTypeOK
  <2>7. MoneyIInv'
    <3>1. /\ UNCHANGED checkInVars /\ \A b \in Attendees : pay'[b] = pay[b]
          /\ captured \subseteq captured' /\ vouched \subseteq vouched'
      BY <1>3
    <3>2. \A q \in Tellers : \A t \in teller'[q] : t \in teller[q] \/ TellerKnows(t)'
      BY <2>5, <2>6
    <3>3. QED
      BY <2>4, <3>1, <3>2, PayStep
  <2>8. QED
    BY <1>2, <1>3, <2>7
<1>4. CASE TellerStart(p)
  <2>1. PICK a \in Attendees :
           \/ \E viaPaypal \in BOOLEAN : IntentRead(p, a, viaPaypal)
           \/ PaypalRead(p, a)
           \/ ReportRead(p, a)
           \/ \E isApproved \in BOOLEAN : ReviewRead(p, a, isApproved)
    BY <1>4 DEF TellerStart
  <2>2. ASSUME NEW viaPaypal \in BOOLEAN, IntentRead(p, a, viaPaypal)
        PROVE  MoneyIInv' /\ LedgerStep
    <3> DEFINE new == [status |-> "PENDING", order |-> viaPaypal, disputed |-> FALSE]
    <3>1. new \in PayRow /\ new.status = "PENDING"
      BY DEF PayRow, PaymentStatus
    <3>2. Load(p, "insert", a, new)
      BY <2>2 DEF IntentRead
    <3> HIDE DEF new
    <3>3. QED
      BY <1>3, <2>2, <3>1, <3>2 DEF IntentRead, Payable, TellerStep
  <2>3. ASSUME Open(a)
        PROVE  reg[a].status # "ABSENT" /\ pay[a] \in PayRow /\ pay[a].status # "COMPLETED"
    BY <1>1, <2>3 DEF Open, MoneyIInv, PaymentsHaveSeat, MoneyTypeOK
  <2>4. CASE PaypalRead(p, a)
    BY <1>3, <2>3, <2>4 DEF PaypalRead, TellerStep
  <2>5. CASE ReportRead(p, a)
    BY <1>3, <2>3, <2>5 DEF ReportRead, TellerStep
  <2>6. ASSUME NEW isApproved \in BOOLEAN, ReviewRead(p, a, isApproved)
        PROVE  MoneyIInv' /\ LedgerStep
    <3>1. CASE isApproved
      <4>1. Load(p, "approveSeat", a, pay[a]) /\ vouched' = vouched \cup {a}
        BY <2>6, <3>1 DEF ReviewRead
      <4>2. QED
        BY <1>3, <2>3, <2>6, <4>1 DEF ReviewRead, TellerStep
    <3>2. CASE ~isApproved
      <4>1. Load(p, "reject", a, pay[a]) /\ vouched' = vouched
        BY <2>6, <3>2 DEF ReviewRead
      <4>2. QED
        BY <1>3, <2>3, <2>6, <4>1 DEF ReviewRead, TellerStep
    <3>3. QED
      BY <3>1, <3>2
  <2>7. QED
    BY <2>1, <2>2, <2>4, <2>5, <2>6
<1>5. ASSUME Answer(p)
      PROVE  \A q \in Tellers : teller'[q] \subseteq teller[q]
  BY <1>1, <1>5 DEF Answer, MoneyTypeOK
<1>6. CASE TellerFail(p)
  <2>1. MoneyTypeOK'
    BY <1>1, <1>6 DEF TellerFail, Answer, MoneyTypeOK
  <2>2. MoneyIInv'
    BY <1>5, <1>6, <2>1, PayStep DEF TellerFail
  <2>3. QED
    BY <1>2, <1>6, <2>2 DEF TellerFail
<1>7. ASSUME NEW t \in teller[p],
             \/ IntentInsert(p, t)
             \/ PaypalCapture(p, t)
             \/ PaypalSavePay(p, t)
             \/ PaypalSaveSeat(p, t)
             \/ ReportSave(p, t)
             \/ ApproveSaveSeat(p, t)
             \/ ApproveSavePay(p, t)
             \/ RejectSave(p, t)
      PROVE  MoneyIInv' /\ LedgerStep
  <2>1. t \in TellerTask /\ t.id \in Attendees /\ t.row \in Row /\ t.pay \in PayRow
    BY <1>1 DEF MoneyTypeOK, TellerTask
  <2>2. TellerKnows(t) /\ reg[t.id].status # "ABSENT" /\ t.pay.status # "COMPLETED"
    BY DEF MoneyIInv, TellersKnow, TellerKnows
  <2>3. ASSUME NEW new \in PayRow, new.status = "COMPLETED" => Vouched(t.id),
               SavePay(t.id, new), Answer(p), UNCHANGED <<checkInVars, captured, vouched>>
        PROVE  MoneyIInv' /\ LedgerStep
    <3>1. MoneyTypeOK'
      BY <1>1, <2>1, <2>3 DEF MoneyTypeOK, SavePay, Answer
    <3>2. \A a \in Attendees : \/ pay'[a] = pay[a]
                               \/ /\ reg[a].status # "ABSENT"
                                  /\ pay'[a].status = "COMPLETED" => Vouched(a)'
      BY <1>1, <2>1, <2>2, <2>3 DEF SavePay, MoneyTypeOK, Vouched
    <3>3. MoneyIInv'
      BY <1>5, <2>3, <3>1, <3>2, PayStep
    <3>4. QED
      BY <1>2, <2>3, <3>3
  <2>4. \A s \in PaymentStatus :
           /\ [t.pay EXCEPT !.status = s] \in PayRow
           /\ [t.pay EXCEPT !.status = s].status = s
    BY <2>1 DEF PayRow
  <2>5. CASE IntentInsert(p, t)
    <3>1. CASE pay[t.id].status = "ABSENT"
      BY <2>1, <2>2, <2>3, <2>5, <3>1 DEF IntentInsert
    <3>2. CASE pay[t.id].status # "ABSENT"
      <4>1. MoneyTypeOK' /\ UNCHANGED pay
        BY <1>1, <2>5, <3>2 DEF IntentInsert, Answer, MoneyTypeOK
      <4>2. MoneyIInv'
        BY <1>5, <2>5, <4>1, PayStep DEF IntentInsert
      <4>3. QED
        BY <1>2, <2>5, <4>2 DEF IntentInsert
    <3>3. QED
      BY <3>1, <3>2
  <2>6. CASE ReportSave(p, t)
    BY <2>3, <2>4, <2>6 DEF ReportSave, PaymentStatus
  <2>7. CASE RejectSave(p, t)
    BY <2>3, <2>4, <2>7 DEF RejectSave, PaymentStatus
  <2>8. CASE ApproveSavePay(p, t)
    <3>1. Vouched(t.id)
      BY <2>2, <2>8 DEF ApproveSavePay, TellerKnows, Vouched
    <3>2. QED
      BY <2>3, <2>4, <2>8, <3>1 DEF ApproveSavePay, PaymentStatus
  <2>9. ASSUME NEW step \in TellerStep, GoTo(p, t, step)
        PROVE  \E u \in TellerTask :
                  /\ u.step = step /\ u.id = t.id /\ u.pay = t.pay /\ u.row = t.row
                  /\ teller' = [teller EXCEPT ![p] = {u}]
                  /\ \A q \in Tellers : \A v \in teller'[q] : v \in teller[q] \/ v = u
    <3> DEFINE u == [t EXCEPT !.step = step]
    <3>1. u \in TellerTask /\ u.step = step /\ u.id = t.id /\ u.pay = t.pay /\ u.row = t.row
      BY <2>1 DEF TellerTask
    <3>2. teller' = [teller EXCEPT ![p] = {u}]
      BY <2>9 DEF GoTo
    <3> HIDE DEF u
    <3>3. \A q \in Tellers : \A v \in teller'[q] : v \in teller[q] \/ v = u
      BY <1>1, <3>2 DEF MoneyTypeOK
    <3>4. QED
      BY <3>1, <3>2, <3>3
  <2>10. CASE PaypalCapture(p, t)
    <3>0. /\ UNCHANGED <<checkInVars, pay, vouched>> /\ UNCHANGED reg
          /\ captured' = captured \cup {t.id} /\ t.step = "capture"
      BY <2>10 DEF PaypalCapture, checkInVars, regVars
    <3>1. CASE Answer(p)
      <4>1. MoneyTypeOK'
        BY <1>1, <2>1, <3>0, <3>1 DEF Answer, MoneyTypeOK
      <4>2. MoneyIInv'
        BY <1>5, <3>0, <3>1, <4>1, PayStep
      <4>3. QED
        BY <1>2, <3>0, <4>2
    <3>2. CASE GoTo(p, t, "savePaid")
      <4>1. PICK u \in TellerTask :
               /\ u.step = "savePaid" /\ u.id = t.id /\ u.pay = t.pay /\ u.row = t.row
               /\ teller' = [teller EXCEPT ![p] = {u}]
               /\ \A q \in Tellers : \A v \in teller'[q] : v \in teller[q] \/ v = u
        BY <2>9, <3>2 DEF TellerStep
      <4>2. MoneyTypeOK'
        BY <1>1, <2>1, <3>0, <4>1 DEF MoneyTypeOK
      <4>3. TellerKnows(u)'
        BY <2>2, <3>0, <4>1 DEF TellerKnows, Faithful
      <4>4. MoneyIInv'
        BY <3>0, <4>1, <4>2, <4>3, PayStep
      <4>5. QED
        BY <1>2, <3>0, <4>4
    <3>3. QED
      BY <2>10, <3>1, <3>2 DEF PaypalCapture
  <2>11. CASE PaypalSavePay(p, t)
    <3> DEFINE new == [t.pay EXCEPT !.status = "COMPLETED"]
    <3>0. /\ UNCHANGED <<checkInVars, captured, vouched>> /\ UNCHANGED reg
          /\ SavePay(t.id, new) /\ t.step = "savePaid"
      BY <2>11 DEF PaypalSavePay, checkInVars, regVars
    <3>1. PICK u \in TellerTask :
             /\ u.step = "confirm" /\ u.id = t.id /\ u.pay = t.pay /\ u.row = t.row
             /\ teller' = [teller EXCEPT ![p] = {u}]
             /\ \A q \in Tellers : \A v \in teller'[q] : v \in teller[q] \/ v = u
      BY <2>9, <2>11 DEF TellerStep, PaypalSavePay
    <3>2. new \in PayRow
      BY <2>4 DEF PaymentStatus
    <3> HIDE DEF new
    <3>3. MoneyTypeOK'
      BY <1>1, <2>1, <3>0, <3>1, <3>2 DEF MoneyTypeOK, SavePay
    <3>4. TellerKnows(u)'
      BY <2>2, <3>0, <3>1 DEF TellerKnows, Faithful
    <3>5. Vouched(t.id)'
      BY <2>2, <3>0 DEF TellerKnows, Vouched
    <3>6. \A a \in Attendees : \/ pay'[a] = pay[a]
                               \/ /\ reg[a].status # "ABSENT"
                                  /\ pay'[a].status = "COMPLETED" => Vouched(a)'
      BY <1>1, <2>1, <2>2, <3>0, <3>5 DEF SavePay, MoneyTypeOK
    <3>7. MoneyIInv'
      BY <3>0, <3>1, <3>3, <3>4, <3>6, PayStep
    <3>8. QED
      BY <1>2, <3>0, <3>7
  <2>12. CASE PaypalSaveSeat(p, t)
    <3>1. Faithful(t.id, t.row) /\ Vouched(t.id)
      BY <2>2, <2>12 DEF PaypalSaveSeat, TellerKnows, Vouched
    <3>2. MoneyTypeOK'
      BY <1>1, <2>12 DEF PaypalSaveSeat, Answer, MoneyTypeOK
    <3>3. QED
      BY <1>5, <2>1, <2>12, <3>1, <3>2, SeatStep DEF PaypalSaveSeat
  <2>13. CASE ApproveSaveSeat(p, t)
    <3>1. Faithful(t.id, t.row) /\ Vouched(t.id) /\ t.id \in vouched
      BY <2>2, <2>13 DEF ApproveSaveSeat, TellerKnows, Vouched
    <3>2. PICK u \in TellerTask :
             /\ u.step = "approvePay" /\ u.id = t.id /\ u.pay = t.pay /\ u.row = t.row
             /\ teller' = [teller EXCEPT ![p] = {u}]
             /\ \A q \in Tellers : \A v \in teller'[q] : v \in teller[q] \/ v = u
      BY <2>9, <2>13 DEF TellerStep, ApproveSaveSeat
    <3>3. MoneyTypeOK'
      BY <1>1, <2>13, <3>2 DEF ApproveSaveSeat, MoneyTypeOK
    <3>4. reg'[t.id] = [t.row EXCEPT !.status = "CONFIRMED"]
      BY <2>1, <2>13, RowAfterSave DEF ApproveSaveSeat, MoneyIInv, DoorIInv
    <3>5. TellerKnows(u)'
      <4>1. reg'[t.id].status # "ABSENT" /\ vouched' = vouched
        BY <2>1, <2>13, <3>4 DEF Row, ApproveSaveSeat
      <4>2. QED
        BY <2>2, <3>1, <3>2, <4>1 DEF TellerKnows
    <3>6. QED
      BY <2>1, <2>13, <3>1, <3>2, <3>3, <3>5, SeatStep DEF ApproveSaveSeat
  <2>14. QED
    BY <1>7, <2>5, <2>6, <2>7, <2>8, <2>10, <2>11, <2>12, <2>13
<1>8. QED
  BY <1>0, <1>4, <1>6, <1>7 DEF TellerGoOn

-----------------------------------------------------------------------------

LEMMA MoneyIInvInit == PaymentsInit => MoneyIInv
<1> SUFFICES ASSUME PaymentsInit
             PROVE  MoneyIInv
  OBVIOUS
<1>1. DoorIInv
  BY DoorIInvInit DEF PaymentsInit
<1>2. MoneyTypeOK /\ PaymentsHaveSeat /\ NoCompletionWithoutMoney /\ TellersKnow
  BY DEF PaymentsInit, MoneyInit, NoPayment, MoneyTypeOK, PayRow, PaymentsHaveSeat,
         NoCompletionWithoutMoney, TellersKnow
<1>3. RowsPaid
  BY DEF PaymentsInit, CheckInsInit, RegInit, NoRow, RowsPaid, Settled
<1>4. DesksPaid /\ VisitsHaveSeat /\ OnlyPaidAttend
  BY DEF PaymentsInit, CheckInsInit, DoorInit, DesksPaid, VisitsHaveSeat, OnlyPaidAttend
<1>5. QED
  BY <1>1, <1>2, <1>3, <1>4 DEF MoneyIInv

LEMMA MoneyIInvStep ==
  MoneyIInv /\ [PaymentsNext]_paymentVars => MoneyIInv' /\ LedgerStep
<1> SUFFICES ASSUME MoneyIInv, [PaymentsNext]_paymentVars
             PROVE  MoneyIInv' /\ LedgerStep
  OBVIOUS
<1>1. CASE CheckInsNext /\ UNCHANGED moneyVars
  <2>1. CASE RegNext /\ UNCHANGED doorVars
    BY <1>1, <2>1, MoneyIInvReg, RegIsLedgerStep DEF MoneyIInv
  <2>2. CASE DoorNext
    BY <1>1, <2>2, MoneyIInvDesk, DeskIsLedgerStep DEF MoneyIInv
  <2>3. QED
    BY <1>1, <2>1, <2>2 DEF CheckInsNext
<1>2. CASE MoneyNext
  BY <1>2, MoneyIInvTeller
<1>3. CASE UNCHANGED paymentVars
  <2>1. UNCHANGED checkInVars /\ UNCHANGED <<pay, teller, captured, vouched>>
    BY <1>3 DEF paymentVars, moneyVars
  <2>2. MoneyTypeOK'
    BY <2>1 DEF MoneyIInv, MoneyTypeOK
  <2>3. MoneyIInv'
    BY <2>1, <2>2, PayStep
  <2>4. UNCHANGED reg /\ Excused' = Excused
    BY <2>1 DEF checkInVars, regVars, doorVars, Excused
  <2>5. QED
    BY <2>3, <2>4, NothingIsLedgerStep
<1>4. QED
  BY <1>1, <1>2, <1>3 DEF PaymentsNext

THEOREM MoneyInvariant == PaymentsSpec => []MoneyIInv
BY MoneyIInvInit, MoneyIInvStep, PTL DEF PaymentsSpec

\* Type correctness of the payments table and of the requests in progress.
THEOREM MoneyTypeCorrect == PaymentsSpec => []MoneyTypeOK
BY MoneyInvariant, PTL DEF MoneyIInv

\* No interleaving of creation, expiry, check-in, capture and review confirms
\* or admits a seat that costs money and nobody paid for.
THEOREM SeatsArePaid == PaymentsSpec => []NoSeatWithoutMoney
<1>1. MoneyIInv => NoSeatWithoutMoney
  BY DEF MoneyIInv, RowsPaid, Settled, NoSeatWithoutMoney
<1>2. QED
  BY <1>1, MoneyInvariant, PTL

\* A payment is COMPLETED only if PayPal or a treasurer vouched for the money.
THEOREM CompletionsArePaid == PaymentsSpec => []NoCompletionWithoutMoney
BY MoneyInvariant, PTL DEF MoneyIInv

\* Nobody is checked into a session on a ticket nobody paid for.
THEOREM VisitorsPaid == PaymentsSpec => []OnlyPaidAttend
BY MoneyInvariant, PTL DEF MoneyIInv

\* With the payment requests too, the tables implement SeatLedger: a payment
\* brings back only the seat of somebody late or inside.
THEOREM PaymentsKeepLedger == PaymentsSpec => KeepsLedger
<1>1. PaymentsInit => Ledger!LedgerInit
  BY LedgerStart DEF PaymentsInit
<1>2. MoneyIInv /\ [PaymentsNext]_paymentVars => [Ledger!LedgerNext]_(Ledger!ledgerVars)
  BY MoneyIInvStep DEF LedgerStep, LedgerVars, Ledger!ledgerVars
<1>3. QED
  BY <1>1, <1>2, MoneyInvariant, PTL DEF PaymentsSpec, KeepsLedger, Ledger!LedgerSpec

-----------------------------------------------------------------------------
(***************************************************************************)
(* Money that goes back                                                    *)
(***************************************************************************)

Present(a) == a \in Attendees /\ reg[a].status # "ABSENT"

\* A row that does not count belongs to somebody released.
Spared(a, row) == row.status \in CountedStatus \cup {"ABSENT"} \/ a \in Released

\* A row in memory.
Known(a, row) ==
    Present(a) /\ row \in Row /\ row.status # "ABSENT" /\ Spared(a, row)

\* What a payment row says about the money is true.
Backed(a, payment) ==
    payment.status = "COMPLETED" \/ payment.disputed => Vouched(a)

RowsSpared == \A a \in Attendees : Spared(a, reg[a])

PaymentsBacked ==
    \A a \in Attendees :
        /\ pay[a].status # "ABSENT" \/ pay[a].disputed => Present(a)
        /\ Backed(a, pay[a])

BatchesKnown ==
    \A k \in CronJobs : \A t \in sweep[k] : Known(t.id, t.row) /\ t.id \in overdue

DesksKnown == \A d \in Desks : \A t \in desk[d] : Known(t.id, t.row)

TellerSure(t) ==
    /\ Present(t.id)
    /\ Backed(t.id, t.pay)
    /\ t.step \in {"capture", "savePaid", "confirm", "approveSeat"} => Known(t.id, t.row)
    /\ t.step \in {"savePaid", "confirm"} => t.id \in captured
    /\ t.step \in {"approveSeat", "approvePay"} => t.id \in vouched

TellersSure == \A p \in Tellers : \A t \in teller[p] : TellerSure(t)

\* Every clerk works on a registration somebody paid for, and has read it
\* where he will save it; a refund in process was approved.
ClerkSure(t) ==
    /\ Present(t.id) /\ Vouched(t.id)
    /\ t.step \in {"process", "payBack", "cancelSeat", "initiate", "confirmLoss", "reverse"}
          => Known(t.id, t.row)
    /\ t.step = "decide" => t.n \in 1..MaxRequests
    /\ t.step \in {"process", "payBack", "cancelSeat", "complete"}
          => t.n \in 1..MaxRequests /\ <<t.id, t.n>> \in approved

ClerksSure == \A c \in Clerks : \A t \in clerk[c] : ClerkSure(t)

RefundsSure ==
    \A i \in RefundId :
        /\ refund[i].status # "ABSENT" => Present(i[1]) /\ Vouched(i[1])
        /\ refund[i].status \in {"APPROVED", "PROCESSING", "COMPLETED"} => i \in approved

BackTypes == RegTypeOK /\ DoorTypeOK /\ MoneyTypeOK /\ DisputesTypeOK

BackIInv ==
    /\ BackTypes
    /\ RowsSpared /\ PaymentsBacked
    /\ BatchesKnown /\ DesksKnown /\ TellersSure /\ ClerksSure /\ RefundsSure

-----------------------------------------------------------------------------

\* What a step does to the seats: nothing, or it grants, releases or rewrites
\* the seat of one person.
NoSeat == UNCHANGED reg /\ Released' = Released /\ overdue \subseteq overdue'

OneSeat(a) ==
    /\ a \in Attendees
    /\ reg' \in [Attendees -> Row]
    /\ overdue \subseteq overdue'
    /\ \A b \in Attendees \ {a} : reg'[b] = reg[b]
    /\ \/ /\ reg[a].status = "ABSENT" /\ reg'[a].status \in CountedStatus
          /\ InStock
          /\ Released' = Released
       \/ /\ Present(a) /\ reg'[a].status # "ABSENT"
          /\ reg'[a].status \in CountedStatus \/ a \in Released'
          /\ Released' \in {Released, Released \cup {a}}

Moves == NoSeat \/ \E a \in Attendees : OneSeat(a)

\* Money is taken and decisions are made for good.
NoLoss == captured \subseteq captured' /\ vouched \subseteq vouched' /\ approved \subseteq approved'

BookVars == <<Granted, Reserved, Released>>

\* A step of the ledger, spelled out over the mapping.
BookStep == Book!LedgerNext \/ UNCHANGED BookVars

LEMMA MovesKeepRows ==
  ASSUME BackIInv, Moves
  PROVE  /\ reg' \in [Attendees -> Row]
         /\ overdue \subseteq overdue' /\ Released \subseteq Released'
         /\ \A a \in Attendees : Present(a) => Present(a)'
         /\ RowsSpared'
<1>1. RegTypeOK /\ RowsSpared
  BY DEF BackIInv, BackTypes
<1>2. CASE NoSeat
  BY <1>1, <1>2 DEF NoSeat, RegTypeOK, RowsSpared, Spared, Present
<1>3. ASSUME NEW a \in Attendees, OneSeat(a)
      PROVE  /\ reg' \in [Attendees -> Row]
             /\ overdue \subseteq overdue' /\ Released \subseteq Released'
             /\ \A b \in Attendees : Present(b) => Present(b)'
             /\ RowsSpared'
  <2>1. overdue \subseteq overdue' /\ Released \subseteq Released' /\ reg' \in [Attendees -> Row]
    BY <1>3 DEF OneSeat
  <2>2. \A b \in Attendees \ {a} : reg'[b] = reg[b]
    BY <1>3 DEF OneSeat
  <2>3. reg'[a].status # "ABSENT" /\ Spared(a, reg[a])'
    BY <1>3 DEF OneSeat, CountedStatus, Spared
  <2>4. \A b \in Attendees : Present(b) => Present(b)'
    BY <2>2, <2>3 DEF Present
  <2>5. RowsSpared'
    <3> SUFFICES ASSUME NEW b \in Attendees
                 PROVE  Spared(b, reg[b])'
      BY DEF RowsSpared
    <3>1. CASE b = a
      BY <2>3, <3>1
    <3>2. CASE b # a
      BY <1>1, <2>1, <2>2, <3>2 DEF RowsSpared, Spared
    <3>3. QED
      BY <3>1, <3>2
  <2>6. QED
    BY <2>1, <2>4, <2>5
<1>4. QED
  BY <1>2, <1>3 DEF Moves

LEMMA KnownStays ==
  ASSUME BackIInv, Moves, NEW a, NEW row, Known(a, row)
  PROVE  Known(a, row)'
BY MovesKeepRows DEF Known, Present, Spared

\* A row that was just read.
LEMMA ReadIsKnown ==
  ASSUME BackIInv, NEW a, Present(a)
  PROVE  Known(a, reg[a])
BY DEF BackIInv, BackTypes, RegTypeOK, Present, Known, RowsSpared

LEMMA TellerStays ==
  ASSUME BackIInv, Moves, NoLoss, NEW t, TellerSure(t)
  PROVE  TellerSure(t)'
<1>1. Present(t.id)' /\ (Known(t.id, t.row) => Known(t.id, t.row)')
  BY MovesKeepRows, KnownStays DEF TellerSure, Present
<1>2. Vouched(t.id) => Vouched(t.id)'
  BY DEF NoLoss, Vouched
<1>3. QED
  BY <1>1, <1>2 DEF TellerSure, Backed, NoLoss

LEMMA ClerkStays ==
  ASSUME BackIInv, Moves, NoLoss, NEW t, ClerkSure(t)
  PROVE  ClerkSure(t)'
<1>1. Present(t.id)' /\ (Known(t.id, t.row) => Known(t.id, t.row)')
  BY MovesKeepRows, KnownStays DEF ClerkSure, Present
<1>2. Vouched(t.id)'
  BY DEF ClerkSure, NoLoss, Vouched
<1>3. QED
  BY <1>1, <1>2 DEF ClerkSure, NoLoss

\* Whoever does not take part in a step keeps what he knows.
LEMMA OthersStaySure ==
  ASSUME BackIInv, Moves, NoLoss
  PROVE  /\ UNCHANGED sweep => BatchesKnown'
         /\ UNCHANGED desk => DesksKnown'
         /\ UNCHANGED teller => TellersSure'
         /\ UNCHANGED clerk => ClerksSure'
         /\ UNCHANGED pay => PaymentsBacked'
         /\ UNCHANGED refund => RefundsSure'
<1> USE DEF BackIInv
<1>1. ASSUME UNCHANGED sweep
      PROVE  BatchesKnown'
  BY <1>1, KnownStays, MovesKeepRows DEF BatchesKnown
<1>2. ASSUME UNCHANGED desk
      PROVE  DesksKnown'
  BY <1>2, KnownStays DEF DesksKnown
<1>3. ASSUME UNCHANGED teller
      PROVE  TellersSure'
  BY <1>3, TellerStays DEF TellersSure
<1>4. ASSUME UNCHANGED clerk
      PROVE  ClerksSure'
  BY <1>4, ClerkStays DEF ClerksSure
<1>5. \A a : Vouched(a) => Vouched(a)'
  BY DEF NoLoss, Vouched
<1>6. ASSUME UNCHANGED pay
      PROVE  PaymentsBacked'
  BY <1>5, <1>6, MovesKeepRows DEF PaymentsBacked, Backed
<1>7. ASSUME UNCHANGED refund
      PROVE  RefundsSure'
  <2>1. \A i \in RefundId : i[1] \in Attendees
    BY DEF RefundId
  <2>2. QED
    BY <1>5, <1>7, <2>1, MovesKeepRows DEF RefundsSure, NoLoss
<1>8. QED
  BY <1>1, <1>2, <1>3, <1>4, <1>6, <1>7

\* Such a step is one of the ledger.
LEMMA MovesAreBooked ==
  ASSUME BackIInv, Moves
  PROVE  BookStep
<1>1. CASE NoSeat
  BY <1>1 DEF NoSeat, BookStep, BookVars, Granted, Reserved
<1>2. ASSUME NEW a \in Attendees, OneSeat(a)
      PROVE  BookStep
  <2>1. \A b \in Attendees \ {a} : reg'[b] = reg[b]
    BY <1>2 DEF OneSeat
  <2>2. CASE reg[a].status = "ABSENT" /\ reg'[a].status \in CountedStatus
             /\ InStock /\ Released' = Released
    <3>1. a \notin Granted /\ Granted' = Granted \cup {a} /\ Reserved' = Reserved \cup {a}
      BY <2>1, <2>2 DEF Granted, Reserved, CountedStatus
    <3>2. Book!Grant(a)
      BY <2>2, <3>1 DEF InStock, Book!Grant, Book!Cardinality, Cardinality
    <3>3. QED
      BY <3>2 DEF BookStep, Book!LedgerNext
  <2>3. CASE Present(a) /\ reg'[a].status # "ABSENT"
             /\ (reg'[a].status \in CountedStatus \/ a \in Released')
             /\ Released' \in {Released, Released \cup {a}}
    <3>1. a \in Granted /\ Granted' = Granted
      BY <2>1, <2>3 DEF Granted, Present
    <3>2. Reserved' = IF reg'[a].status \in CountedStatus
                        THEN Reserved \cup {a} ELSE Reserved \ {a}
      BY <2>1 DEF Reserved
    <3>3. a \in Reserved \/ a \in Released
      BY <2>3 DEF BackIInv, RowsSpared, Spared, Present, Reserved
    <3>4. CASE Reserved' = Reserved
      BY <2>3, <3>1, <3>4 DEF BookStep, BookVars, Book!LedgerNext, Book!Excuse
    <3>5. CASE Reserved' = Reserved \cup {a} /\ Reserved' # Reserved
      <4>1. a \in Released /\ Released' = Released
        BY <2>3, <3>3, <3>5
      <4>2. QED
        BY <3>1, <3>5, <4>1 DEF BookStep, Book!LedgerNext, Book!Return
    <3>6. CASE Reserved' = Reserved \ {a} /\ Reserved' # Reserved
      <4>1. a \in Reserved /\ Released' = Released \cup {a}
        BY <2>3, <3>2, <3>6
      <4>2. QED
        BY <3>1, <3>6, <4>1 DEF BookStep, Book!LedgerNext, Book!Leave
    <3>7. QED
      BY <3>2, <3>4, <3>5, <3>6
  <2>4. QED
    BY <1>2, <2>2, <2>3 DEF OneSeat
<1>3. QED
  BY <1>1, <1>2 DEF Moves

LEMMA BackKept ==
  ASSUME BackIInv, Moves, BackTypes', PaymentsBacked', BatchesKnown', DesksKnown',
         TellersSure', ClerksSure', RefundsSure'
  PROVE  BackIInv' /\ BookStep
BY MovesKeepRows, MovesAreBooked DEF BackIInv

\* The steps that write one row.
LEMMA KnownSaved ==
  ASSUME BackIInv, NEW a, NEW old, NEW r \in Row, Known(a, old), Save(a, r),
         r.status # "ABSENT", r.status \in CountedStatus \/ a \in Released',
         overdue \subseteq overdue', Released' \in {Released, Released \cup {a}}
  PROVE  Moves
<1>1. Present(a) /\ a \in Attendees /\ RegTypeOK
  BY DEF Known, Present, BackIInv, BackTypes
<1>2. reg' \in [Attendees -> Row] /\ \A b \in Attendees : reg'[b] = IF b = a THEN r ELSE reg[b]
  BY <1>1, RowAfterSave, SaveType
<1>3. OneSeat(a)
  BY <1>1, <1>2 DEF OneSeat
<1>4. QED
  BY <1>1, <1>3 DEF Moves

\* The steps that write none.
LEMMA QuietMoves ==
  ASSUME BackIInv, UNCHANGED reg, overdue \subseteq overdue',
         Released' = Released \/ \E a : Present(a) /\ Released' \in {Released, Released \cup {a}}
  PROVE  Moves
<1>1. CASE Released' = Released
  BY <1>1 DEF Moves, NoSeat
<1>2. ASSUME NEW a, Present(a), Released' = Released \cup {a}
      PROVE  Moves
  <2>1. a \in Attendees /\ Spared(a, reg[a]) /\ reg' \in [Attendees -> Row]
    BY <1>2 DEF BackIInv, BackTypes, RegTypeOK, RowsSpared, Present
  <2>2. OneSeat(a)
    BY <1>2, <2>1 DEF OneSeat, Present, Spared
  <2>3. QED
    BY <2>1, <2>2 DEF Moves
<1>3. QED
  BY <1>1, <1>2

-----------------------------------------------------------------------------

\* create(), deadlines and the cron jobs.
LEMMA BackReg ==
  ASSUME BackIInv, RegNext, UNCHANGED <<doorVars, moneyVars, backVars>>
  PROVE  BackIInv' /\ BookStep
<1>1. BackTypes'
  BY RegTypeStep DEF BackIInv, BackTypes, doorVars, moneyVars, backVars,
     DoorTypeOK, MoneyTypeOK, DisputesTypeOK
<1>2. UNCHANGED <<desk, inside, pay, teller, captured, vouched, refund, clerk, approved, contested>>
  BY DEF doorVars, moneyVars, backVars
<1>3. RegTypeOK /\ NoLoss
  BY <1>2 DEF BackIInv, BackTypes, NoLoss
<1>4. ASSUME Moves, BatchesKnown'
      PROVE  BackIInv' /\ BookStep
  BY <1>1, <1>2, <1>3, <1>4, OthersStaySure, BackKept
<1>5. ASSUME NEW a \in Attendees, NEW free \in BOOLEAN, Create(a, free)
      PROVE  BackIInv' /\ BookStep
  <2> DEFINE row == [status   |-> IF free THEN "CONFIRMED" ELSE "PENDING",
                     attended |-> FALSE,
                     free     |-> free]
  <2>1. InStock /\ reg[a].status = "ABSENT" /\ Save(a, row) /\ UNCHANGED <<overdue, sweep>>
    BY <1>5 DEF Create, IndexAccepts
  <2>2. row \in Row /\ row.status \in CountedStatus
    BY DEF Row, RegistrationStatus, CountedStatus
  <2> HIDE DEF row
  <2>3. reg' \in [Attendees -> Row] /\ \A b \in Attendees : reg'[b] = IF b = a THEN row ELSE reg[b]
    BY <1>3, <2>1, <2>2, RowAfterSave, SaveType
  <2>4. Released' = Released
    BY <1>2, <2>1 DEF Released, Excused
  <2>5. OneSeat(a)
    BY <2>1, <2>2, <2>3, <2>4 DEF OneSeat
  <2>6. Moves
    BY <2>5 DEF Moves
  <2>7. QED
    BY <1>3, <1>4, <2>1, <2>6, OthersStaySure
<1>6. ASSUME NEW a \in Attendees, Deadline(a)
      PROVE  BackIInv' /\ BookStep
  <2>1. UNCHANGED <<reg, sweep>> /\ overdue \subseteq overdue' /\ Present(a)
    BY <1>6 DEF Deadline, Present
  <2>2. Released' = Released \cup {a}
    BY <1>2, <1>6 DEF Deadline, Released, Excused
  <2>3. Moves
    BY <2>1, <2>2, QuietMoves
  <2>4. QED
    BY <1>3, <1>4, <2>1, <2>3, OthersStaySure
<1>7. ASSUME NEW k \in CronJobs, SweepFind(k)
      PROVE  BackIInv' /\ BookStep
  <2> DEFINE batch == {[id |-> a, row |-> reg[a], saved |-> FALSE] :
                          a \in {x \in Attendees : Expirable(x)}}
  <2>1. UNCHANGED <<reg, overdue>> /\ sweep' = [sweep EXCEPT ![k] = batch]
    BY <1>7 DEF SweepFind
  <2>2. Moves
    BY <1>2, <2>1, QuietMoves DEF Released, Excused
  <2>3. ASSUME NEW t \in batch
        PROVE  Known(t.id, t.row) /\ t.id \in overdue
    <3>1. t.id \in Attendees /\ t.row = reg[t.id] /\ Expirable(t.id)
      OBVIOUS
    <3>2. Present(t.id) /\ t.id \in overdue
      BY <3>1 DEF Expirable, Present
    <3>3. QED
      BY <3>1, <3>2, ReadIsKnown
  <2> HIDE DEF batch
  <2>4. \A j \in CronJobs : sweep'[j] = IF j = k THEN batch ELSE sweep[j]
    BY <1>3, <2>1 DEF RegTypeOK
  <2>5. BatchesKnown'
    BY <2>1, <2>2, <2>3, <2>4, KnownStays DEF BackIInv, BatchesKnown
  <2>6. QED
    BY <1>4, <2>2, <2>5
<1>8. ASSUME NEW k \in CronJobs, NEW t \in sweep[k], SweepSave(k, t)
      PROVE  BackIInv' /\ BookStep
  <2> DEFINE row == [t.row EXCEPT !.status = "EXPIRED"]
             done == [t EXCEPT !.saved = TRUE]
  <2>1. /\ Save(t.id, row)
        /\ sweep' = [sweep EXCEPT ![k] = (sweep[k] \ {t}) \cup {done}]
        /\ UNCHANGED overdue
    BY <1>8 DEF SweepSave
  <2>2. t.id \in overdue /\ Known(t.id, t.row) /\ t \in SweepTask
    BY <1>3 DEF BackIInv, BatchesKnown, RegTypeOK
  <2>3. row \in Row /\ row.status = "EXPIRED"
    BY <2>2 DEF SweepTask, Row, RegistrationStatus
  <2>4. done.id = t.id /\ done.row = t.row
    BY <2>2 DEF SweepTask
  <2> HIDE DEF row, done
  <2>5. Released' = Released /\ t.id \in Released'
    BY <1>2, <2>1, <2>2 DEF Released, Excused
  <2>6. Moves
    BY <2>1, <2>2, <2>3, <2>5, KnownSaved
  <2>7. \A j \in CronJobs : \A u \in sweep'[j] : u = done \/ u \in sweep[j]
    BY <1>3, <2>1 DEF RegTypeOK
  <2>8. Known(done.id, done.row) /\ done.id \in overdue
    BY <2>2, <2>4
  <2>9. BatchesKnown'
    BY <2>1, <2>6, <2>7, <2>8, KnownStays DEF BackIInv, BatchesKnown
  <2>10. QED
    BY <1>4, <2>6, <2>9
<1>9. ASSUME UNCHANGED <<reg, overdue>>, NEW k \in CronJobs, NEW T \in SUBSET sweep[k],
             sweep' = [sweep EXCEPT ![k] = T]
      PROVE  BackIInv' /\ BookStep
  <2>1. Moves
    BY <1>2, <1>9, QuietMoves DEF Released, Excused
  <2>2. \A j \in CronJobs : sweep'[j] \subseteq sweep[j]
    BY <1>3, <1>9 DEF RegTypeOK
  <2>3. BatchesKnown'
    BY <1>9, <2>1, <2>2, KnownStays DEF BackIInv, BatchesKnown
  <2>4. QED
    BY <1>4, <2>1, <2>3
<1>10. ASSUME NEW k \in CronJobs, NEW t \in sweep[k], SweepAnnounce(k, t)
      PROVE  BackIInv' /\ BookStep
  BY <1>9, <1>10, sweep[k] \ {t} \in SUBSET sweep[k] DEF SweepAnnounce
<1>11. ASSUME NEW k \in CronJobs, SweepAbort(k)
      PROVE  BackIInv' /\ BookStep
  BY <1>9, <1>11, {} \in SUBSET sweep[k] DEF SweepAbort
<1>12. QED
  BY <1>5, <1>6, <1>7, <1>8, <1>10, <1>11 DEF RegNext

\* The door.
LEMMA BackDoor ==
  ASSUME BackIInv, DoorNext, UNCHANGED <<moneyVars, backVars>>
  PROVE  BackIInv' /\ BookStep
<1>1. /\ UNCHANGED <<pay, teller, captured, vouched, refund, clerk, approved, contested>>
      /\ MoneyTypeOK' /\ DisputesTypeOK' /\ NoLoss
  BY DEF moneyVars, backVars, BackIInv, BackTypes, MoneyTypeOK, DisputesTypeOK, NoLoss
<1>2. RegTypeOK /\ DoorTypeOK
  BY DEF BackIInv, BackTypes
<1> DEFINE rest == <<overdue, sweep, offered, told, aborts>>
<1>3. ASSUME UNCHANGED rest, Moves, DoorTypeOK', DesksKnown'
      PROVE  BackIInv' /\ BookStep
  <2>1. RegTypeOK'
    BY <1>2, <1>3, MovesKeepRows DEF RegTypeOK
  <2>2. QED
    BY <1>1, <1>3, <2>1, OthersStaySure, BackKept DEF BackTypes
<1>4. ASSUME NEW d \in Desks, Moves, desk' = [desk EXCEPT ![d] = {}]
      PROVE  DesksKnown' /\ desk' \in [Desks -> SUBSET DeskTask]
  <2>1. desk' \in [Desks -> SUBSET DeskTask] /\ \A e \in Desks : desk'[e] \subseteq desk[e]
    BY <1>2, <1>4 DEF DoorTypeOK
  <2>2. QED
    BY <1>4, <2>1, KnownStays DEF BackIInv, DesksKnown
<1>5. ASSUME NEW d \in Desks, NEW u \in DeskTask, Moves, Known(u.id, u.row)',
             desk' = [desk EXCEPT ![d] = {u}]
      PROVE  DesksKnown' /\ desk' \in [Desks -> SUBSET DeskTask]
  <2>1. desk' \in [Desks -> SUBSET DeskTask]
    BY <1>2, <1>5 DEF DoorTypeOK
  <2>2. \A e \in Desks : \A t \in desk'[e] : t = u \/ t \in desk[e]
    BY <1>2, <1>5 DEF DoorTypeOK
  <2>3. QED
    BY <1>5, <2>1, <2>2, KnownStays DEF BackIInv, DesksKnown
<1>6. ASSUME NEW a, Present(a), UNCHANGED <<reg, overdue>>, inside' \in {inside, inside \cup {a}}
      PROVE  Moves
  <2>1. Released' = Released \/ Released' = Released \cup {a}
    BY <1>1, <1>6 DEF Released, Excused
  <2>2. QED
    BY <1>6, <2>1, QuietMoves
\* Reading a row.
<1>7. ASSUME NEW d \in Desks, NEW step \in DeskStep, NEW a \in Attendees, NEW in \in SUBSET Sessions,
             Begin(d, step, a, in), reg[a].status # "ABSENT",
             UNCHANGED <<regVars, ins, outs, inside>>
      PROVE  BackIInv' /\ BookStep
  <2>0. PICK u : u = [step |-> step, id |-> a, row |-> reg[a], in |-> in]
    OBVIOUS
  <2>1. desk' = [desk EXCEPT ![d] = {u}] /\ UNCHANGED <<reg, rest, ins, outs, inside>>
    BY <1>7, <2>0 DEF Begin, regVars
  <2>2. u \in DeskTask /\ u.id = a /\ u.row = reg[a]
    BY <1>2, <1>7, <2>0 DEF DeskTask, RegTypeOK
  <2>3. Known(u.id, u.row) /\ Present(a)
    BY <1>7, <2>2, ReadIsKnown DEF Present
  <2>4. Moves
    BY <1>6, <2>1, <2>3
  <2>5. Known(u.id, u.row)'
    BY <2>3, <2>4, KnownStays
  <2>6. DesksKnown' /\ desk' \in [Desks -> SUBSET DeskTask]
    BY <1>5, <2>1, <2>2, <2>4, <2>5
  <2>7. DoorTypeOK'
    BY <1>2, <2>1, <2>6 DEF DoorTypeOK
  <2>8. QED
    BY <1>3, <2>1, <2>4, <2>6, <2>7
\* Saving it with other columns.
<1>8. ASSUME NEW d \in Desks, NEW t \in desk[d], NEW r \in Row, Save(t.id, r), Done(d), Admit(t.id),
             r.status # "ABSENT",
             UNCHANGED <<rest, ins, outs>>
      PROVE  BackIInv' /\ BookStep
  <2>1. Known(t.id, t.row) /\ t.id \in Attendees
    BY DEF BackIInv, DesksKnown, Known, Present
  <2>2. /\ desk' = [desk EXCEPT ![d] = {}]
        /\ inside' = inside \cup {t.id}
        /\ UNCHANGED <<overdue, contested>>
    BY <1>1, <1>8 DEF Done, Admit
  <2>3. Released' = Released \cup {t.id}
    BY <2>2 DEF Released, Excused
  <2>4. Moves
    BY <1>8, <2>1, <2>2, <2>3, KnownSaved
  <2>5. DesksKnown' /\ desk' \in [Desks -> SUBSET DeskTask]
    BY <1>4, <2>2, <2>4
  <2>6. DoorTypeOK'
    BY <1>2, <1>8, <2>1, <2>2, <2>5 DEF DoorTypeOK
  <2>7. QED
    BY <1>3, <1>8, <2>4, <2>5, <2>6
\* Going on, or answering.
<1>9. ASSUME NEW d \in Desks, NEW t \in desk[d], NEW step \in DeskStep,
             Done(d) \/ Continue(d, t, step),
             UNCHANGED regVars, inside' \in {inside, inside \cup {t.id}},
             ins' \subseteq Visit, outs' \subseteq Visit
      PROVE  BackIInv' /\ BookStep
  <2> DEFINE u == [t EXCEPT !.step = step]
  <2>1. t \in DeskTask /\ t.id \in Attendees /\ Known(t.id, t.row) /\ Present(t.id)
    BY <1>2 DEF DoorTypeOK, DeskTask, BackIInv, DesksKnown, Known
  <2>2. UNCHANGED <<reg, rest>> /\ inside' \subseteq Attendees
    BY <1>2, <1>9, <2>1 DEF regVars, DoorTypeOK
  <2>3. Moves
    BY <1>6, <1>9, <2>1, <2>2
  <2>4. DesksKnown' /\ desk' \in [Desks -> SUBSET DeskTask]
    <3>1. CASE Done(d)
      BY <1>4, <2>3, <3>1 DEF Done
    <3>2. CASE Continue(d, t, step)
      <4>1. u \in DeskTask /\ u.id = t.id /\ u.row = t.row
        BY <2>1 DEF DeskTask
      <4>2. desk' = [desk EXCEPT ![d] = {u}]
        BY <3>2 DEF Continue
      <4> HIDE DEF u
      <4>3. Known(u.id, u.row)'
        BY <2>1, <2>3, <4>1, KnownStays
      <4>4. QED
        BY <1>5, <2>3, <4>1, <4>2, <4>3
    <3>3. QED
      BY <1>9, <3>1, <3>2
  <2>5. DoorTypeOK'
    BY <1>9, <2>2, <2>4 DEF DoorTypeOK
  <2>6. QED
    BY <1>3, <2>2, <2>3, <2>4, <2>5
<1>10. ASSUME NEW d \in Desks, DeskStart(d)
       PROVE  BackIInv' /\ BookStep
  <2>1. PICK a \in Attendees :
           \/ LegacyRead(d, a) \/ EventRead(d, a)
           \/ \E s \in Sessions : SessionRead(d, a, s) \/ OutRead(d, a, s)
    BY <1>10 DEF DeskStart
  <2>2. ValidTicket(a) => reg[a].status # "ABSENT"
    BY DEF ValidTicket
  <2>3. {"save", "saveAttended", "lookup", "leave"} \subseteq DeskStep
    BY DEF DeskStep
  <2>4. CASE LegacyRead(d, a) \/ EventRead(d, a)
    BY <1>7, <2>2, <2>3, <2>4, {} \in SUBSET Sessions DEF LegacyRead, EventRead
  <2>5. ASSUME NEW s \in Sessions, SessionRead(d, a, s) \/ OutRead(d, a, s)
        PROVE  BackIInv' /\ BookStep
    BY <1>7, <2>2, <2>3, <2>5, {s} \in SUBSET Sessions DEF SessionRead, OutRead
  <2>6. QED
    BY <2>1, <2>4, <2>5
<1>11. ASSUME NEW d \in Desks, NEW t \in desk[d], LegacySave(d, t) \/ AttendedSave(d, t)
       PROVE  BackIInv' /\ BookStep
  <2>1. t.row \in Row /\ t.row.status # "ABSENT"
    BY <1>2 DEF DoorTypeOK, DeskTask, BackIInv, DesksKnown, Known
  <2>2. CASE LegacySave(d, t)
    <3> DEFINE r == [t.row EXCEPT !.attended = TRUE]
    <3>1. r \in Row /\ r.status # "ABSENT"
      BY <2>1 DEF Row
    <3>2. Save(t.id, r) /\ Done(d) /\ Admit(t.id) /\ UNCHANGED <<rest, ins, outs>>
      BY <2>2 DEF LegacySave
    <3> HIDE DEF r
    <3>3. QED
      BY <1>8, <3>1, <3>2
  <2>3. CASE AttendedSave(d, t)
    <3> DEFINE r == [t.row EXCEPT !.attended = TRUE, !.status = "ATTENDED"]
    <3>1. r \in Row /\ r.status # "ABSENT"
      BY <2>1 DEF Row, RegistrationStatus
    <3>2. Save(t.id, r) /\ Done(d) /\ Admit(t.id) /\ UNCHANGED <<rest, ins, outs>>
      BY <2>3 DEF AttendedSave
    <3> HIDE DEF r
    <3>3. QED
      BY <1>8, <3>1, <3>2
  <2>4. QED
    BY <1>11, <2>2, <2>3
<1>12. ASSUME NEW d \in Desks, NEW t \in desk[d],
              SessionLookup(d, t) \/ SessionAttend(d, t) \/ OutSave(d, t)
       PROVE  BackIInv' /\ BookStep
  <2>1. t.id \in Attendees /\ t.in \subseteq Sessions /\ ins \subseteq Visit /\ outs \subseteq Visit
    BY <1>2 DEF DoorTypeOK, DeskTask
  <2>2. {t.id} \X t.in \subseteq Visit
    BY <2>1 DEF Visit
  <2>3. {"attend", "saveAttended"} \subseteq DeskStep
    BY DEF DeskStep
  <2>4. CASE SessionLookup(d, t)
    BY <1>9, <2>1, <2>3, <2>4 DEF SessionLookup, Admit
  <2>5. CASE SessionAttend(d, t)
    BY <1>9, <2>1, <2>2, <2>3, <2>5 DEF SessionAttend, Admit
  <2>6. CASE OutSave(d, t)
    BY <1>9, <2>1, <2>2, <2>3, <2>6 DEF OutSave
  <2>7. QED
    BY <1>12, <2>4, <2>5, <2>6
<1>13. ASSUME NEW d \in Desks, DeskFail(d)
       PROVE  BackIInv' /\ BookStep
  <2>1. PICK t \in desk[d] : TRUE
    BY <1>13 DEF DeskFail
  <2>2. QED
    BY <1>2, <1>9, <1>13, <2>1, "save" \in DeskStep DEF DeskFail, DoorTypeOK, DeskStep
<1>14. QED
  BY <1>10, <1>11, <1>12, <1>13 DEF DoorNext, DeskGoOn

-----------------------------------------------------------------------------

\* A payment is saved for a registration, and says the truth.
LEMMA PaySaved ==
  ASSUME BackIInv, Moves, NoLoss, NEW a \in Attendees, NEW payment \in PayRow,
         UNCHANGED pay \/ SavePay(a, payment), Present(a), Backed(a, payment)'
  PROVE  PaymentsBacked' /\ pay' \in [Attendees -> PayRow]
<1>1. pay \in [Attendees -> PayRow] /\ PaymentsBacked
  BY DEF BackIInv, BackTypes, MoneyTypeOK
<1>2. \A b : Vouched(b) => Vouched(b)'
  BY DEF NoLoss, Vouched
<1>3. CASE UNCHANGED pay
  BY <1>1, <1>3, OthersStaySure
<1>4. CASE SavePay(a, payment)
  <2>1. /\ pay' \in [Attendees -> PayRow]
        /\ \A b \in Attendees : pay'[b] = IF b = a THEN payment ELSE pay[b]
    BY <1>1, <1>4 DEF SavePay
  <2>2. PaymentsBacked'
    <3> SUFFICES ASSUME NEW b \in Attendees
                 PROVE  /\ pay'[b].status # "ABSENT" \/ pay'[b].disputed => Present(b)'
                        /\ Backed(b, pay[b])'
      BY DEF PaymentsBacked
    <3>1. CASE b = a
      BY <2>1, <3>1, MovesKeepRows DEF Backed
    <3>2. CASE b # a
      BY <1>1, <1>2, <2>1, <3>2, MovesKeepRows DEF PaymentsBacked, Backed
    <3>3. QED
      BY <3>1, <3>2
  <2>3. QED
    BY <2>1, <2>2
<1>5. QED
  BY <1>3, <1>4

\* The payments.
LEMMA BackMoney ==
  ASSUME BackIInv, MoneyNext, UNCHANGED backVars
  PROVE  BackIInv' /\ BookStep
<1>1. UNCHANGED <<refund, clerk, approved, contested>> /\ DisputesTypeOK'
  BY DEF backVars, BackIInv, BackTypes, DisputesTypeOK
<1>2. RegTypeOK /\ MoneyTypeOK /\ TellersSure /\ PaymentsBacked
  BY DEF BackIInv, BackTypes
<1> DEFINE rest == <<overdue, sweep, offered, told, aborts, doorVars>>
           grows == captured \subseteq captured' /\ vouched \subseteq vouched'
                    /\ captured' \subseteq Attendees /\ vouched' \subseteq Attendees
<1>3. ASSUME UNCHANGED rest, Moves, TellersSure', PaymentsBacked', grows,
             pay' \in [Attendees -> PayRow], teller' \in [Tellers -> SUBSET TellerTask]
      PROVE  BackIInv' /\ BookStep
  <2>1. RegTypeOK' /\ DoorTypeOK' /\ MoneyTypeOK' /\ UNCHANGED <<sweep, desk>>
    BY <1>2, <1>3, MovesKeepRows DEF RegTypeOK, DoorTypeOK, MoneyTypeOK, doorVars, BackIInv, BackTypes
  <2>2. NoLoss
    BY <1>1, <1>3 DEF NoLoss
  <2>3. QED
    BY <1>1, <1>3, <2>1, <2>2, OthersStaySure, BackKept DEF BackTypes
<1>4. ASSUME UNCHANGED checkInVars
      PROVE  Moves /\ UNCHANGED rest
  <2>1. UNCHANGED <<reg, overdue, inside, contested, rest>>
    BY <1>1, <1>4 DEF checkInVars, regVars, doorVars
  <2>2. QED
    BY <2>1, QuietMoves DEF Released, Excused
\* The request a step leaves.
<1>5. ASSUME NEW p \in Tellers, NEW T \in SUBSET TellerTask, Moves, UNCHANGED rest, grows,
             PaymentsBacked', pay' \in [Attendees -> PayRow],
             \A u \in T : TellerSure(u)', teller' = [teller EXCEPT ![p] = T]
      PROVE  BackIInv' /\ BookStep
  <2>1. teller' \in [Tellers -> SUBSET TellerTask]
        /\ \A q \in Tellers : teller'[q] = IF q = p THEN T ELSE teller[q]
    BY <1>2, <1>5 DEF MoneyTypeOK
  <2>2. NoLoss
    BY <1>1, <1>5 DEF NoLoss
  <2>3. TellersSure'
    BY <1>2, <1>5, <2>1, <2>2, TellerStays DEF TellersSure
  <2>4. QED
    BY <1>3, <1>5, <2>1, <2>3
<1>6. ASSUME NEW p \in Tellers, NEW step \in TellerStep, NEW a \in Attendees, NEW payment \in PayRow,
             Load(p, step, a, payment), Present(a), Backed(a, payment),
             step \in {"insert", "capture", "report", "approveSeat", "reject"},
             step = "approveSeat" => a \in vouched',
             UNCHANGED <<checkInVars, pay>>, vouched' \in {vouched, vouched \cup {a}}, UNCHANGED captured
      PROVE  BackIInv' /\ BookStep
  <2>0. PICK u : u = [step |-> step, id |-> a, pay |-> payment,
                      row  |-> IF step \in {"capture", "approveSeat"} THEN reg[a] ELSE NoRow]
    OBVIOUS
  <2>1. teller' = [teller EXCEPT ![p] = {u}]
    BY <1>6, <2>0 DEF Load
  <2>2. NoRow \in Row
    BY DEF NoRow, Row
  <2>3. u \in TellerTask /\ u.id = a /\ u.step = step /\ u.pay = payment
        /\ (step \in {"capture", "approveSeat"} => u.row = reg[a])
    BY <1>2, <1>6, <2>0, <2>2 DEF TellerTask, RegTypeOK
  <2>4. Moves /\ UNCHANGED rest /\ grows /\ NoLoss
    BY <1>1, <1>2, <1>4, <1>6 DEF MoneyTypeOK, NoLoss
  <2>5. Present(u.id)' /\ Backed(u.id, u.pay)'
    BY <1>6, <2>3, <2>4, MovesKeepRows DEF Backed, NoLoss, Vouched
  <2>6. step \in {"capture", "approveSeat"} => Known(u.id, u.row)'
    BY <1>6, <2>3, <2>4, ReadIsKnown, KnownStays
  <2>7. TellerSure(u)'
    BY <1>6, <2>3, <2>5, <2>6 DEF TellerSure
  <2>8. {u} \in SUBSET TellerTask /\ \A v \in {u} : TellerSure(v)'
    BY <2>3, <2>7
  <2>9. PaymentsBacked' /\ pay' \in [Attendees -> PayRow]
    BY <1>2, <1>6, <2>4, OthersStaySure DEF MoneyTypeOK
  <2>10. QED
    BY <1>5, <2>1, <2>4, <2>8, <2>9
\* The request goes on to `step', or is answered.
<1>7. ASSUME NEW p \in Tellers, NEW t \in teller[p], NEW step \in TellerStep,
             Answer(p) \/ GoTo(p, t, step),
             step \in {"savePaid", "confirm", "approvePay"},
             step \in {"savePaid", "confirm"} =>
                Known(t.id, t.row)' /\ t.id \in captured',
             step = "approvePay" => t.id \in vouched',
             Moves, UNCHANGED rest, grows, PaymentsBacked', pay' \in [Attendees -> PayRow]
      PROVE  BackIInv' /\ BookStep
  <2>1. t \in TellerTask /\ TellerSure(t)
    BY <1>2 DEF MoneyTypeOK, TellersSure
  <2>2. NoLoss
    BY <1>1, <1>7 DEF NoLoss
  <2>3. CASE Answer(p)
    <3>1. teller' = [teller EXCEPT ![p] = {}]
      BY <2>3 DEF Answer
    <3>2. QED
      BY <1>5, <1>7, <3>1, {} \in SUBSET TellerTask
  <2>4. CASE GoTo(p, t, step)
    <3> DEFINE u == [t EXCEPT !.step = step]
    <3>1. teller' = [teller EXCEPT ![p] = {u}]
      BY <2>4 DEF GoTo
    <3>2. u \in TellerTask /\ u.id = t.id /\ u.row = t.row /\ u.pay = t.pay /\ u.step = step
      BY <2>1 DEF TellerTask
    <3> HIDE DEF u
    <3>3. TellerSure(t)'
      BY <1>7, <2>1, <2>2, TellerStays
    <3>4. TellerSure(u)'
      BY <1>7, <3>2, <3>3 DEF TellerSure
    <3>5. {u} \in SUBSET TellerTask /\ \A v \in {u} : TellerSure(v)'
      BY <3>2, <3>4
    <3>6. QED
      BY <1>5, <1>7, <3>1, <3>5
  <2>5. QED
    BY <1>7, <2>3, <2>4
<1>8. ASSUME NEW a \in Attendees, Payable(a) \/ Open(a)
      PROVE  Present(a) /\ Backed(a, pay[a]) /\ pay[a] \in PayRow
  BY <1>2, <1>8 DEF Payable, Open, PaymentsBacked, Present, MoneyTypeOK
<1>9. {"insert", "capture", "savePaid", "confirm", "report", "approveSeat", "approvePay", "reject"}
          \subseteq TellerStep
  BY DEF TellerStep
<1>10. ASSUME NEW p \in Tellers, TellerStart(p)
       PROVE  BackIInv' /\ BookStep
  <2>1. PICK a \in Attendees :
           \/ \E viaPaypal \in BOOLEAN : IntentRead(p, a, viaPaypal)
           \/ PaypalRead(p, a)
           \/ ReportRead(p, a)
           \/ \E isApproved \in BOOLEAN : ReviewRead(p, a, isApproved)
    BY <1>10 DEF TellerStart
  <2>2. ASSUME NEW viaPaypal \in BOOLEAN, IntentRead(p, a, viaPaypal)
        PROVE  BackIInv' /\ BookStep
    <3> DEFINE payment == [status |-> "PENDING", order |-> viaPaypal, disputed |-> FALSE]
    <3>1. payment \in PayRow /\ Backed(a, payment)
      BY DEF PayRow, PaymentStatus, Backed
    <3>2. Load(p, "insert", a, payment)
      BY <2>2 DEF IntentRead
    <3> HIDE DEF payment
    <3>3. QED
      BY <1>6, <1>8, <1>9, <2>2, <3>1, <3>2 DEF IntentRead
  <2>3. CASE PaypalRead(p, a)
    BY <1>6, <1>8, <1>9, <2>3 DEF PaypalRead
  <2>4. CASE ReportRead(p, a)
    BY <1>6, <1>8, <1>9, <2>4 DEF ReportRead
  <2>5. ASSUME NEW isApproved \in BOOLEAN, ReviewRead(p, a, isApproved)
        PROVE  BackIInv' /\ BookStep
    <3>1. CASE isApproved
      BY <1>6, <1>8, <1>9, <2>5, <3>1 DEF ReviewRead
    <3>2. CASE ~isApproved
      BY <1>6, <1>8, <1>9, <2>5, <3>2 DEF ReviewRead
    <3>3. QED
      BY <3>1, <3>2
  <2>6. QED
    BY <2>1, <2>2, <2>3, <2>4, <2>5
\* A payment is saved, or PayPal takes the money.
<1>11. ASSUME NEW p \in Tellers, NEW t \in teller[p], NEW payment \in PayRow, NEW step \in TellerStep,
              UNCHANGED pay \/ SavePay(t.id, payment), Backed(t.id, payment),
              Answer(p) \/ GoTo(p, t, step),
              step \in {"savePaid", "confirm"}, Known(t.id, t.row), t.id \in captured',
              UNCHANGED <<checkInVars, vouched>>, captured' \in {captured, captured \cup {t.id}}
       PROVE  BackIInv' /\ BookStep
  <2>1. t.id \in Attendees /\ Present(t.id)
    BY <1>2 DEF MoneyTypeOK, TellerTask, TellersSure, TellerSure
  <2>2. Moves /\ UNCHANGED rest /\ grows /\ NoLoss
    BY <1>1, <1>2, <1>4, <1>11, <2>1 DEF MoneyTypeOK, NoLoss
  <2>3. Backed(t.id, payment)'
    BY <1>11, <2>2 DEF Backed, NoLoss, Vouched
  <2>4. PaymentsBacked' /\ pay' \in [Attendees -> PayRow]
    BY <1>11, <2>1, <2>2, <2>3, PaySaved
  <2>5. /\ Known(t.id, t.row)' /\ t.id \in captured' /\ (Answer(p) \/ GoTo(p, t, step))
        /\ step \in {"savePaid", "confirm"} /\ step \in {"savePaid", "confirm", "approvePay"}
        /\ step # "approvePay"
    BY <1>11, <2>2, KnownStays
  <2>6. QED
    BY <1>7, <2>2, <2>4, <2>5
\* A payment is saved and the request answered.
<1>12. ASSUME NEW p \in Tellers, NEW t \in teller[p], NEW payment \in PayRow,
              UNCHANGED pay \/ SavePay(t.id, payment), Backed(t.id, payment), Answer(p),
              UNCHANGED <<checkInVars, captured, vouched>>
       PROVE  BackIInv' /\ BookStep
  <2>1. t.id \in Attendees /\ Present(t.id)
    BY <1>2 DEF MoneyTypeOK, TellerTask, TellersSure, TellerSure
  <2>2. Moves /\ UNCHANGED rest /\ grows /\ NoLoss
    BY <1>1, <1>2, <1>4, <1>12 DEF MoneyTypeOK, NoLoss
  <2>3. Backed(t.id, payment)'
    BY <1>12 DEF Backed, Vouched
  <2>4. PaymentsBacked' /\ pay' \in [Attendees -> PayRow]
    BY <1>12, <2>1, <2>2, <2>3, PaySaved
  <2>5. teller' = [teller EXCEPT ![p] = {}] /\ {} \in SUBSET TellerTask
    BY <1>12 DEF Answer
  <2>6. QED
    BY <1>5, <2>2, <2>4, <2>5
\* A seat is confirmed.
<1>13. ASSUME NEW p \in Tellers, NEW t \in teller[p], NEW step \in TellerStep,
              t.step \in {"confirm", "approveSeat"},
              Save(t.id, [t.row EXCEPT !.status = "CONFIRMED"]),
              Answer(p) \/ GoTo(p, t, step), step = "approvePay",
              t.id \in vouched \/ Answer(p),
              UNCHANGED <<rest, pay, captured, vouched>>
       PROVE  BackIInv' /\ BookStep
  <2>1. t.id \in Attendees /\ Known(t.id, t.row) /\ TellerSure(t)
    BY <1>2, <1>13 DEF MoneyTypeOK, TellerTask, TellersSure, TellerSure
  <2> DEFINE r == [t.row EXCEPT !.status = "CONFIRMED"]
  <2>2. r \in Row /\ r.status = "CONFIRMED"
    BY <2>1 DEF Known, Row, RegistrationStatus
  <2>3. Save(t.id, r)
    BY <1>13
  <2> HIDE DEF r
  <2>4. overdue' = overdue /\ Released' = Released
    BY <1>1, <1>13 DEF doorVars, Released, Excused
  <2>5. Moves
    BY <2>1, <2>2, <2>3, <2>4, KnownSaved DEF CountedStatus
  <2>6. grows /\ NoLoss /\ UNCHANGED rest
    BY <1>1, <1>2, <1>13 DEF MoneyTypeOK, NoLoss
  <2>7. PaymentsBacked' /\ pay' \in [Attendees -> PayRow]
    BY <1>2, <1>13, <2>5, <2>6, OthersStaySure DEF MoneyTypeOK
  <2>8. CASE Answer(p)
    <3>1. teller' = [teller EXCEPT ![p] = {}] /\ {} \in SUBSET TellerTask
      BY <2>8 DEF Answer
    <3>2. QED
      BY <1>5, <2>5, <2>6, <2>7, <3>1
  <2>9. CASE GoTo(p, t, "approvePay") /\ t.id \in vouched
    <3>1. t.id \in vouched'
      BY <2>6, <2>9
    <3>2. QED
      BY <1>7, <1>9, <2>5, <2>6, <2>7, <2>9, <3>1
  <2>10. (Answer(p) \/ GoTo(p, t, "approvePay")) /\ (t.id \in vouched \/ Answer(p))
    BY <1>13
  <2>11. QED
    BY <2>8, <2>9, <2>10
<1>14. ASSUME NEW p \in Tellers, TellerGoOn(p)
       PROVE  BackIInv' /\ BookStep
  <2>1. PICK t \in teller[p] :
           \/ IntentInsert(p, t) \/ PaypalCapture(p, t) \/ PaypalSavePay(p, t)
           \/ PaypalSaveSeat(p, t) \/ ReportSave(p, t) \/ ApproveSaveSeat(p, t)
           \/ ApproveSavePay(p, t) \/ RejectSave(p, t)
    BY <1>14 DEF TellerGoOn
  <2>2. t.pay \in PayRow /\ TellerSure(t) /\ Backed(t.id, t.pay)
    BY <1>2 DEF MoneyTypeOK, TellerTask, TellersSure, TellerSure
  <2>3. \A s \in PaymentStatus : [t.pay EXCEPT !.status = s] \in PayRow
    BY <2>2 DEF PayRow
  <2>4. {"COMPLETED", "WAITING_APPROVAL", "REJECTED"} \subseteq PaymentStatus
    BY DEF PaymentStatus
  <2>5. Vouched(t.id) => Backed(t.id, [t.pay EXCEPT !.status = "COMPLETED"])
    BY DEF Backed
  <2>6. /\ Backed(t.id, [t.pay EXCEPT !.status = "WAITING_APPROVAL"])
        /\ Backed(t.id, [t.pay EXCEPT !.status = "REJECTED"])
    BY <2>2 DEF Backed, PayRow
  <2>7. CASE IntentInsert(p, t)
    BY <1>12, <2>2, <2>7 DEF IntentInsert
  <2>8. CASE PaypalCapture(p, t)
    <3>1. Known(t.id, t.row) /\ captured' = captured \cup {t.id} /\ (Answer(p) \/ GoTo(p, t, "savePaid"))
          /\ UNCHANGED <<checkInVars, pay, vouched>>
      BY <2>2, <2>8 DEF PaypalCapture, TellerSure
    <3>2. t.id \in captured'
      BY <3>1
    <3>3. QED
      BY <1>9, <1>11, <2>2, <3>1, <3>2
  <2>9. CASE PaypalSavePay(p, t)
    <3> DEFINE payment == [t.pay EXCEPT !.status = "COMPLETED"]
    <3>1. Known(t.id, t.row) /\ t.id \in captured /\ Vouched(t.id)
      BY <2>2, <2>9 DEF PaypalSavePay, TellerSure, Vouched
    <3>2. payment \in PayRow /\ Backed(t.id, payment) /\ SavePay(t.id, payment)
      BY <2>3, <2>4, <2>5, <2>9, <3>1 DEF PaypalSavePay
    <3>3. GoTo(p, t, "confirm") /\ UNCHANGED <<checkInVars, captured, vouched>>
      BY <2>9 DEF PaypalSavePay
    <3> HIDE DEF payment
    <3>4. QED
      BY <1>9, <1>11, <3>1, <3>2, <3>3
  <2>10. CASE PaypalSaveSeat(p, t)
    BY <1>9, <1>13, <2>10 DEF PaypalSaveSeat
  <2>11. CASE ReportSave(p, t)
    <3> DEFINE payment == [t.pay EXCEPT !.status = "WAITING_APPROVAL"]
    <3>1. payment \in PayRow /\ Backed(t.id, payment) /\ SavePay(t.id, payment) /\ Answer(p)
          /\ UNCHANGED <<checkInVars, captured, vouched>>
      BY <2>3, <2>4, <2>6, <2>11 DEF ReportSave
    <3> HIDE DEF payment
    <3>2. QED
      BY <1>12, <3>1
  <2>12. CASE ApproveSaveSeat(p, t)
    <3>1. t.id \in vouched
      BY <2>2, <2>12 DEF ApproveSaveSeat, TellerSure
    <3>2. QED
      BY <1>9, <1>13, <2>12, <3>1 DEF ApproveSaveSeat
  <2>13. CASE ApproveSavePay(p, t)
    <3> DEFINE payment == [t.pay EXCEPT !.status = "COMPLETED"]
    <3>1. t.id \in vouched /\ Vouched(t.id)
      BY <2>2, <2>13 DEF ApproveSavePay, TellerSure, Vouched
    <3>2. payment \in PayRow /\ Backed(t.id, payment) /\ SavePay(t.id, payment)
      BY <2>3, <2>4, <2>5, <2>13, <3>1 DEF ApproveSavePay
    <3>3. Answer(p) /\ UNCHANGED <<checkInVars, captured, vouched>>
      BY <2>13 DEF ApproveSavePay
    <3> HIDE DEF payment
    <3>4. QED
      BY <1>12, <3>2, <3>3
  <2>14. CASE RejectSave(p, t)
    <3> DEFINE payment == [t.pay EXCEPT !.status = "REJECTED"]
    <3>1. payment \in PayRow /\ Backed(t.id, payment) /\ SavePay(t.id, payment) /\ Answer(p)
          /\ UNCHANGED <<checkInVars, captured, vouched>>
      BY <2>3, <2>4, <2>6, <2>14 DEF RejectSave
    <3> HIDE DEF payment
    <3>2. QED
      BY <1>12, <3>1
  <2>15. QED
    BY <2>1, <2>7, <2>8, <2>9, <2>10, <2>11, <2>12, <2>13, <2>14
<1>15. ASSUME NEW p \in Tellers, TellerFail(p)
       PROVE  BackIInv' /\ BookStep
  <2>1. PICK t \in teller[p] : TRUE
    BY <1>15 DEF TellerFail
  <2>2. t.pay \in PayRow /\ Backed(t.id, t.pay)
    BY <1>2 DEF MoneyTypeOK, TellerTask, TellersSure, TellerSure
  <2>3. QED
    BY <1>15, <1>12, <2>2 DEF TellerFail
<1>16. QED
  BY <1>10, <1>14, <1>15 DEF MoneyNext

-----------------------------------------------------------------------------

\* A refund is saved for a registration somebody paid for, and goes forward
\* only when it is approved.
LEMMA RefundSaved ==
  ASSUME BackIInv, Moves, NoLoss, NEW i \in RefundId, NEW r \in RefundRow,
         refund' = [refund EXCEPT ![i] = r], Present(i[1]), Vouched(i[1]),
         r.status \in {"APPROVED", "PROCESSING", "COMPLETED"} => i \in approved'
  PROVE  RefundsSure' /\ refund' \in [RefundId -> RefundRow]
<1>1. refund \in [RefundId -> RefundRow] /\ RefundsSure
  BY DEF BackIInv, BackTypes, DisputesTypeOK
<1>2. \A b : Vouched(b) => Vouched(b)'
  BY DEF NoLoss, Vouched
<1>3. \A j \in RefundId : j[1] \in Attendees
  BY DEF RefundId
<1>4. refund' \in [RefundId -> RefundRow]
      /\ \A j \in RefundId : refund'[j] = IF j = i THEN r ELSE refund[j]
  BY <1>1
<1>5. RefundsSure'
  <2> SUFFICES ASSUME NEW j \in RefundId
               PROVE  /\ refund'[j].status # "ABSENT" => Present(j[1])' /\ Vouched(j[1])'
                      /\ refund'[j].status \in {"APPROVED", "PROCESSING", "COMPLETED"} => j \in approved'
    BY DEF RefundsSure
  <2>1. CASE j = i
    BY <1>2, <1>3, <1>4, <2>1, MovesKeepRows
  <2>2. CASE j # i
    BY <1>1, <1>2, <1>3, <1>4, <2>2, MovesKeepRows DEF RefundsSure, NoLoss
  <2>3. QED
    BY <2>1, <2>2
<1>6. QED
  BY <1>4, <1>5

\* What a clerk leaves as it was, whatever he saves.
ClerkRest ==
    <<overdue, sweep, offered, told, aborts, doorVars, teller, captured, vouched>>

\* One clerk replaces his task.
LEMMA ClerkReplaced ==
  ASSUME BackIInv, Moves, UNCHANGED ClerkRest,
         approved \subseteq approved', approved' \subseteq RefundId, contested' \subseteq Attendees,
         PaymentsBacked', pay' \in [Attendees -> PayRow],
         RefundsSure', refund' \in [RefundId -> RefundRow],
         NEW c \in Clerks, NEW T \in SUBSET ClerkTask,
         clerk' = [clerk EXCEPT ![c] = T], \A t \in T : ClerkSure(t)'
  PROVE  BackIInv' /\ BookStep
<1>1. UNCHANGED <<overdue, sweep, offered, told, aborts, desk, ins, outs, inside, teller, captured, vouched>>
  BY DEF ClerkRest, doorVars
<1>2. NoLoss
  BY <1>1 DEF NoLoss
<1>3. BackTypes /\ ClerksSure
  BY DEF BackIInv
<1>4. clerk' \in [Clerks -> SUBSET ClerkTask]
      /\ \A d \in Clerks : clerk'[d] = IF d = c THEN T ELSE clerk[d]
  BY <1>3 DEF BackTypes, DisputesTypeOK
<1>5. ClerksSure'
  BY <1>2, <1>3, <1>4, ClerkStays DEF ClerksSure
<1>6. RegTypeOK' /\ DoorTypeOK' /\ MoneyTypeOK' /\ DisputesTypeOK'
  BY <1>1, <1>3, <1>4, MovesKeepRows DEF BackTypes, RegTypeOK, DoorTypeOK, MoneyTypeOK, DisputesTypeOK
<1>7. QED
  BY <1>1, <1>2, <1>5, <1>6, OthersStaySure, BackKept DEF BackTypes

\* A clerk who is done, or goes on with the next save of a refund.
LEMMA ClerkGoesOn ==
  ASSUME BackIInv, Moves, UNCHANGED ClerkRest,
         approved \subseteq approved', approved' \subseteq RefundId, contested' \subseteq Attendees,
         PaymentsBacked', pay' \in [Attendees -> PayRow],
         RefundsSure', refund' \in [RefundId -> RefundRow],
         NEW c \in Clerks, NEW t \in clerk[c], NEW step \in ClerkStep,
         Close(c) \/ Proceed(c, t, step),
         \/ step = "request"
         \/ /\ t.step \in {"process", "payBack", "cancelSeat"}
            /\ step \in {"payBack", "cancelSeat", "complete"}
  PROVE  BackIInv' /\ BookStep
<1>1. CASE Close(c)
  BY <1>1, {} \in SUBSET ClerkTask, ClerkReplaced DEF Close
<1>2. CASE Proceed(c, t, step)
  <2> DEFINE u == [t EXCEPT !.step = step]
  <2>1. NoLoss
    BY DEF ClerkRest, NoLoss
  <2>2. t \in ClerkTask /\ ClerkSure(t) /\ ClerkSure(t)'
    BY <2>1, ClerkStays DEF BackIInv, BackTypes, DisputesTypeOK, ClerksSure
  <2>3. u \in ClerkTask /\ u.step = step /\ u.id = t.id /\ u.n = t.n /\ u.row = t.row
    BY <2>2 DEF ClerkTask
  <2>4. clerk' = [clerk EXCEPT ![c] = {u}]
    BY <1>2 DEF Proceed
  <2> HIDE DEF u
  <2>5. ClerkSure(u)'
    BY <2>2, <2>3 DEF ClerkSure
  <2>6. {u} \in SUBSET ClerkTask /\ \A v \in {u} : ClerkSure(v)'
    BY <2>3, <2>5
  <2>7. QED
    BY <2>4, <2>6, ClerkReplaced
<1>3. QED
  BY <1>1, <1>2

\* A clerk who writes no row of the registrations, and releases nobody.
LEMMA ClerkQuiet ==
  ASSUME BackIInv, UNCHANGED <<reg, ClerkRest, contested>>
  PROVE  Moves
<1>1. UNCHANGED <<overdue, inside>>
  BY DEF ClerkRest, doorVars
<1>2. QED
  BY <1>1, QuietMoves DEF Released, Excused

\* A request of an administrator, or of an attendee, begins.
LEMMA BackStart ==
  ASSUME BackIInv, NEW c \in Clerks, ClerkStart(c)
  PROVE  BackIInv' /\ BookStep
<1>1. PICK a \in Attendees :
         \/ RequestRead(c, a)
         \/ \E n \in 1..MaxRequests : ReviewRefundRead(c, a, n) \/ ProcessRead(c, a, n)
         \/ InitiateRead(c, a) \/ ConfirmRead(c, a) \/ ReverseRead(c, a)
  BY DEF ClerkStart
<1>2. /\ reg[a] \in Row /\ pay[a] \in PayRow
      /\ pay \in [Attendees -> PayRow] /\ refund \in [RefundId -> RefundRow]
      /\ approved \subseteq RefundId /\ contested \subseteq Attendees
  BY DEF BackIInv, BackTypes, RegTypeOK, MoneyTypeOK, DisputesTypeOK
<1>3. NoRow \in Row /\ NoPayment \in PayRow /\ NoRefund \in RefundRow
  BY DEF NoRow, Row, NoPayment, PayRow, NoRefund, RefundRow
<1>4. /\ 0 \in 0..MaxRequests /\ 1..MaxRequests \subseteq 0..MaxRequests
      /\ {"check", "decide", "process", "initiate", "confirmLoss", "reverse"} \subseteq ClerkStep
  BY RequestsAssumption DEF ClerkStep
\* The task that was taken is well-founded.
<1>5. ASSUME NEW u \in ClerkTask, Take(c, u), ClerkSure(u),
             UNCHANGED <<paymentVars, refund, approved, contested>>
      PROVE  BackIInv' /\ BookStep
  <2>1. UNCHANGED <<reg, pay, ClerkRest, captured, vouched>>
    BY <1>5 DEF paymentVars, checkInVars, regVars, moneyVars, ClerkRest
  <2>2. Moves /\ NoLoss
    BY <1>5, <2>1, ClerkQuiet DEF NoLoss
  <2>3. {u} \in SUBSET ClerkTask /\ \A v \in {u} : ClerkSure(v)'
    BY <1>5, <2>2, ClerkStays
  <2>4. clerk' = [clerk EXCEPT ![c] = {u}]
    BY <1>5 DEF Take
  <2>5. PaymentsBacked' /\ RefundsSure' /\ pay' \in [Attendees -> PayRow]
        /\ refund' \in [RefundId -> RefundRow]
    BY <1>2, <1>5, <2>1, <2>2, OthersStaySure
  <2>6. approved' = approved /\ contested' = contested /\ UNCHANGED ClerkRest
    BY <1>5, <2>1
  <2>7. QED
    BY <1>2, <2>2, <2>3, <2>4, <2>5, <2>6, ClerkReplaced
<1>6. pay[a].status = "COMPLETED" \/ pay[a].disputed => Present(a) /\ Vouched(a)
  BY DEF BackIInv, PaymentsBacked, Backed
<1>7. ASSUME NEW n \in 1..MaxRequests, refund[<<a, n>>].status # "ABSENT"
      PROVE  /\ Present(a) /\ Vouched(a) /\ refund[<<a, n>>] \in RefundRow
             /\ refund[<<a, n>>].status = "APPROVED" => <<a, n>> \in approved
  <2>1. <<a, n>> \in RefundId
    BY DEF RefundId
  <2>2. QED
    BY <1>2, <1>7, <2>1 DEF BackIInv, RefundsSure
<1>8. CASE RequestRead(c, a)
  <2>0. PICK u : u = [step |-> "check", id |-> a, n |-> 0,
                      refund |-> NoRefund, pay |-> NoPayment, row |-> NoRow]
    OBVIOUS
  <2>1. u \in ClerkTask
    BY <1>3, <1>4, <2>0 DEF ClerkTask
  <2>2. ClerkSure(u)
    BY <1>6, <1>8, <2>0 DEF RequestRead, Refundable, ClerkSure
  <2>3. QED
    BY <1>5, <1>8, <2>0, <2>1, <2>2 DEF RequestRead
<1>9. ASSUME NEW n \in 1..MaxRequests, ReviewRefundRead(c, a, n)
      PROVE  BackIInv' /\ BookStep
  <2>0. PICK u : u = [step |-> "decide", id |-> a, n |-> n,
                      refund |-> refund[<<a, n>>], pay |-> NoPayment, row |-> NoRow]
    OBVIOUS
  <2>1. Present(a) /\ Vouched(a) /\ refund[<<a, n>>] \in RefundRow
    BY <1>7, <1>9 DEF ReviewRefundRead
  <2>2. u \in ClerkTask
    BY <1>3, <1>4, <2>0, <2>1 DEF ClerkTask
  <2>3. ClerkSure(u)
    BY <2>0, <2>1 DEF ClerkSure
  <2>4. QED
    BY <1>5, <1>9, <2>0, <2>2, <2>3 DEF ReviewRefundRead
<1>10. ASSUME NEW n \in 1..MaxRequests, ProcessRead(c, a, n)
       PROVE  BackIInv' /\ BookStep
  <2>0. PICK u : u = [step |-> "process", id |-> a, n |-> n,
                      refund |-> refund[<<a, n>>], pay |-> pay[a], row |-> reg[a]]
    OBVIOUS
  <2>1. Present(a) /\ Vouched(a) /\ refund[<<a, n>>] \in RefundRow /\ <<a, n>> \in approved
    BY <1>7, <1>10 DEF ProcessRead
  <2>2. u \in ClerkTask
    BY <1>2, <1>4, <2>0, <2>1 DEF ClerkTask
  <2>3. Known(a, reg[a])
    BY <2>1, ReadIsKnown
  <2>4. ClerkSure(u)
    BY <2>0, <2>1, <2>3 DEF ClerkSure
  <2>5. QED
    BY <1>5, <1>10, <2>0, <2>2, <2>4 DEF ProcessRead
<1>11. ASSUME NEW step \in {"initiate", "confirmLoss", "reverse"}, Dispute(c, step, a),
              pay[a].status = "COMPLETED" \/ pay[a].disputed,
              UNCHANGED <<paymentVars, refund, approved, contested>>
       PROVE  BackIInv' /\ BookStep
  <2>0. PICK u : u = [step |-> step, id |-> a, n |-> 0,
                      refund |-> NoRefund, pay |-> pay[a], row |-> reg[a]]
    OBVIOUS
  <2>1. u \in ClerkTask
    BY <1>2, <1>3, <1>4, <2>0 DEF ClerkTask
  <2>2. Present(a) /\ Vouched(a) /\ Known(a, reg[a])
    BY <1>6, <1>11, ReadIsKnown
  <2>3. ClerkSure(u)
    BY <2>0, <2>2 DEF ClerkSure
  <2>4. QED
    BY <1>5, <1>11, <2>0, <2>1, <2>3 DEF Dispute
<1>12. CASE InitiateRead(c, a) \/ ConfirmRead(c, a) \/ ReverseRead(c, a)
  BY <1>11, <1>12 DEF InitiateRead, ConfirmRead, ReverseRead
<1>13. QED
  BY <1>1, <1>8, <1>9, <1>10, <1>12

\* It goes on with its next save.
LEMMA BackGoOn ==
  ASSUME BackIInv, NEW c \in Clerks, ClerkGoOn(c)
  PROVE  BackIInv' /\ BookStep
<1>1. PICK t \in clerk[c] :
         \/ RequestCheck(c, t)
         \/ \E share \in {0, 50, 100} : RequestInsert(c, t, share)
         \/ \E isApproved, full \in BOOLEAN : ReviewRefundSave(c, t, isApproved, full)
         \/ ProcessStart(c, t) \/ PayBack(c, t) \/ CancelSeat(c, t) \/ ProcessComplete(c, t)
         \/ Initiate(c, t) \/ Confirm(c, t) \/ Reverse(c, t)
  BY DEF ClerkGoOn
<1>2. /\ t \in ClerkTask /\ ClerkSure(t) /\ t.id \in Attendees
      /\ pay \in [Attendees -> PayRow] /\ refund \in [RefundId -> RefundRow]
      /\ approved \subseteq RefundId /\ contested \subseteq Attendees
  BY DEF BackIInv, BackTypes, MoneyTypeOK, DisputesTypeOK, ClerksSure, ClerkTask
<1>3. Present(t.id) /\ Vouched(t.id) /\ t.pay \in PayRow /\ t.refund \in RefundRow
  BY <1>2 DEF ClerkSure, ClerkTask
<1>4. {"request", "payBack", "cancelSeat", "complete"} \subseteq ClerkStep
  BY DEF ClerkStep
\* Only the refunds are written.
<1>5. ASSUME UNCHANGED paymentVars, UNCHANGED contested, approved \subseteq approved'
      PROVE  /\ Moves /\ NoLoss /\ UNCHANGED ClerkRest /\ contested' \subseteq Attendees
             /\ PaymentsBacked' /\ pay' \in [Attendees -> PayRow]
  <2>1. UNCHANGED <<reg, pay, ClerkRest, captured, vouched>>
    BY <1>5 DEF paymentVars, checkInVars, regVars, moneyVars, ClerkRest
  <2>2. Moves /\ NoLoss
    BY <1>5, <2>1, ClerkQuiet DEF NoLoss
  <2>3. QED
    BY <1>2, <1>5, <2>1, <2>2, OthersStaySure
<1>6. CASE RequestCheck(c, t)
  <2>1. UNCHANGED <<paymentVars, refund, approved, contested>> /\ Proceed(c, t, "request")
    BY <1>6 DEF RequestCheck
  <2>2. Moves /\ NoLoss /\ UNCHANGED ClerkRest /\ contested' \subseteq Attendees
        /\ PaymentsBacked' /\ pay' \in [Attendees -> PayRow]
    BY <1>5, <2>1
  <2>3. RefundsSure' /\ refund' \in [RefundId -> RefundRow] /\ approved' = approved
    BY <1>2, <2>1, <2>2, OthersStaySure
  <2>4. QED
    BY <1>2, <1>4, <2>1, <2>2, <2>3, ClerkGoesOn
\* One refund is saved.
<1>7. ASSUME NEW n \in 1..MaxRequests, NEW r \in RefundRow, refund' = [refund EXCEPT ![<<t.id, n>>] = r],
             r.status \in {"APPROVED", "PROCESSING", "COMPLETED"} => <<t.id, n>> \in approved',
             UNCHANGED paymentVars, UNCHANGED contested,
             approved \subseteq approved', approved' \subseteq RefundId,
             Close(c) \/ (Proceed(c, t, "payBack") /\ t.step = "process")
      PROVE  BackIInv' /\ BookStep
  <2>1. Moves /\ NoLoss /\ UNCHANGED ClerkRest /\ contested' \subseteq Attendees
        /\ PaymentsBacked' /\ pay' \in [Attendees -> PayRow]
    BY <1>5, <1>7
  <2>2. RefundsSure' /\ refund' \in [RefundId -> RefundRow]
    <3> DEFINE i == <<t.id, n>>
    <3>1. i \in RefundId /\ i[1] = t.id
      BY <1>2 DEF RefundId
    <3>2. refund' = [refund EXCEPT ![i] = r]
          /\ (r.status \in {"APPROVED", "PROCESSING", "COMPLETED"} => i \in approved')
      BY <1>7
    <3>3. Present(i[1]) /\ Vouched(i[1])
      BY <1>3, <3>1
    <3> HIDE DEF i
    <3>4. QED
      BY <2>1, <3>1, <3>2, <3>3, RefundSaved
  <2>3. CASE Close(c)
    BY <1>4, <1>7, <2>1, <2>2, <2>3, ClerkGoesOn
  <2>4. CASE Proceed(c, t, "payBack") /\ t.step = "process"
    BY <1>4, <1>7, <2>1, <2>2, <2>4, ClerkGoesOn
  <2>5. QED
    BY <1>7, <2>3, <2>4
<1>8. ASSUME NEW share \in {0, 50, 100}, RequestInsert(c, t, share)
      PROVE  BackIInv' /\ BookStep
  <2> DEFINE r == [status |-> IF share = 0 THEN "REJECTED" ELSE "REQUESTED", full |-> share = 100]
  <2>1. PICK n \in 1..MaxRequests : refund' = [refund EXCEPT ![<<t.id, n>>] = r]
    BY <1>8 DEF RequestInsert
  <2>2. r \in RefundRow /\ r.status \notin {"APPROVED", "PROCESSING", "COMPLETED"}
    BY DEF RefundRow, RefundStatus
  <2> HIDE DEF r
  <2>3. /\ Close(c) /\ UNCHANGED paymentVars /\ UNCHANGED contested
        /\ approved \subseteq approved' /\ approved' \subseteq RefundId
    BY <1>2, <1>8 DEF RequestInsert
  <2>4. r \in RefundRow
        /\ (r.status \in {"APPROVED", "PROCESSING", "COMPLETED"} => <<t.id, n>> \in approved')
    BY <2>2
  <2>5. QED
    BY <1>7, <2>1, <2>3, <2>4
<1>9. ASSUME t.n \in 1..MaxRequests
      PROVE  <<t.id, t.n>> \in RefundId
  BY <1>2, <1>9 DEF RefundId
<1>10. \A s \in RefundStatus : [t.refund EXCEPT !.status = s] \in RefundRow
  BY <1>3 DEF RefundRow
<1>11. {"APPROVED", "REJECTED", "PROCESSING", "COMPLETED"} \subseteq RefundStatus
  BY DEF RefundStatus
<1>12. ASSUME NEW isApproved \in BOOLEAN, NEW full \in BOOLEAN, ReviewRefundSave(c, t, isApproved, full)
       PROVE  BackIInv' /\ BookStep
  <2>1. t.n \in 1..MaxRequests /\ Close(c) /\ UNCHANGED <<paymentVars, contested>>
    BY <1>2, <1>12 DEF ReviewRefundSave, ClerkSure
  <2>2. CASE isApproved
    <3> DEFINE r == [status |-> "APPROVED", full |-> full]
    <3>1. r \in RefundRow
      BY DEF RefundRow, RefundStatus
    <3>2. SaveRefund(t, r) /\ approved' = approved \cup {<<t.id, t.n>>}
      BY <1>12, <2>2 DEF ReviewRefundSave
    <3> HIDE DEF r
    <3>3. /\ refund' = [refund EXCEPT ![<<t.id, t.n>>] = r]
          /\ approved \subseteq approved' /\ approved' \subseteq RefundId /\ <<t.id, t.n>> \in approved'
      BY <1>2, <1>9, <2>1, <3>2 DEF SaveRefund
    <3>4. QED
      BY <1>7, <2>1, <3>1, <3>3
  <2>3. CASE ~isApproved
    <3> DEFINE r == [t.refund EXCEPT !.status = "REJECTED"]
    <3>1. r \in RefundRow /\ r.status = "REJECTED"
      BY <1>3, <1>10, <1>11 DEF RefundRow
    <3>2. SaveRefund(t, r) /\ approved' = approved
      BY <1>12, <2>3 DEF ReviewRefundSave
    <3> HIDE DEF r
    <3>3. refund' = [refund EXCEPT ![<<t.id, t.n>>] = r]
      BY <3>2 DEF SaveRefund
    <3>4. QED
      BY <1>2, <1>7, <2>1, <3>1, <3>2, <3>3
  <2>4. QED
    BY <2>2, <2>3
<1>13. CASE ProcessStart(c, t)
  <2> DEFINE r == [t.refund EXCEPT !.status = "PROCESSING"]
  <2>1. t.n \in 1..MaxRequests /\ <<t.id, t.n>> \in approved /\ t.step = "process"
    BY <1>2, <1>13 DEF ProcessStart, ClerkSure
  <2>2. r \in RefundRow
    BY <1>10, <1>11
  <2>3. SaveRefund(t, r) /\ Proceed(c, t, "payBack") /\ UNCHANGED <<paymentVars, approved, contested>>
    BY <1>13 DEF ProcessStart
  <2> HIDE DEF r
  <2>4. refund' = [refund EXCEPT ![<<t.id, t.n>>] = r]
    BY <2>3 DEF SaveRefund
  <2>5. QED
    BY <1>2, <1>7, <2>1, <2>2, <2>3, <2>4
<1>14. CASE ProcessComplete(c, t)
  <2> DEFINE r == [t.refund EXCEPT !.status = "COMPLETED"]
  <2>1. t.n \in 1..MaxRequests /\ <<t.id, t.n>> \in approved
    BY <1>2, <1>14 DEF ProcessComplete, ClerkSure
  <2>2. r \in RefundRow
    BY <1>10, <1>11
  <2>3. SaveRefund(t, r) /\ Close(c) /\ UNCHANGED <<paymentVars, approved, contested>>
    BY <1>14 DEF ProcessComplete
  <2> HIDE DEF r
  <2>4. refund' = [refund EXCEPT ![<<t.id, t.n>>] = r]
    BY <2>3 DEF SaveRefund
  <2>5. QED
    BY <1>2, <1>7, <2>1, <2>2, <2>3, <2>4
\* The payment or the registration is saved, or both.
<1>15. ASSUME NEW payment \in PayRow, UNCHANGED pay \/ SavePay(t.id, payment), Moves,
              UNCHANGED <<ClerkRest, refund, approved>>, contested' \in {contested, contested \cup {t.id}},
              \/ Close(c)
              \/ Proceed(c, t, "cancelSeat") /\ t.step = "payBack"
              \/ Proceed(c, t, "complete") /\ t.step = "cancelSeat"
       PROVE  BackIInv' /\ BookStep
  <2>1. NoLoss /\ approved \subseteq approved' /\ approved' \subseteq RefundId
        /\ contested' \subseteq Attendees /\ UNCHANGED ClerkRest
    BY <1>2, <1>15 DEF NoLoss, ClerkRest
  <2>2. Backed(t.id, payment)'
    BY <1>3, <2>1 DEF Backed, NoLoss, Vouched
  <2>3. PaymentsBacked' /\ pay' \in [Attendees -> PayRow]
    BY <1>2, <1>3, <1>15, <2>1, <2>2, PaySaved
  <2>4. RefundsSure' /\ refund' \in [RefundId -> RefundRow]
    BY <1>2, <1>15, <2>1, OthersStaySure
  <2>5. CASE Close(c)
    BY <1>4, <1>15, <2>1, <2>3, <2>4, <2>5, {} \in SUBSET ClerkTask, ClerkReplaced DEF Close
  <2>6. CASE Proceed(c, t, "cancelSeat") /\ t.step = "payBack"
    BY <1>4, <1>15, <2>1, <2>3, <2>4, <2>6, ClerkGoesOn
  <2>7. CASE Proceed(c, t, "complete") /\ t.step = "cancelSeat"
    BY <1>4, <1>15, <2>1, <2>3, <2>4, <2>7, ClerkGoesOn
  <2>8. QED
    BY <1>15, <2>5, <2>6, <2>7
<1>16. CASE PayBack(c, t)
  <2>1. PICK payment : payment = IF t.refund.full THEN [t.pay EXCEPT !.status = "REFUNDED"] ELSE t.pay
    OBVIOUS
  <2>2. payment \in PayRow
    BY <1>3, <2>1 DEF PayRow, PaymentStatus
  <2>3. /\ SavePay(t.id, payment) /\ Proceed(c, t, "cancelSeat") /\ t.step = "payBack"
        /\ UNCHANGED <<reg, ClerkRest, refund, approved, contested>>
    BY <1>16, <2>1 DEF PayBack, ClerkRest, checkInVars, regVars
  <2>4. Moves
    BY <2>3, ClerkQuiet
  <2>5. QED
    BY <1>15, <2>2, <2>3, <2>4
<1>17. ASSUME NEW s \in RegistrationStatus \ {"PENDING", "CONFIRMED"},
              Save(t.id, [t.row EXCEPT !.status = s]), Contest(t.id), UNCHANGED ClerkRest,
              t.step \in {"cancelSeat", "initiate", "confirmLoss"}
       PROVE  Moves
  <2> DEFINE r == [t.row EXCEPT !.status = s]
  <2>1. Known(t.id, t.row) /\ t.row \in Row
    BY <1>2, <1>17 DEF ClerkSure, Known
  <2>2. r \in Row /\ r.status # "ABSENT"
    BY <2>1 DEF Row, RegistrationStatus
  <2>3. Save(t.id, r)
    BY <1>17
  <2> HIDE DEF r
  <2>4. UNCHANGED <<overdue, inside>> /\ contested' = contested \cup {t.id}
    BY <1>17 DEF ClerkRest, doorVars, Contest
  <2>5. Released' = Released \cup {t.id}
    BY <2>4 DEF Released, Excused
  <2>6. QED
    BY <2>1, <2>2, <2>3, <2>4, <2>5, KnownSaved
<1>18. {"CANCELLED", "IN_DISPUTE", "CANCELLED_BY_CHARGEBACK"}
          \subseteq RegistrationStatus \ {"PENDING", "CONFIRMED"}
  BY DEF RegistrationStatus
<1>19. CASE CancelSeat(c, t)
  <2>1. /\ Save(t.id, [t.row EXCEPT !.status = "CANCELLED"]) /\ Contest(t.id)
        /\ t.step = "cancelSeat" /\ UNCHANGED ClerkRest
    BY <1>19 DEF CancelSeat, ClerkRest, moneyVars
  <2>2. /\ Proceed(c, t, "complete") /\ t.step = "cancelSeat"
        /\ UNCHANGED <<pay, ClerkRest, refund, approved>>
        /\ contested' \in {contested, contested \cup {t.id}}
    BY <1>19, <2>1 DEF CancelSeat, moneyVars, Contest
  <2>3. Moves
    BY <1>17, <1>18, <2>1
  <2>4. QED
    BY <1>3, <1>15, <2>2, <2>3
<1>20. CASE Initiate(c, t)
  <2>1. PICK payment : payment = [t.pay EXCEPT !.disputed = TRUE]
    OBVIOUS
  <2>2. payment \in PayRow
    BY <1>3, <2>1 DEF PayRow
  <2>3. /\ Save(t.id, [t.row EXCEPT !.status = "IN_DISPUTE"]) /\ Contest(t.id)
        /\ t.step = "initiate" /\ UNCHANGED ClerkRest
    BY <1>20 DEF Initiate, ClerkRest
  <2>4. /\ SavePay(t.id, payment) /\ Close(c) /\ UNCHANGED <<ClerkRest, refund, approved>>
        /\ contested' \in {contested, contested \cup {t.id}}
    BY <1>20, <2>1, <2>3 DEF Initiate, Contest
  <2>5. Moves
    BY <1>17, <1>18, <2>3
  <2>6. QED
    BY <1>15, <2>2, <2>4, <2>5
<1>21. CASE Confirm(c, t)
  <2>1. PICK payment : payment = [t.pay EXCEPT !.status = "CHARGEBACK"]
    OBVIOUS
  <2>2. payment \in PayRow
    BY <1>3, <2>1 DEF PayRow, PaymentStatus
  <2>3. /\ Save(t.id, [t.row EXCEPT !.status = "CANCELLED_BY_CHARGEBACK"]) /\ Contest(t.id)
        /\ t.step = "confirmLoss" /\ UNCHANGED ClerkRest
    BY <1>21 DEF Confirm, ClerkRest
  <2>4. /\ SavePay(t.id, payment) /\ Close(c) /\ UNCHANGED <<ClerkRest, refund, approved>>
        /\ contested' \in {contested, contested \cup {t.id}}
    BY <1>21, <2>1, <2>3 DEF Confirm, Contest
  <2>5. Moves
    BY <1>17, <1>18, <2>3
  <2>6. QED
    BY <1>15, <2>2, <2>4, <2>5
\* A dispute that is won gives back the seat it took.
<1>22. CASE Reverse(c, t)
  <2>1. PICK payment : payment = [t.pay EXCEPT !.status = "CHARGEBACK_REVERSED"]
    OBVIOUS
  <2>2. payment \in PayRow
    BY <1>3, <2>1 DEF PayRow, PaymentStatus
  <2>3. /\ SavePay(t.id, payment) /\ Close(c) /\ UNCHANGED <<ClerkRest, refund, approved, contested>>
    BY <1>22, <2>1 DEF Reverse, ClerkRest
  <2>4. ASSUME t.row.status = "IN_DISPUTE", Save(t.id, [t.row EXCEPT !.status = "CONFIRMED"])
        PROVE  Moves
    <3> DEFINE r == [t.row EXCEPT !.status = "CONFIRMED"]
    <3>1. Known(t.id, t.row) /\ t.row \in Row
      BY <1>2, <1>22 DEF Reverse, ClerkSure, Known
    <3>2. r \in Row /\ r.status = "CONFIRMED"
      BY <3>1 DEF Row, RegistrationStatus
    <3>3. Save(t.id, r)
      BY <2>4
    <3> HIDE DEF r
    <3>4. overdue' = overdue /\ Released' = Released
      BY <2>3 DEF ClerkRest, doorVars, Released, Excused
    <3>5. QED
      BY <3>1, <3>2, <3>3, <3>4, KnownSaved DEF CountedStatus
  <2>5. ASSUME UNCHANGED reg
        PROVE  Moves
    BY <2>3, <2>5, ClerkQuiet
  <2>6. Moves
    BY <1>22, <2>4, <2>5 DEF Reverse
  <2>7. QED
    BY <1>15, <2>2, <2>3, <2>6
<1>23. QED
  BY <1>1, <1>6, <1>8, <1>12, <1>13, <1>14, <1>16, <1>19, <1>20, <1>21, <1>22

LEMMA BackIInvStep == BackIInv /\ [DisputesNext]_disputeVars => BackIInv' /\ BookStep
<1> SUFFICES ASSUME BackIInv, [DisputesNext]_disputeVars
             PROVE  BackIInv' /\ BookStep
  OBVIOUS
<1>1. CASE RegNext /\ UNCHANGED <<doorVars, moneyVars, backVars>>
  BY <1>1, BackReg
<1>2. CASE DoorNext /\ UNCHANGED <<moneyVars, backVars>>
  BY <1>2, BackDoor
<1>3. CASE MoneyNext /\ UNCHANGED backVars
  BY <1>3, BackMoney
\* Nothing happens, or a request dies.
<1>4. ASSUME NEW c \in Clerks, Close(c), UNCHANGED <<paymentVars, refund, approved, contested>>
      PROVE  BackIInv' /\ BookStep
  <2>1. UNCHANGED <<reg, pay, ClerkRest, captured, vouched, contested>>
    BY <1>4 DEF paymentVars, checkInVars, regVars, moneyVars, ClerkRest
  <2>2. Moves /\ NoLoss
    BY <1>4, <2>1, ClerkQuiet DEF NoLoss
  <2>3. PaymentsBacked' /\ RefundsSure'
    BY <1>4, <2>1, <2>2, OthersStaySure
  <2>4. /\ pay' \in [Attendees -> PayRow] /\ refund' \in [RefundId -> RefundRow]
        /\ approved \subseteq approved' /\ approved' \subseteq RefundId
        /\ contested' \subseteq Attendees /\ UNCHANGED ClerkRest
    BY <1>4, <2>1 DEF BackIInv, BackTypes, MoneyTypeOK, DisputesTypeOK
  <2>5. clerk' = [clerk EXCEPT ![c] = {}] /\ {} \in SUBSET ClerkTask
    BY <1>4 DEF Close
  <2>6. QED
    BY <2>2, <2>3, <2>4, <2>5, ClerkReplaced
<1>5. CASE BackNext
  BY <1>4, <1>5, BackStart, BackGoOn DEF BackNext, ClerkFail
<1>6. CASE UNCHANGED disputeVars
  <2>1. /\ UNCHANGED <<regVars, doorVars, moneyVars, backVars>>
        /\ UNCHANGED <<reg, overdue, sweep, desk, inside, pay, teller, captured, vouched>>
        /\ UNCHANGED <<refund, clerk, approved, contested>>
    BY <1>6 DEF disputeVars, paymentVars, checkInVars, regVars, doorVars, moneyVars, backVars
  <2>2. Moves /\ NoLoss
    BY <2>1, QuietMoves DEF Released, Excused, NoLoss
  <2>3. BackTypes'
    BY <2>1 DEF BackIInv, BackTypes, RegTypeOK, DoorTypeOK, MoneyTypeOK, DisputesTypeOK,
       regVars, doorVars
  <2>4. QED
    BY <2>1, <2>2, <2>3, OthersStaySure, BackKept
<1>7. QED
  BY <1>1, <1>2, <1>3, <1>5, <1>6 DEF DisputesNext, PaymentsNext, CheckInsNext

LEMMA BackIInvInit == DisputesInit => BackIInv
<1> SUFFICES ASSUME DisputesInit
             PROVE  BackIInv
  OBVIOUS
<1> USE DEF DisputesInit, PaymentsInit, CheckInsInit
<1>1. RegTypeOK
  BY AbortsAssumption DEF RegInit, RegTypeOK, NoRow, Row
<1>2. DoorTypeOK /\ MoneyTypeOK
  BY DEF DoorInit, DoorTypeOK, MoneyInit, MoneyTypeOK, NoPayment, PayRow
<1>3. DisputesTypeOK
  BY DEF BackInit, DisputesTypeOK, NoRefund, RefundRow
<1>4. RowsSpared /\ BatchesKnown /\ DesksKnown
  BY DEF RegInit, DoorInit, NoRow, RowsSpared, Spared, BatchesKnown, DesksKnown
<1>5. PaymentsBacked /\ TellersSure
  BY DEF MoneyInit, NoPayment, PaymentsBacked, Backed, TellersSure
<1>6. ClerksSure /\ RefundsSure
  BY DEF BackInit, NoRefund, ClerksSure, RefundsSure
<1>7. QED
  BY <1>1, <1>2, <1>3, <1>4, <1>5, <1>6 DEF BackIInv, BackTypes

\* Whatever a desk, a teller or a clerk holds in memory exists, and tells the
\* truth about the money.
THEOREM BackInvariant == DisputesSpec => []BackIInv
BY BackIInvInit, BackIInvStep, PTL DEF DisputesSpec

\* Type correctness of the refunds and of the clerks' requests.
THEOREM DisputesTypeCorrect == DisputesSpec => []DisputesTypeOK
<1>1. BackIInv => DisputesTypeOK
  BY DEF BackIInv, BackTypes
<1>2. QED
  BY <1>1, BackInvariant, PTL

-----------------------------------------------------------------------------

\* A seat that was given up, and who may hold a place on it nevertheless.
Lost(a) == Present(a) /\ (a \in Holders => a \in inside \/ Vouched(a))

AnnouncedLost == \A a \in offered \cup told : Lost(a)

\* What a job has saved it will announce.
SavedLost == \A k \in CronJobs : \A t \in sweep[k] : t.saved => Lost(t.id)

\* How a row that exists may be written.
Rewritten(a) ==
    \/ reg'[a] = reg[a]
    \/ reg'[a].status = "EXPIRED"
    \/ a \in inside' \/ Vouched(a)'

\* Who was let in, and whose money was taken, stays so.
Kept == inside \subseteq inside' /\ captured \subseteq captured' /\ vouched \subseteq vouched'

\* The jobs write EXPIRED, a desk writes for whom it lets in, a payment, a
\* refund and a chargeback write where money came in.
LEMMA RowsRewritten ==
  ASSUME BackIInv, [DisputesNext]_disputeVars
  PROVE  Kept /\ \A a \in Attendees : Present(a) => Rewritten(a)
<1> USE DEF Present, Rewritten
<1>0. RegTypeOK
  BY DEF BackIInv, BackTypes
<1>1. ASSUME NEW a \in Attendees, NEW r, Save(a, r),
             r.status = "EXPIRED" \/ a \in inside' \/ Vouched(a)'
      PROVE  \A b \in Attendees : Rewritten(b)
  BY <1>0, <1>1, RowAfterSave
<1>2. CASE RegNext /\ UNCHANGED <<doorVars, moneyVars, backVars>>
  <2>1. Kept
    BY <1>2 DEF Kept, doorVars, moneyVars
  <2>2. ASSUME NEW a \in Attendees, NEW free \in BOOLEAN, Create(a, free)
        PROVE  \A b \in Attendees : Present(b) => Rewritten(b)
    BY <1>0, <2>2, RowAfterSave DEF Create, IndexAccepts
  <2>3. ASSUME NEW k \in CronJobs, NEW t \in sweep[k], SweepSave(k, t)
        PROVE  \A b \in Attendees : Rewritten(b)
    <3>1. t.id \in Attendees /\ t.row \in Row
      BY <1>0 DEF RegTypeOK, SweepTask
    <3>2. [t.row EXCEPT !.status = "EXPIRED"].status = "EXPIRED"
      BY <3>1 DEF Row
    <3>3. QED
      BY <1>1, <2>3, <3>1, <3>2 DEF SweepSave
  <2>4. CASE UNCHANGED reg
    BY <2>1, <2>4
  <2>5. \/ \E a \in Attendees, free \in BOOLEAN : Create(a, free)
        \/ \E k \in CronJobs : \E t \in sweep[k] : SweepSave(k, t)
        \/ UNCHANGED reg
    BY <1>2 DEF RegNext, Deadline, SweepFind, SweepAnnounce, SweepAbort
  <2>6. QED
    BY <2>1, <2>2, <2>3, <2>4, <2>5
<1>3. CASE DoorNext /\ UNCHANGED <<moneyVars, backVars>>
  <2> PICK d \in Desks : DeskStart(d) \/ DeskGoOn(d) \/ DeskFail(d)
    BY <1>3 DEF DoorNext
  <2>1. captured' = captured /\ vouched' = vouched
    BY <1>3 DEF moneyVars
  <2>2. ASSUME UNCHANGED <<reg, inside>>
        PROVE  Kept /\ \A b \in Attendees : Rewritten(b)
    BY <2>1, <2>2 DEF Kept
  <2>3. ASSUME NEW t \in desk[d], LegacySave(d, t) \/ AttendedSave(d, t)
        PROVE  Kept /\ \A b \in Attendees : Rewritten(b)
    <3>1. t.id \in Attendees
      BY DEF BackIInv, DesksKnown, Known
    <3>2. inside' = inside \cup {t.id}
      BY <2>3 DEF LegacySave, AttendedSave, Admit
    <3>3. \E r : Save(t.id, r)
      BY <2>3 DEF LegacySave, AttendedSave
    <3>4. QED
      BY <1>1, <2>1, <3>1, <3>2, <3>3 DEF Kept
  <2>4. ASSUME NEW t \in desk[d], SessionLookup(d, t) \/ SessionAttend(d, t) \/ OutSave(d, t)
        PROVE  Kept /\ \A b \in Attendees : Rewritten(b)
    <3>1. UNCHANGED reg /\ inside \subseteq inside'
      BY <2>4 DEF SessionLookup, SessionAttend, OutSave, Admit, regVars
    <3>2. QED
      BY <2>1, <3>1 DEF Kept
  <2>5. CASE DeskStart(d) \/ DeskFail(d)
    BY <2>2, <2>5 DEF DeskStart, DeskFail, LegacyRead, EventRead, SessionRead, OutRead, regVars
  <2>6. QED
    BY <2>3, <2>4, <2>5 DEF DeskGoOn
<1>4. CASE MoneyNext /\ UNCHANGED backVars
  <2> PICK p \in Tellers : TellerStart(p) \/ TellerGoOn(p) \/ TellerFail(p)
    BY <1>4 DEF MoneyNext
  <2>1. UNCHANGED inside /\ captured \subseteq captured' /\ vouched \subseteq vouched'
    BY DEF TellerStart, IntentRead, PaypalRead, ReportRead, ReviewRead, TellerFail, TellerGoOn,
       IntentInsert, PaypalCapture, PaypalSavePay, PaypalSaveSeat, ReportSave,
       ApproveSaveSeat, ApproveSavePay, RejectSave, checkInVars, doorVars
  <2>2. ASSUME NEW t \in teller[p], PaypalSaveSeat(p, t) \/ ApproveSaveSeat(p, t)
        PROVE  \A b \in Attendees : Rewritten(b)
    <3>1. t.id \in Attendees /\ Vouched(t.id)
      BY <2>2 DEF BackIInv, TellersSure, TellerSure, PaypalSaveSeat, ApproveSaveSeat, Vouched
    <3>2. Vouched(t.id)' /\ \E r : Save(t.id, r)
      BY <2>1, <2>2, <3>1 DEF PaypalSaveSeat, ApproveSaveSeat, Vouched
    <3>3. QED
      BY <1>1, <3>1, <3>2
  <2>3. \/ UNCHANGED reg
        \/ \E t \in teller[p] : PaypalSaveSeat(p, t) \/ ApproveSaveSeat(p, t)
    BY DEF TellerStart, IntentRead, PaypalRead, ReportRead, ReviewRead, TellerFail, TellerGoOn,
       IntentInsert, PaypalCapture, PaypalSavePay, ReportSave, ApproveSavePay, RejectSave,
       checkInVars, regVars
  <2>4. QED
    BY <2>1, <2>2, <2>3 DEF Kept
<1>5. CASE BackNext
  <2> PICK c \in Clerks : ClerkStart(c) \/ ClerkGoOn(c) \/ ClerkFail(c)
    BY <1>5 DEF BackNext
  <2>1. UNCHANGED <<inside, captured, vouched>>
    BY DEF ClerkStart, RequestRead, ReviewRefundRead, ProcessRead, InitiateRead, ConfirmRead,
       ReverseRead, ClerkFail, ClerkGoOn, RequestCheck, RequestInsert, ReviewRefundSave,
       ProcessStart, PayBack, CancelSeat, ProcessComplete, Initiate, Confirm, Reverse,
       paymentVars, checkInVars, doorVars, moneyVars
  <2>2. ASSUME NEW t \in clerk[c]
        PROVE  t.id \in Attendees /\ Vouched(t.id)'
    BY <2>1 DEF BackIInv, ClerksSure, ClerkSure, Vouched
  <2>3. ASSUME NEW t \in clerk[c], NEW r, Save(t.id, r)
        PROVE  \A b \in Attendees : Rewritten(b)
    BY <1>1, <2>2, <2>3
  <2>4. UNCHANGED reg \/ \E t \in clerk[c] : \E r : Save(t.id, r)
    BY DEF ClerkStart, RequestRead, ReviewRefundRead, ProcessRead, InitiateRead, ConfirmRead,
       ReverseRead, ClerkFail, ClerkGoOn, RequestCheck, RequestInsert, ReviewRefundSave,
       ProcessStart, PayBack, CancelSeat, ProcessComplete, Initiate, Confirm, Reverse,
       paymentVars, checkInVars, regVars
  <2>5. QED
    BY <2>1, <2>3, <2>4 DEF Kept
<1>6. CASE UNCHANGED disputeVars
  BY <1>6 DEF Kept, disputeVars, paymentVars, checkInVars, regVars, doorVars, moneyVars
<1>7. QED
  BY <1>2, <1>3, <1>4, <1>5, <1>6 DEF DisputesNext, PaymentsNext, CheckInsNext

\* What is lost stays lost.
LEMMA LostStays ==
  ASSUME BackIInv, [DisputesNext]_disputeVars, NEW a, Lost(a)
  PROVE  Lost(a)'
<1>1. a \in Attendees /\ Rewritten(a) /\ Kept
  BY RowsRewritten DEF Lost, Present
<1>2. Present(a)'
  <2>1. Granted \subseteq Granted'
    BY BackIInvStep DEF BookStep, BookVars, Book!LedgerNext, Book!Grant, Book!Leave,
       Book!Return, Book!Excuse
  <2>2. QED
    BY <2>1 DEF Lost, Present, Granted
<1>3. (a \in Holders => a \in inside \/ Vouched(a))'
  BY <1>1 DEF Lost, Rewritten, Kept, Vouched, Holders, CountedStatus
<1>4. QED
  BY <1>2, <1>3 DEF Lost

LEMMA LossStep ==
  ASSUME BackIInv, AnnouncedLost, SavedLost, [DisputesNext]_disputeVars
  PROVE  AnnouncedLost' /\ SavedLost'
<1>0. RegTypeOK
  BY DEF BackIInv, BackTypes
<1>1. CASE UNCHANGED <<sweep, offered, told>>
  BY <1>1, LostStays DEF AnnouncedLost, SavedLost
<1>2. ASSUME NEW k \in CronJobs, SweepFind(k)
      PROVE  AnnouncedLost' /\ SavedLost'
  <2>1. \A j \in CronJobs : \A t \in sweep'[j] : t.saved => t \in sweep[j]
    BY <1>0, <1>2 DEF SweepFind, RegTypeOK
  <2>2. QED
    BY <1>2, <2>1, LostStays DEF SweepFind, AnnouncedLost, SavedLost
<1>3. ASSUME NEW k \in CronJobs, NEW t \in sweep[k], SweepSave(k, t)
      PROVE  AnnouncedLost' /\ SavedLost'
  <2>1. t.id \in Attendees /\ t.row \in Row /\ t \in SweepTask
    BY <1>0 DEF RegTypeOK, SweepTask
  <2>2. reg'[t.id].status = "EXPIRED"
    BY <1>0, <1>3, <2>1, RowAfterSave DEF SweepSave, Row
  <2>3. Lost(t.id)'
    BY <2>1, <2>2 DEF Lost, Present, Holders, CountedStatus
  <2>4. \A j \in CronJobs : \A u \in sweep'[j] : u \in sweep[j] \/ u = [t EXCEPT !.saved = TRUE]
    BY <1>0, <1>3 DEF SweepSave, RegTypeOK
  <2>5. [t EXCEPT !.saved = TRUE].id = t.id
    BY <2>1 DEF SweepTask
  <2>6. SavedLost'
    BY <2>3, <2>4, <2>5, LostStays DEF SavedLost
  <2>7. AnnouncedLost'
    BY <1>3, LostStays DEF SweepSave, AnnouncedLost
  <2>8. QED
    BY <2>6, <2>7
<1>4. ASSUME NEW k \in CronJobs, NEW t \in sweep[k], SweepAnnounce(k, t)
      PROVE  AnnouncedLost' /\ SavedLost'
  <2>1. \A j \in CronJobs : sweep'[j] \subseteq sweep[j]
    BY <1>0, <1>4 DEF SweepAnnounce, RegTypeOK
  <2>2. Lost(t.id)'
    BY <1>4, LostStays DEF SweepAnnounce, SavedLost
  <2>3. offered' \cup told' \subseteq offered \cup told \cup {t.id}
    BY <1>4 DEF SweepAnnounce
  <2>4. QED
    BY <2>1, <2>2, <2>3, LostStays DEF AnnouncedLost, SavedLost
<1>5. ASSUME NEW k \in CronJobs, SweepAbort(k)
      PROVE  AnnouncedLost' /\ SavedLost'
  <2>1. \A j \in CronJobs : sweep'[j] \subseteq sweep[j]
    BY <1>0, <1>5 DEF SweepAbort, RegTypeOK
  <2>2. QED
    BY <1>5, <2>1, LostStays DEF SweepAbort, AnnouncedLost, SavedLost
<1>6. CASE RegNext
  BY <1>1, <1>2, <1>3, <1>4, <1>5, <1>6 DEF RegNext, Create, Deadline
<1>7. CASE DoorNext \/ MoneyNext \/ BackNext \/ UNCHANGED disputeVars
  <2>1. UNCHANGED <<sweep, offered, told>>
    <3>1. CASE DoorNext
      BY <3>1 DEF DoorNext, DeskStart, DeskGoOn, DeskFail, LegacyRead, EventRead, SessionRead,
         OutRead, LegacySave, AttendedSave, SessionLookup, SessionAttend, OutSave, regVars
    <3>2. CASE MoneyNext
      BY <3>2 DEF MoneyNext, TellerStart, IntentRead, PaypalRead, ReportRead, ReviewRead,
         TellerFail, TellerGoOn, IntentInsert, PaypalCapture, PaypalSavePay, PaypalSaveSeat,
         ReportSave, ApproveSaveSeat, ApproveSavePay, RejectSave, checkInVars, regVars
    <3>3. CASE BackNext
      <4> PICK c \in Clerks : ClerkStart(c) \/ ClerkGoOn(c) \/ ClerkFail(c)
        BY <3>3 DEF BackNext
      <4>1. CASE ClerkStart(c) \/ ClerkFail(c)
        BY <4>1 DEF ClerkStart, ClerkFail, RequestRead, ReviewRefundRead, ProcessRead,
           InitiateRead, ConfirmRead, ReverseRead, paymentVars, checkInVars, regVars
      <4>2. CASE ClerkGoOn(c)
        BY <4>2 DEF ClerkGoOn, RequestCheck, RequestInsert, ReviewRefundSave, ProcessStart,
           PayBack, CancelSeat, ProcessComplete, Initiate, Confirm, Reverse, paymentVars,
           checkInVars, regVars
      <4>3. QED
        BY <4>1, <4>2
    <3>4. CASE UNCHANGED disputeVars
      BY <3>4 DEF disputeVars, paymentVars, checkInVars, regVars
    <3>5. QED
      BY <1>7, <3>1, <3>2, <3>3, <3>4
  <2>2. QED
    BY <1>1, <2>1
<1>8. QED
  BY <1>6, <1>7 DEF DisputesNext, PaymentsNext, CheckInsNext

\* With desks, payments, refunds and chargebacks beside the jobs, a seat that
\* was announced as lost holds a place again only for somebody the door let in
\* or whose money arrived.
THEOREM AnnouncedComesBackExcused == DisputesSpec => []AnnouncedIsExcused
<1>1. DisputesInit => AnnouncedLost /\ SavedLost
  BY DEF DisputesInit, PaymentsInit, CheckInsInit, RegInit, AnnouncedLost, SavedLost
<1>2. BackIInv /\ AnnouncedLost /\ SavedLost /\ [DisputesNext]_disputeVars
        => (AnnouncedLost /\ SavedLost)'
  BY LossStep
<1>3. AnnouncedLost => AnnouncedIsExcused
  BY DEF AnnouncedLost, Lost, AnnouncedIsExcused
<1>4. QED
  BY <1>1, <1>2, <1>3, BackInvariant, PTL DEF DisputesSpec

\* No interleaving of captures, reviews, refunds and chargebacks returns money
\* nobody paid.
THEOREM ReturnsWerePaid == DisputesSpec => []OnlyPaidIsReturned
<1>1. BackIInv => OnlyPaidIsReturned
  BY DEF BackIInv, RefundsSure, PaymentsBacked, Backed, OnlyPaidIsReturned
<1>2. QED
  BY <1>1, BackInvariant, PTL

\* No refund is processed without the approval of an administrator.
THEOREM ReturnsWereApproved == DisputesSpec => []ReturnsAreApproved
<1>1. BackIInv => ReturnsAreApproved
  BY DEF BackIInv, RefundsSure, ReturnsAreApproved
<1>2. QED
  BY <1>1, BackInvariant, PTL

\* With refunds and chargebacks too, the tables implement SeatLedger: a seat
\* comes back into the count only if a deadline, the door, a refund or a
\* dispute had released it.
THEOREM DisputesImplementLedger == DisputesSpec => DisputesKeepLedger
<1>1. DisputesInit => Book!LedgerInit
  BY DEF DisputesInit, PaymentsInit, CheckInsInit, RegInit, DoorInit, BackInit, NoRow,
     Book!LedgerInit, Granted, Reserved, CountedStatus, Released, Excused
<1>2. BackIInv /\ [DisputesNext]_disputeVars => [Book!LedgerNext]_(Book!ledgerVars)
  BY BackIInvStep DEF BookStep, BookVars, Book!ledgerVars
<1>3. QED
  BY <1>1, <1>2, BackInvariant, PTL DEF DisputesSpec, DisputesKeepLedger, Book!LedgerSpec

=============================================================================

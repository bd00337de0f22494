------------------------------ MODULE CheckIns ------------------------------
(***************************************************************************)
(* The door: registrations.service.ts checkIn (the legacy endpoint),       *)
(* checkInAdvanced with checkInEventOnly and checkInToSession, and         *)
(* checkOutSession, over the table of Registrations.                       *)
(*                                                                         *)
(* No handler opens a transaction.  Each loads the registration, decides   *)
(* on what it loaded and later saves the whole entity; between the two the *)
(* other desks, the cron jobs and the payment handlers run.  A desk        *)
(* carries its request in memory as a DeskTask.                            *)
(***************************************************************************)
EXTENDS Registrations

CONSTANTS
    Desks,    \* staff requests that may be in progress at once
    Sessions  \* sessions of the event

VARIABLES
    desk,     \* per desk: the request in progress (a set of at most one task)
    ins,      \* <<attendee, session>> with SessionAttendance.checkInAt set
    outs,     \* <<attendee, session>> with SessionAttendance.checkOutAt set
    inside    \* people the staff let in: the desk answered "success"

doorVars == <<desk, ins, outs, inside>>
checkInVars == <<regVars, doorVars>>

Visit == Attendees \X Sessions

\* The next step a request has to take.
DeskStep == {"save", "saveAttended", "lookup", "attend", "leave"}

\* `in' is the set of sessions asked for: none for a check-in to the event.
DeskTask == [step : DeskStep, id : Attendees, row : Row, in : SUBSET Sessions]

DoorTypeOK ==
    /\ desk \in [Desks -> SUBSET DeskTask]
    /\ ins \subseteq Visit
    /\ outs \subseteq Visit
    /\ inside \subseteq Attendees

DoorInit ==
    /\ desk = [d \in Desks |-> {}]
    /\ ins = {}
    /\ outs = {}
    /\ inside = {}

-----------------------------------------------------------------------------

Begin(d, step, a, in) ==
    /\ desk[d] = {}
    /\ desk' = [desk EXCEPT ![d] =
                    {[step |-> step, id |-> a, row |-> reg[a], in |-> in]}]

Done(d) == desk' = [desk EXCEPT ![d] = {}]

Admit(a) == inside' = inside \cup {a}

Continue(d, t, step) == desk' = [desk EXCEPT ![d] = {[t EXCEPT !.step = step]}]

\* The door opened to reservations that wait for their payment.
ValidTicketMutant(a) == reg[a].status \in {"CONFIRMED", "PENDING"}

\* validateTicket(): the ticket exists and its registration is CONFIRMED.
ValidTicket(a) == reg[a].status = "CONFIRMED"

\* checkIn(): refuses who is already marked, and looks at nothing else.
LegacyRead(d, a) ==
    /\ reg[a].status # "ABSENT"
    /\ ~reg[a].attended
    /\ Begin(d, "save", a, {})
    /\ UNCHANGED <<regVars, ins, outs, inside>>

LegacySave(d, t) ==
    /\ t.step = "save"
    /\ Save(t.id, [t.row EXCEPT !.attended = TRUE])
    /\ Done(d)
    /\ Admit(t.id)
    /\ UNCHANGED <<overdue, sweep, offered, told, aborts, ins, outs>>

\* checkInAdvanced() without a session.  A ticket already marked as attended
\* is answered "re-entry", which changes nothing.
EventRead(d, a) ==
    /\ ValidTicket(a)
    /\ ~reg[a].attended
    /\ Begin(d, "saveAttended", a, {})
    /\ UNCHANGED <<regVars, ins, outs, inside>>

\* The save both check-ins of the new endpoint end with.
AttendedSave(d, t) ==
    /\ t.step = "saveAttended"
    /\ Save(t.id, [t.row EXCEPT !.attended = TRUE, !.status = "ATTENDED"])
    /\ Done(d)
    /\ Admit(t.id)
    /\ UNCHANGED <<overdue, sweep, offered, told, aborts, ins, outs>>

\* checkInAdvanced() with a session: validate the ticket ...
SessionRead(d, a, s) ==
    /\ ValidTicket(a)
    /\ Begin(d, "lookup", a, {s})
    /\ UNCHANGED <<regVars, ins, outs, inside>>

\* ... look the attendance up (one that exists is a re-entry) ...
SessionLookup(d, t) ==
    /\ t.step = "lookup"
    /\ IF {t.id} \X t.in \subseteq ins
         THEN Done(d) /\ Admit(t.id)
         ELSE Continue(d, t, "attend") /\ UNCHANGED inside
    /\ UNCHANGED <<regVars, ins, outs>>

\* ... insert it, unless another desk did so first: the unique index on
\* (session, attendee) then makes the request fail ...
SessionAttend(d, t) ==
    /\ t.step = "attend"
    /\ ins' = ins \cup ({t.id} \X t.in)
    /\ \/ {t.id} \X t.in \subseteq ins /\ Done(d) /\ UNCHANGED inside
       \/ /\ ~({t.id} \X t.in \subseteq ins)
          /\ IF t.row.attended
               THEN Done(d) /\ Admit(t.id)
               ELSE Continue(d, t, "saveAttended") /\ UNCHANGED inside
    /\ UNCHANGED <<regVars, outs>>

\* checkOutSession(): validate the ticket ...
OutRead(d, a, s) ==
    /\ ValidTicket(a)
    /\ Begin(d, "leave", a, {s})
    /\ UNCHANGED <<regVars, ins, outs, inside>>

\* ... and close the attendance, if there is an open one.
OutSave(d, t) ==
    /\ t.step = "leave"
    /\ outs' = outs \cup (({t.id} \X t.in) \cap ins)
    /\ Done(d)
    /\ UNCHANGED <<regVars, ins, inside>>

\* A request dies between two of its steps.
DeskFail(d) ==
    /\ desk[d] # {}
    /\ Done(d)
    /\ UNCHANGED <<regVars, ins, outs, inside>>

DeskStart(d) ==
    \E a \in Attendees :
        \/ LegacyRead(d, a)
        \/ EventRead(d, a)
        \/ \E s \in Sessions : SessionRead(d, a, s) \/ OutRead(d, a, s)

DeskGoOn(d) ==
    \E t \in desk[d] :
        \/ LegacySave(d, t)
        \/ AttendedSave(d, t)
        \/ SessionLookup(d, t)
        \/ SessionAttend(d, t)
        \/ OutSave(d, t)

DoorNext == \E d \in Desks : DeskStart(d) \/ DeskGoOn(d) \/ DeskFail(d)

CheckInsInit == RegInit /\ DoorInit

CheckInsNext ==
    \/ RegNext /\ UNCHANGED doorVars
    \/ DoorNext

CheckInsSpec == CheckInsInit /\ [][CheckInsNext]_checkInVars

-----------------------------------------------------------------------------
(***************************************************************************)
(* Properties                                                              *)
(***************************************************************************)

Granted == {a \in Attendees : reg[a].status # "ABSENT"}

\* Who may leave the stock count, or come back to it, unchecked: those past
\* their deadline and those the door let in.
Excused == overdue \cup inside

Ledger == INSTANCE SeatLedger
            WITH granted <- Granted, counted <- Reserved, excused <- Excused

\* The tables, jobs and desks keep the promise of SeatLedger: one grant per
\* person, under the stock, and no seat back in the count but an excused one.
KeepsLedger == Ledger!LedgerSpec

\* The seats of people who are neither late nor inside never exceed the stock.
StockKept == Ledger!WithinStock

\* backend/README.md promises a stock that is validated under concurrency:
\* the people who hold a ticket, admitted or not, are no more than the stock.
Holders == {a \in Attendees : reg[a].status \in CountedStatus \cup {"ATTENDED"}}

NoOversell == Cardinality(Holders) <= Stock

=============================================================================

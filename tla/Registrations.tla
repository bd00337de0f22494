--------------------------- MODULE Registrations ---------------------------
(***************************************************************************)
(* The seats of one ticket type of one published event: how a reservation  *)
(* is granted, how it ends when nobody pays for it, and who is told.       *)
(*                                                                         *)
(*   registrations.service.ts      create, expirePendingRegistrations      *)
(*   notifications-cron.service.ts checkExpiredReservations                *)
(*                                                                         *)
(* Two cron jobs of two services expire the same rows.  Each of them reads *)
(* a batch of entities and later writes them back one at a time, and       *)
(* nothing is locked or re-read in between: `sweep' holds the batch a job  *)
(* carries in memory.  The unique index (attendee, event) of               *)
(* registration.entity.ts allows an attendee one row for ever, so a row is *)
(* named by its attendee.                                                  *)
(*                                                                         *)
(* The payment, check-in and chargeback services write the same rows:      *)
(* they EXTEND this module.                                                *)
(***************************************************************************)
EXTENDS Integers, FiniteSets

CONSTANTS
    Attendees,      \* people who may register for the event
    Stock,          \* EventTicket.stock
    AllowsWaitlist, \* EventTicket.allowsWaitlist
    CronJobs,       \* the jobs that run: both, or one to look at it alone
    MaxAborts       \* bound: how many cron rounds die half way

ASSUME AttendeesAssumption == IsFiniteSet(Attendees)
ASSUME StockAssumption == Stock \in Nat
ASSUME WaitlistAssumption == AllowsWaitlist \in BOOLEAN
\* The minute job of registrations.service and the hourly one of the
\* notification service.
ASSUME CronAssumption == CronJobs \subseteq {"minute", "hourly"}
ASSUME AbortsAssumption == MaxAborts \in Nat

VARIABLES
    reg,      \* the registrations table: attendee -> row
    overdue,  \* attendees whose expiresAt has passed
    sweep,    \* per cron job: the rows it read and has not finished with
    offered,  \* attendees whose seat was handed to waitlist.onStockReleased
    told,     \* attendees whose "reservation expired" notice was triggered
    aborts    \* cron rounds that died so far

regVars == <<reg, overdue, sweep, offered, told, aborts>>

RegistrationStatus ==
    {"PENDING", "CONFIRMED", "CANCELLED", "ATTENDED", "EXPIRED", "REFUNDED",
     "IN_DISPUTE", "CANCELLED_BY_CHARGEBACK"}

\* A row of the table.  "ABSENT" stands for no row.  `free' is finalPrice = 0.
Row == [status   : RegistrationStatus \cup {"ABSENT"},
        attended : BOOLEAN,
        free     : BOOLEAN]

NoRow == [status |-> "ABSENT", attended |-> FALSE, free |-> FALSE]

\* What a job knows of a row: the entity it loaded, and whether it has
\* already saved it in this round.
SweepTask == [id : Attendees, row : Row, saved : BOOLEAN]

RegTypeOK ==
    /\ reg \in [Attendees -> Row]
    /\ overdue \subseteq Attendees
    /\ sweep \in [CronJobs -> SUBSET SweepTask]
    /\ offered \subseteq Attendees
    /\ told \subseteq Attendees
    /\ aborts \in 0..MaxAborts

-----------------------------------------------------------------------------
(***************************************************************************)
(* Reading and writing rows                                                *)
(***************************************************************************)

\* repository.save(entity): every column takes the value it has in memory.
Save(id, row) == reg' = [reg EXCEPT ![id] = row]

\* The rows the stock count of create() sees.
CountedStatus == {"CONFIRMED", "PENDING"}

Reserved == {a \in Attendees : reg[a].status \in CountedStatus}

\* if (reservedCount >= stock) with the comparison off by one.
InStockMutant == Cardinality(Reserved) <= Stock

InStock == Cardinality(Reserved) < Stock

\* "4. VALIDAR DUPLICIDAD": the statuses that make create() refuse.
AlreadyRegistered(a) == reg[a].status \in {"CONFIRMED", "PENDING", "ATTENDED"}

\* The unique index on (attendee, event): it knows nothing of statuses.
IndexAccepts(a) == reg[a].status = "ABSENT"

-----------------------------------------------------------------------------
(***************************************************************************)
(* Actions                                                                 *)
(***************************************************************************)

RegInit ==
    /\ reg = [a \in Attendees |-> NoRow]
    /\ overdue = {}
    /\ sweep = [k \in CronJobs |-> {}]
    /\ offered = {}
    /\ told = {}
    /\ aborts = 0

\* create(): one SERIALIZABLE transaction that holds the row lock of the
\* ticket.  A free ticket (or a 100% coupon) is confirmed at once, any other
\* waits for its payment.  A ticket that is not on sale, a CIP number that is
\* not in good standing or a bad coupon refuse the request, which changes
\* nothing.
Create(a, free) ==
    /\ InStock
    /\ ~AlreadyRegistered(a)
    /\ IndexAccepts(a)
    /\ Save(a, [status   |-> IF free THEN "CONFIRMED" ELSE "PENDING",
                attended |-> FALSE,
                free     |-> free])
    /\ UNCHANGED <<overdue, sweep, offered, told, aborts>>

\* Time reaches expiresAt, which create() sets for what has to be paid.
Deadline(a) ==
    /\ reg[a].status # "ABSENT"
    /\ ~reg[a].free
    /\ a \notin overdue
    /\ overdue' = overdue \cup {a}
    /\ UNCHANGED <<reg, sweep, offered, told, aborts>>

\* The jobs without their condition on expiresAt.
ExpirableMutant(a) == reg[a].status = "PENDING"

\* The rows either job selects: PENDING, and expiresAt not in the future.
Expirable(a) == reg[a].status = "PENDING" /\ a \in overdue

\* A job starts a round and loads its batch.
SweepFind(k) ==
    /\ sweep[k] = {}
    /\ \E a \in Attendees : Expirable(a)
    /\ sweep' = [sweep EXCEPT ![k] =
                    {[id |-> a, row |-> reg[a], saved |-> FALSE] :
                        a \in {x \in Attendees : Expirable(x)}}]
    /\ UNCHANGED <<reg, overdue, offered, told, aborts>>

\* The entity saved without the assignment before it.
SweepSaveUnset(k, t) ==
    /\ t \in sweep[k]
    /\ \A u \in sweep[k] : ~u.saved
    /\ Save(t.id, t.row)
    /\ sweep' = [sweep EXCEPT ![k] = (@ \ {t}) \cup {[t EXCEPT !.saved = TRUE]}]
    /\ UNCHANGED <<overdue, offered, told, aborts>>

\* The loop takes the next entity, sets its status and saves it.  It does not
\* look at the row again.
SweepSave(k, t) ==
    /\ t \in sweep[k]
    /\ \A u \in sweep[k] : ~u.saved
    /\ Save(t.id, [t.row EXCEPT !.status = "EXPIRED"])
    /\ sweep' = [sweep EXCEPT ![k] = (@ \ {t}) \cup {[t EXCEPT !.saved = TRUE]}]
    /\ UNCHANGED <<overdue, offered, told, aborts>>

\* The waiting list called before the save.
SweepAnnounceEarly(k, t) ==
    /\ t \in sweep[k]
    /\ offered' = IF k = "minute" /\ AllowsWaitlist
                    THEN offered \cup {t.id} ELSE offered
    /\ told' = IF k = "hourly" THEN told \cup {t.id} ELSE told
    /\ sweep' = [sweep EXCEPT ![k] = @ \ {t}]
    /\ UNCHANGED <<reg, overdue, aborts>>

\* The rest of the loop body: the minute job offers the seat to the waiting
\* list, the hourly one notifies the attendee.
SweepAnnounce(k, t) ==
    /\ t \in sweep[k]
    /\ t.saved
    /\ offered' = IF k = "minute" /\ AllowsWaitlist
                    THEN offered \cup {t.id} ELSE offered
    /\ told' = IF k = "hourly" THEN told \cup {t.id} ELSE told
    /\ sweep' = [sweep EXCEPT ![k] = @ \ {t}]
    /\ UNCHANGED <<reg, overdue, aborts>>

\* A save that throws ends the round, as a restart of the process does: the
\* batch was only in memory.
SweepAbort(k) ==
    /\ sweep[k] # {}
    /\ aborts < MaxAborts
    /\ aborts' = aborts + 1
    /\ sweep' = [sweep EXCEPT ![k] = {}]
    /\ UNCHANGED <<reg, overdue, offered, told>>

RegNext ==
    \/ \E a \in Attendees, free \in BOOLEAN : Create(a, free)
    \/ \E a \in Attendees : Deadline(a)
    \/ \E k \in CronJobs : SweepFind(k)
    \/ \E k \in CronJobs : \E t \in sweep[k] : SweepSave(k, t)
    \/ \E k \in CronJobs : \E t \in sweep[k] : SweepAnnounce(k, t)
    \/ \E k \in CronJobs : SweepAbort(k)

\* @Cron fires again and again, and the loop of a round goes on: a round that
\* can start starts, and one that is running takes its next step.
SweepFairness ==
    \A k \in CronJobs :
        /\ WF_regVars(SweepFind(k))
        /\ WF_regVars(\E t \in sweep[k] : SweepSave(k, t) \/ SweepAnnounce(k, t))

RegistrationsSpec == RegInit /\ [][RegNext]_regVars /\ SweepFairness

-----------------------------------------------------------------------------
(***************************************************************************)
(* Properties                                                              *)
(***************************************************************************)

\* create() never lets more seats count than there are in stock, whatever
\* the cron jobs do with rows they read earlier.
CountedWithinStock == Cardinality(Reserved) <= Stock

\* Nobody loses a seat before the deadline, and a free seat has none: of all
\* rows that are written back late, only those past expiresAt are EXPIRED.
NoEarlyExpiry ==
    \A a \in Attendees :
        reg[a].status = "EXPIRED" => a \in overdue /\ ~reg[a].free

\* Two jobs that sweep the same batch, and die half way, still expire every
\* reservation whose deadline has passed.
OverdueIsSwept ==
    \A a \in Attendees :
        (reg[a].status = "PENDING" /\ a \in overdue)
            ~> reg[a].status = "EXPIRED"

=============================================================================

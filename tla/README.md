# CIP Eventos: formal model

TLA+ modules, TLC configurations and TLAPS proofs for the back end of CIP
Eventos (`src/backend`), the NestJS application with which the Colegio de
Ingenieros del Perú sells, expires, pays, checks and certifies places at its
events. `PROJECT.json` maps every definition to the lines it models, lists the
parts that are not modelled, and names the hazards of the code at their lines.
Paths below are relative to `src/backend/src` unless they begin with `src/`.

1. The system
2. Modules and how they correspond to the code
3. What is checked with TLC
4. What is proved with TLAPS
5. Where code and documents disagree
6. What is not modelled
7. Plan

## 1. The system

One or more Node processes serve HTTP requests and run `@Cron` jobs over one
PostgreSQL database, with BullMQ queues on Redis for mail, PayPal for cards, and
treasurers who review vouchers by hand. Requests and jobs interleave at every
`await`. Most handlers open no transaction: they load entities, wait for the
database, PayPal, the mail server or a PDF, and then call `repository.save`,
which writes the *whole* entity as it is in memory. The hard part of the system
is therefore not its algorithms but what happens between a read and the write
that depends on it.

### Components

| Component | State it keeps | Operations that change it | Hard behaviour | What makes it correct |
|---|---|---|---|---|
| Registrations `registrations/` | `registrations`: status, attended, expiresAt, finalPrice | `create`; the minute job `expirePendingRegistrations`; the hourly job `checkExpiredReservations` of `notifications/` | one SERIALIZABLE transaction against two unlocked jobs that write back whole batches | seats within the stock; nobody expires early; everybody late expires; a seat announced as lost comes back only for a reason |
| Check-in `registrations/` | `attended`, status, `session_attendances` | `checkIn` (legacy), `checkInAdvanced` (event, session), `checkOutSession` | several desks on rows read earlier; no transaction | only valid tickets enter; a check-in brings back no seat that is not excused |
| Payments `payments/` | `payments`; PayPal's books | `createPaymentIntent`, `completePaypalPayment`, `reportPayment`, `reviewPayment` | a remote capture with a timeout; two entities saved one after the other; retries | no seat, completion or session visit without money |
| Chargebacks, refunds `payments/services`, `refunds/` | payment and registration status, `refunds` | initiate, confirm, reverse; request, review, process | chains of unlocked saves by several administrators | money goes back only where it came in and only when approved; a dispute gives back only the seat it took |
| Purchase orders `purchase-orders/` | `purchase_orders` with their registrations | `create` behind a guard, `expire` and its job, `cancel` | READ COMMITTED transactions without locks; several seats at once; a limit counted before the insert | stock shared with single registrations; late expiry only; the number of open orders bounded |
| Waiting list `waitlist/` | `waitlist_entries` | `join`, `leave`, `inviteNext`, `processExpiredInvitations` | two jobs invite at once on entries read earlier | no more invitations than released seats; lapsed invitations end |
| Coupons `coupons/` | `currentUses`, `coupon_usages` | `validateCoupon`, `applyCoupon`, `expireCoupons` | a second connection inside a transaction; a counter read and written back | the limit of uses; no wait for the pool that never ends |
| Blocks, enrollments `evaluations/` | `block_enrollments`; status, price, capacity, minimum attendance and passing grade of the block | `enroll`, `confirmPayment`, `cancel`, `withdraw`, `startBlock`, `finalizeEnrollment`; `update`, `updateStatus` and `remove` of the block; `grant` of a courtesy | capacity counted on ENROLLED only, and not by everybody; whole rows saved long after they were read; a block edited under its participants | capacity; nobody studies unpaid; what is over stays over |
| Grades, attendance `evaluations/` | `participant_grades`, `session_attendances`, final grade and percentage of the enrollment | `recordGrade`, `publishGrades`, `recalculateFinalGrade`, `recordAttendance`, `checkIn`, `checkOut` | transactions that see only what is committed; a recalculation on another connection | a final grade comes from published ones; who is approved earned it |
| Events `events/` | `events`, `event_sessions`, a copy in Redis | `update`, `remove`, `publish`, speakers, sessions, `autoCompleteEvents` | the copy is read, loaded and set in three steps; sessions are checked before they are stored | the copy settles; sessions of one room collide only by a race; removed events stay removed |
| Streaming tokens `evaluations/` | token with a JSON list of connections | generate, connect, disconnect | the list is read and written back whole | the limit of connections |
| Fiscal documents `fiscal-documents/` | series, documents, credit notes | `createDocument`, `voidDocument`, `createCreditNote` | numbers taken under a row lock that cannot exist before the first document | numbers without gaps or repeats; amounts that add up; few documents per payment |
| Transfers `ticket-transfers/` | transfers, registrations | `initiate`, `completeInternal`, `cancel` | a token that lives long; the registration changes meanwhile | one holder per seat |
| Courtesies `courtesies/` | courtesies, registrations | `grant`, `createFreeAccess`, `cancel` | one transaction; rows that no index lets it insert twice; places nobody counts | one courtesy per person; what is cancelled gives no access |
| Certificates `certificates/` | certificates (status, version) | issue, reissue, revoke | waits for a PDF between read and save | a revoked certificate stays revoked |
| Authentication `auth/`, `redis/` | hashed refresh token, sessions in Redis | login, `refreshTokens`, logout | read, change, write back of one key | a refresh token is used once; no session is lost |
| Scheduled reports `reports/` | `scheduled_reports`: isActive, nextScheduledAt, counts | create, update, delete, execute; the hourly job | a mail is queued before the row is saved; rows saved over each other | what is due is run; one mail per date; counts that are real |
| Persons, users, settings, audit, uploads, ... | one row each | CRUD | none, or the shapes above | see `PROJECT.json` |

### How they interact

* **Shared tables.** `registrations` is written by seven services (registrations
  with check-in, payments, chargebacks, refunds, purchase orders, transfers,
  courtesies), and three jobs expire its rows: the minute job, the hourly job of
  `notifications/` and the job of the orders.
* **Calls.** The minute job calls the waiting list for each row it expires (the
  hourly job and the order job do not). Payments call fiscal documents and
  mail; refunds call credit notes; registrations call coupons.
* **Queues.** Mail jobs go through BullMQ. No decision reads what they do.

The modules therefore form a tower over one table of registrations, and each
level adds its own tables, requests in progress and jobs. Fiscal documents,
blocks with their grades, events and scheduled reports have tables of their own
which no handler of the tower writes, and stand beside it.

## 2. Modules and how they correspond to the code

```
SeatLedger                   abstract: what the stock promises
   ^ implemented by (refinement mapping)
Registrations  <- CheckIns <- Payments <- Disputes
       ^                          ^
   Waitlist                 PurchaseOrders

Numbering        <-(implements)-  FiscalDocuments
Enrollments  <-  Evaluations
Events                            ScheduledReports
```

Each arrow `A <- B` reads "B EXTENDS A and adds its actions to those of A".

| Module | State | Actions |
|---|---|---|
| `SeatLedger` | `granted`, `counted`, `excused` | `Grant` under the stock, `Excuse`, `Leave`, `Return` |
| `Registrations` | `reg` (the table), `overdue` (expiresAt has passed), `sweep` (the batch a job holds), `offered`, `told` (ghosts: seats handed to the waiting list, owners notified) | `Create`, `Deadline`, `SweepFind`, `SweepSave`, `SweepAnnounce`, `SweepAbort` |
| `CheckIns` | `desk` (request in progress), `ins`, `outs` (session_attendances), `inside` (ghost: people let in) | `LegacyRead/Save`, `EventRead`, `SessionRead/Lookup/Attend`, `AttendedSave`, `OutRead/Save`, `DeskFail` |
| `Payments` | `pay` (the table), `teller` (request in progress), `captured` (PayPal's books), `vouched` (vouchers a treasurer approved) | `IntentRead/Insert`, `PaypalRead/Capture/SavePay/SaveSeat`, `ReportRead/Save`, `ReviewRead`, `ApproveSaveSeat/SavePay`, `RejectSave`, `TellerFail` |
| `Disputes` | `refund` (the table), `clerk` (request in progress), `approved`, `contested` (ghosts) | `RequestRead/Check/Insert`, `ReviewRefundRead/Save`, `ProcessRead/Start/Complete`, `PayBack`, `CancelSeat`, `InitiateRead`, `Initiate`, `ConfirmRead`, `Confirm`, `ReverseRead`, `Reverse`, `ClerkFail` |
| `PurchaseOrders` | `order` (the table), `request` (request or job in progress), `withdrawn` (ghost) | `GuardPass`, `OrderCreate`, `OrderDeadline`, `CancelRead/Save`, `ExpireRead/Save`, `RequestFail`, `ExpireFail` |
| `Waitlist` | `entry` (the table), `asking`, `inviter`, `round` (requests and jobs in progress), `lapsed` | `JoinRead/Insert`, `LeaveRead/Save`, `FindNext`, `InviteSave`, `Release`, `Lapse`, `RoundFind/Save/Invite`, `RoundAbort`, `InviteFail`, `AskFail` |
| `Numbering` | `used` | `Issue` the next number of a series |
| `FiscalDocuments` | `amount`, `settled` (payments), `rows` (fiscal_series), `docs`, `notes`, `clerk` (request in progress, with the row it has locked) | `Settle`, `DocRead`, `Number`, `Refused`, `DocSave`, `AnnulRead/Save`, `NoteRead/Save`, `ClerkFail` |
| `Enrollments` | `block` (as last saved), `enr` (block_enrollments), `clerk` (requests with the rows they loaded), `confirmed`, `guests` (ghosts: who paid, whom a courtesy enrolled) | `BlockSave`, `GrantCourtesy`, `EnrollRead/Save`, `ConfirmRead/Save`, `CancelRead/Save`, `WithdrawRead/Save`, `StartRead/Save`, `FinalizeRead/Save`, `RefreshRead/Save` (any recalculation), `ClerkFail` |
| `Evaluations` | in addition `roll` (session_attendances), `grades`, `signing`, `marking`, `queue` (requests), `published`, `attended` (ghosts) | `AttendRead`, `CheckInRead`, `CheckOutRead`, `ConnectRead`, `SignSave`, `CountLoad/Save`, `RecordRead/Save`, `RetakeLoad/Save/Commit`, `PublishUpdate/Load/Save`, `BlockEdit`, `RequestFail`, and the withdrawal and judgement of `Enrollments` |
| `Events` | `event` (the row), `sessions`, `cache` (Redis), `editor`, `planner`, `visitor`, `missed`, `sweep` (requests and job), `now`, `blind` (ghost: sessions stored without knowing each other) | `UpdateRead`, `RemoveRead`, `PublishRead`, `AddSpeakerRead`, `RemoveSpeakerRead`, `EventSave`, `Invalidate`, `SweepRead/Save`, `VisitMiss/Load/Set`, `Expire`, `AddSessionRead`, `UpdateSessionRead`, `DeleteSessionRead`, `SessionSave`, `Tick`, failures |
| `ScheduledReports` | `table`, `clerk`, `runner` (what each round or request executes), `mails`, `failed`, `off` (ghosts) | `Create`, `UpdateRead/Save`, `Delete`, `RunRead`, `RoundFind`, `Mail`, `Fail`, `SaveFail`, `Save`, `Abort`, `Due` |
| `*Proofs` | | theorems (eight modules): `SeatLedgerProofs`; `SeatsProofs` of `Registrations`, `CheckIns` and `Waitlist`; `MoneyProofs` of `Payments` and `Disputes`; `PurchaseOrdersProofs`; `FiscalDocumentsProofs`; `EvaluationsProofs` of `Enrollments` and `Evaluations`; `EventsProofs`; `ScheduledReportsProofs` |
| `MC*` | | instances for TLC, with the symmetry sets |

Definitions named `...Mutant`, or that end in what is wrong with them
(`SweepSaveUnset`), are not part of any specification: each is a plausible bug
in one definition, and shows that the property `PROJECT.json` pairs it with
would notice it.

### Conventions

* **Atomicity.** A handler without a transaction is split at the `await`s
  between its reads and its saves, and carries a *task* with the entities it
  loaded. A SERIALIZABLE transaction is one action. A READ COMMITTED one
  without locks (`expire`, `cancel` of orders) is a read and a later commit.
* **`save(entity)`** overwrites every column with the snapshot in memory, in one
  step, and inserts the row again if it is gone. (TypeORM reloads the row and writes the difference in one short
  transaction; its reload and its update are not told apart.)
* **Locks.** `pessimistic_write` in `create` is the row lock of the ticket. That
  PostgreSQL grants it for the query with joined relations is assumed.
* **A request that is refused** changes nothing and is no action. A request that
  dies between two steps is (`DeskFail`, `TellerFail`, `ClerkFail`, ...).
* **Time** is a set: `overdue` holds the attendees whose `expiresAt` has passed,
  `lapsed` the people whose `invitationExpiresAt` has. Any deadline may pass at
  any moment after it was set.
* **Identity.** The unique index (attendee, event) gives an attendee one row for
  ever, so a row is named by its attendee, a payment by its registration
  (one-to-one) and an entry of the list by its person.
* **Read committed.** The transactions of fiscal documents, grades and attendance
  see what was committed before each statement and their own writes. A row
  written and not yet committed is locked (`Locked`, `RowLocked`,
  `GradeLocked`); whoever wants to write it waits.
* **Ghosts.** `inside`, `vouched`, `approved`, `contested`, `withdrawn`, `told`,
  `confirmed`, `guests`, `published`, `attended`, `blind`, `mails`, `failed` and `off` decide
  nothing; they remember what happened so that a property can say it. (`Unused`
  of `ScheduledReports` looks at the last three, so that no new report gets the
  name of an old one.)
* **Abstraction of data.** Prices are `free` or not; a refund is `full` or not;
  form answers, names, dates, mails and messages are left out. Amounts of fiscal
  documents are in cents and grades in hundredths, because rounding matters.

## 3. What is checked with TLC

### Passing runs

| Run | Instance | Checked | Shows |
|---|---|---|---|
| `checkins` | 3 attendees, 2 seats, 2 desks, 1 session, minute job | `KeepsLedger` | tables, job and desks implement `SeatLedger`: who is neither late nor inside never returns to the count unchecked |
| `payments` | 1 attendee, 2 payment requests, 1 desk, 1 session, minute job, a waiting list | `NoSeatWithoutMoney` `NoCompletionWithoutMoney` `OnlyPaidAttend` `AnnouncedIsExcused` | no interleaving of two captures or vouchers, expiry and check-in confirms, completes or admits without money; a seat offered to the waiting list is taken back only for somebody let in or whose money arrived |
| `disputes` | 1 attendee, 1 payment request, 1 administrator, 1 refund, minute job | `DisputesTypeOK` `OnlyPaidIsReturned` `DisputesKeepLedger` | money returns only where it came in; a dispute that is won restores only a seat that a dispute or a refund took, or one excused before |
| `orders` | 3 attendees, 2 seats, 2 buyers, 2 orders, minute job and order job, one failure | `OrdersTypeOK` `OrdersExpireLate` `OrdersWithinStock` `PendingBounded` | orders and single registrations share the stock; nothing expires early; the limit of open orders is exceeded by at most the requests in flight less one |
| `waitlist` | 2 attendees, 1 seat, 2 people, minute job, hourly job and invitation job, one round that dies | `CountedWithinStock` `NoEarlyExpiry` `OverdueIsSwept` `InvitationsHaveSeat` `LapsedEnds` | `create` holds the stock whatever two overlapping jobs write back; only the late expire, and all of them do; invitations never outnumber released seats; no lapsed invitation stays in force |
| `fiscal` | 1 payment of one of 2 amounts, 2 requests, 2 credit notes of 50 % | `OneCounter` `OnlyFirstRefused` `DocumentsBounded` `AmountsAddUp` `KeepsNumbering` `RequestsEnd` | the numbers implement `Numbering` although requests die holding one; only a series without a row lets two requests take one number; nobody waits for a lock for ever |
| `enrollments` | 3 people, 2 administrators, 3 versions of the block (free with 1 place, paid with 2, closed), courtesies | `AdmissionsBounded` `PaidBeforeStudying` `OverIsOver` | whatever the block becomes meanwhile, those `enroll` admitted for nothing and who have not begun exceed its capacity by at most the requests served at once less one; rows saved late let nobody study unpaid and revive only what a request held before |
| `evaluations` | 1 participant, 2 requests, 1 session, 2 exams, 2 marks, 3 records, 2 versions of the block (70 % and 14.00, 50 % and 12.00) | `EvalTypeOK` `FinalFromPublished` `RetakeIsCapped` `ApprovedWasEarned` | every final grade is an average of grades that were published, and no approval comes from drafts, an uncapped recovery or sessions nobody was recorded in, nor from the halves of two versions of the block |
| `events` | 1 event, 1 speaker, 2 sessions, 1 room, 2 requests, 1 visitor, the job, 2 changes, 4 instants | `EventsTypeOK` `OverlapsRaced` `RemovedStays` `CacheSettles` | sessions collide in a room only if one was stored without knowing the other; a removed event nobody holds stays removed; a page nobody should see leaves Redis |
| `reports` | 2 reports, the hourly job, 2 administrators, 3 requests, 2 dates, one death, 2 failures in place of 5 | `ReportsTypeOK` `CountsAreReal` `OffForAReason` `MailedOncePerDate` `DueIsRun` | lost updates invent neither mails nor failures; a second mail for a date is owed to a request or a death; what is due does not stay due |

What is proved for every value of the constants and would only repeat another
property here is left to section 4: the type invariants `RegTypeOK`,
`DoorTypeOK`, `MoneyTypeOK`, `WaitTypeOK`, `FiscalTypeOK` and `EnrTypeOK`,
`StockKept`, `KeepsLedger` for `Payments` (the run `disputes` checks the
refinement on a specification that contains it), and `ReturnsAreApproved`, which
is about several administrators, while `disputes` has room for one.

**Why the bounds are enough to be interesting.** Three attendees for two seats is
the least number for which one seat is refused while another is released and
resold; two jobs, two desks or two buyers are what a race needs. A desk, a
request or an administrator carries one task, and starts again when it is done,
so that one of them already runs any sequence of calls; two give the
overlapping ones. `payments` overlaps two payment requests with a desk and the
job. `disputes` overlaps one administrator with a payment request and the job:
two administrators, even without the job, are beyond what TLC explores in five
minutes, and what is said of them is proved. `payments` and `disputes` have one registration, since a
payment is named by its registration and the only thing two registrations
share is the stock; what follows for any number of them is proved (section 4).
`MaxAborts` bounds how many rounds die: one is enough for every state in which
a batch was left half done. `MaxOrders`, `MaxRequests`, `MaxNotes`, `MaxRecords` and `MaxChanges` bound
the rows ever inserted or the requests ever made, `MaxDue` the dates that come,
`MaxTime` the clock. The block, while it is free, has one place, and there is one person more than
two, the least for which one is refused while another leaves; its paid version
has two places and its closed one any number, so that all three fields change
under the requests. (A second free version with more places would make the
bound as large as three people; the theorem is for every set of versions.) One participant is enough for
`evaluations`: no step there looks at two, and exams, sessions and requests are
what races. The two marks lie on the two sides of both passing grades. Attendees, desks,
payment requests, buyers, administrators and exams are interchangeable, and the
runs `checkins`, `payments`, `orders`, `enrollments` and `evaluations`, which
check no liveness, use that symmetry.
Deadlock is not checked: when every row has reached a final status and no
request is open, the system is rightly at rest.

### Fairness

* `SweepFairness` (run `waitlist`): weak fairness of the start of each
  job's round and of its next loop step. `@Cron` fires for ever and Node goes on
  with the loop; neither attendees nor deadlines are fair.
* `WaitFairness` (run `waitlist`): weak fairness of each expiry job, and of the
  round of the invitation job together with the `inviteNext` it has called, for
  the same reason.
* `FiscalFairness` (run `fiscal`): weak fairness of each request once it is in
  progress, for Node and PostgreSQL go on with it, and strong fairness of taking
  the number, because PostgreSQL serves those who wait for a row in order.
* `WF(Expire)` (run `events`): Redis removes a key when its time is over.
* `ReportsFairness` (run `reports`): weak fairness of the rounds of the hourly job,
  as above.

### Runs that show a disagreement

Each checks one sentence of the repository's own documents, comments or tests,
and TLC finds a behaviour of the code against it; see section 5.

| Run | Property |
|---|---|
| `oversell` | `NoOversell` |
| `recovery_counted` | `RecoveryIsCounted` |

## 4. What is proved with TLAPS

Every theorem holds for all values of the constants: any finite set of
attendees (`AttendeesAssumption`), any stock (`StockAssumption`), any number of
desks, tellers, sessions, buyers and people, any number of failed rounds, with
or without a waiting list; any set of payments and amounts, any number of
requests for documents, any versions of a block and any courtesies, any exams,
marks and sessions, any spans and rooms of an agenda, any reports and dates.
The assumptions are the named `ASSUME`s of the modules, evaluated by TLC in every
run. They say that sets which are counted are finite, that bounds are numbers,
that marks are natural numbers and statuses those of the code; that requests
and jobs have different names; and that an agenda a run begins with is one the
code accepts (`FirstAgendaAssumption`). `MailedOncePerDate` speaks of one round of
the hourly job at a time, in its own statement.

| Theorem | Says |
|---|---|
| `SeatLedgerProofs!LedgerSafe` | `LedgerSpec => []WithinStock` |
| `SeatsProofs!RegTypeCorrect` | `RegistrationsSpec => []RegTypeOK` |
| `SeatsProofs!StockRespected` | `RegistrationsSpec => []CountedWithinStock` |
| `SeatsProofs!NobodyExpiresEarly` | `RegistrationsSpec => []NoEarlyExpiry` |
| `SeatsProofs!DoorTypeCorrect` | `CheckInsSpec => []DoorTypeOK` |
| `SeatsProofs!CheckInsKeepLedger` | `CheckInsSpec => KeepsLedger`, that is, `CheckIns` implements `SeatLedger` |
| `SeatsProofs!CheckInsKeepStock` | `CheckInsSpec => []StockKept`, from `CheckInsKeepLedger` and `LedgerSafe` |
| `MoneyProofs!MoneyTypeCorrect` | `PaymentsSpec => []MoneyTypeOK` |
| `MoneyProofs!SeatsArePaid` | `PaymentsSpec => []NoSeatWithoutMoney` |
| `MoneyProofs!CompletionsArePaid` | `PaymentsSpec => []NoCompletionWithoutMoney` |
| `MoneyProofs!VisitorsPaid` | `PaymentsSpec => []OnlyPaidAttend` |
| `MoneyProofs!PaymentsKeepLedger` | `PaymentsSpec => KeepsLedger` |
| `MoneyProofs!DisputesTypeCorrect` | `DisputesSpec => []DisputesTypeOK` |
| `MoneyProofs!ReturnsWerePaid` | `DisputesSpec => []OnlyPaidIsReturned` |
| `MoneyProofs!AnnouncedComesBackExcused` | `DisputesSpec => []AnnouncedIsExcused` |
| `MoneyProofs!ReturnsWereApproved` | `DisputesSpec => []ReturnsAreApproved` |
| `MoneyProofs!DisputesImplementLedger` | `DisputesSpec => DisputesKeepLedger` |
| `SeatsProofs!WaitTypeCorrect` | `WaitSpec => []WaitTypeOK` |
| `SeatsProofs!InvitationsCovered` | `WaitSpec => []InvitationsHaveSeat` |
| `SeatsProofs!ListKeepsSeats` | `WaitSpec => [](CountedWithinStock /\ NoEarlyExpiry)` |
| `PurchaseOrdersProofs!OrdersTypeCorrect` | `OrdersSpec => []OrdersTypeOK` |
| `PurchaseOrdersProofs!OrdersExpireOnTime` | `OrdersSpec => []OrdersExpireLate` |
| `PurchaseOrdersProofs!OrdersStayWithinStock` | `OrdersSpec => []OrdersWithinStock` |
| `PurchaseOrdersProofs!OrdersBounded` | `OrdersSpec => []PendingBounded` |
| `FiscalDocumentsProofs!FiscalTypeCorrect` | `FiscalSpec => []FiscalTypeOK` |
| `FiscalDocumentsProofs!SeriesHaveOneCounter` | `FiscalSpec => []OneCounter` |
| `FiscalDocumentsProofs!LockServesAll` | `FiscalSpec => []OnlyFirstRefused` |
| `FiscalDocumentsProofs!DocumentsKeepNumbering` | `FiscalSpec => KeepsNumbering`, that is, `FiscalDocuments` implements `Numbering` |
| `FiscalDocumentsProofs!FewDocumentsPerPayment` | `FiscalSpec => []DocumentsBounded` |
| `FiscalDocumentsProofs!AmountsAgree` | `FiscalSpec => []AmountsAddUp` |
| `EvaluationsProofs!EnrTypeCorrect` | `EnrSpec => []EnrTypeOK` |
| `EvaluationsProofs!PaysBeforeStudying` | `EnrSpec => []PaidBeforeStudying` |
| `EvaluationsProofs!AdmissionsAreBounded` | `EnrSpec => []AdmissionsBounded` |
| `EvaluationsProofs!OverStaysOver` | `EnrSpec => OverIsOver` |
| `EvaluationsProofs!EvalTypeCorrect` | `EvalSpec => []EvalTypeOK` |
| `EvaluationsProofs!FinalIsFromPublished` | `EvalSpec => []FinalFromPublished` |
| `EvaluationsProofs!RetakeStaysCapped` | `EvalSpec => []RetakeIsCapped` |
| `EvaluationsProofs!ApprovalIsEarned` | `EvalSpec => []ApprovedWasEarned` |
| `EvaluationsProofs!GradingKeepsOver` | `EvalSpec => OverIsOver` |
| `EventsProofs!EventsTypeCorrect` | `EventsSpec => []EventsTypeOK` |
| `EventsProofs!CollisionsAreRaces` | `EventsSpec => []OverlapsRaced` |
| `EventsProofs!RemovedForGood` | `EventsSpec => RemovedStays` |
| `ScheduledReportsProofs!ReportsTypeCorrect` | `ReportsSpec => []ReportsTypeOK` |
| `ScheduledReportsProofs!CountsStayReal` | `ReportsSpec => []CountsAreReal` |
| `ScheduledReportsProofs!SwitchedOffForAReason` | `ReportsSpec => []OffForAReason` |
| `ScheduledReportsProofs!MailedOnce` | `ReportsSpec => []MailedOncePerDate` |

**The shape of the arguments.** None of the properties is inductive, for one and
the same reason: what a step writes was decided by what another step read. So
each inductive invariant says of every task in progress what it still knows of
the table it read.

* *Registrations* (`RegIInv`). A batch holds rows that were PENDING, costly and
  late when read, and in this module nothing else changes such a row, so it is
  still PENDING or has expired (`BatchKnows`). Hence whatever a job saves takes a
  row out of the count, and only `Create` adds one, under the stock.
* *CheckIns* (`DoorIInv`). With desks `BatchKnows` is false: a desk brings an
  expired row back. What remains is weaker. A row in memory is the stored one in
  identity and price (`Faithful`), and one that does not count belongs to
  somebody excused: late, or inside (`Accounted`). Therefore a save is `Leave`,
  `Return` or a stutter of the ledger, a passing deadline is `Excuse`, and the
  stock follows from `LedgerSafe` alone.
* *Payments* (`MoneyIInv` = `DoorIInv` and the money). Every row in the table, in
  a batch, at a desk or with a teller that says CONFIRMED or ATTENDED is free or
  its money is there (`RowsPaid`, `DesksPaid`), and each step of a payment request
  has what the steps before it achieved (`TellersKnow`). The step lemmas of
  `SeatsProofs` are used as they are; the tellers' saves are again ledger
  steps.
* *Disputes* (`BackIInv`). A refund or a chargeback takes the seat of somebody
  neither late nor inside, so `Accounted` gives way to `Spared`: a row that does not
  count belongs to somebody in the wider `Released`. Every administrator works on
  a registration somebody paid for, and where he will save a row he has read it
  (`ClerkSure`); a refund that is in process was approved (`RefundsSure`). Each
  step then leaves the seats alone (`NoSeat`) or grants, releases or rewrites
  the seat of one person (`OneSeat`), which is a step of the ledger. For the seats
  that were announced, `LossStep` adds what the writers of a row that exists have in
  common (`RowsRewritten`): the jobs write EXPIRED, a desk writes for whom it lets
  in, and payments, refunds and chargebacks write where money came in.
* *Waitlist* (`WaitIInv`). Invitations alone are not bounded inductively: an entry
  of an expiry round ends and is passed on even if it is no longer INVITED when
  its turn comes. What is bounded are the *claims*, the invitations in force and
  the entries a round has still to save, together with the seats on their way to
  `inviteNext` (`ClaimsCovered`), against the seats released, which no job
  releases twice (`BatchUnoffered`).
* *PurchaseOrders* (`OrdersIInv`, `SeatsIInv`). The open orders and the requests
  between guard and insert are bounded together. For the seats: a task holds
  rows of people who have a row; a row out of the count belongs to somebody late,
  inside or withdrawn; an order about to expire was found late. So every step
  leaves a row alone, inserts rows that fit into the stock, or writes over rows
  of people who are already there (`Moves`), and only the second raises what
  counts.
* *FiscalDocuments* (`FiscalIInv`). That a counter agrees with its documents is not
  inductive while a request holds a number it has not used. So the invariant
  says, of every request that is about to save, what the lock lets it rely on:
  the row it holds is the one of its series and the number is the next one, or
  it found no row and the number is 1. Then a save is `Issue` of `Numbering`, the
  index refuses the rest, and `DocumentsBounded` counts documents together with
  the requests on their way.
* *Enrollments* (`EnrIInv`). A row in memory may be written at any later time, so
  the invariant says the same of rows in memory as of stored ones: it is free, or
  its payment was confirmed, or nobody studies on it. For the places, those whom
  `enroll` admitted for nothing and who have not begun are bounded together with
  the requests that will admit somebody, against the largest capacity the block
  had; guests are told apart from the rest by the ghost and stay so in memory. The verdict is in the entity as soon as it is loaded, for it is passed before the
  request waits again. No grade is computed in this module, so that every verdict
  is FAILED here; that APPROVED is final too is `GradingKeepsOver`, of `Evaluations`.
* *Evaluations* (`EvalIInv`). What a row says of grades and attendance has to be
  true of the rows in memory as well, and to stay true until they are saved.
  The ghosts only grow, so it does: a final grade lies between published marks,
  a recovery above the passing grade was published (`Supported`), whoever has
  some attendance came (`Attended`), whoever is approved earned it (`Approved`). The
  exception is the request that records an attendance: it counts a row it has
  not committed, and saves both together (`Counted`), for which a request must do
  one thing at a time (`OneThing`). That the average lies between the marks is a
  fact about a sum over a finite set: the sum is the number of pairs (exam,
  point) (`Tally`, `SumIsTally`), and the lemmas about every finite set take a
  smallest counterexample (`SmallestSubset`) in place of an induction.
  `HoldsIInv` adds what a request that judges or withdraws has seen; every step
  then loads rows, saves one or gives up (`RequestsLoadOrSave`), and
  `GradingKeepsOver` follows as in `Enrollments`.
* *Events* (`AgendaIInv`). The stored agenda was checked against an agenda that is
  gone. The invariant says that a row in memory clashes with nothing its request
  has seen (`PlansFit`), which takes that the three cases of the code's comparison
  are all the ways to intersect (`OverlapIsEnough`); a save then meets a session
  as it was seen, or one that is put into `blind`. That removed events stay
  removed needs the types and nothing else: every handler that loads the row
  looks at `isActive` first.
* *ScheduledReports* (`RowsIInv`, `MailsIInv`). Rows in memory tell of executions that
  happened, because `mails`, `failed` and `off` only grow. For the mails, what is
  bounded is the mails queued together with those that are owed: to a report
  whose date has come, and that no round holds as mailed (`OwedReports`), or to a
  request that runs one or may write an old date back (`OwedClerks`). Each date, each
  request and each death pays for one (`Credit`), and a mail only moves one from
  what is owed to what was queued (`MailsPaid`).

**Only model-checked.** The liveness properties `OverdueIsSwept`, `LapsedEnds`,
`RequestsEnd`, `CacheSettles` and `DueIsRun`, since liveness under fairness is
beyond the prover. Every invariant, action property and refinement that a
passing run checks is proved. The runs that show a disagreement are
counterexamples and need no proof. No module declares a RECURSIVE operator.

## 5. Where code and documents disagree

Shown by a run (`findings` in `PROJECT.json` quotes the lines):

1. **A seat sold twice, without any race.** The stock counts CONFIRMED and PENDING;
   a check-in writes ATTENDED, so every person who enters frees a seat
   (`oversell`).
2. **A recovery that does not count.** `recordGrade` writes a published recovery in
   a transaction and recomputes the final grade on another connection, which does
   not see it: the grade is stored, and the final grade is not lifted until
   somebody publishes again (`recovery_counted`).

Seen while modelling and not given a run; the behaviour is in the models:

* A seat nobody is offered: the hourly job expires a reservation and does not call
  the waiting list (`notifications/services/notifications-cron.service.ts:97`); the
  minute job then finds nothing to expire. `src/README.md:490` says that the list
  is invited.
* A paid seat expires: the minute job saves EXPIRED over a batch it read before the
  payment (`registrations/registrations.service.ts:398`).
* Money taken and seat not confirmed: PayPal captured and the reply was lost; every
  retry captures again and is refused (`payments/payments.service.ts:262`).
* Two live refunds of one registration, requested at the same time
  (`refunds/refunds.service.ts:102`).
* A paid order expires: no payment calls `markAsPaid`, so an order stays PENDING
  and takes the seats of those who paid with it
  (`purchase-orders/purchase-orders.service.ts:464`).
* A report or a review that began before a capture completed overwrites COMPLETED
  (`payments/payments.service.ts:336`); `payments.service.spec.ts:476` expects a
  completed payment to be refused.
* Two people who join the waiting list at once get the same priority; a person who
  left may still be invited by an `inviteNext` that read the entry before; two
  calls of `inviteNext` may invite one person for two seats; nobody is invited
  when somebody invited leaves; `convertToRegistration` has no caller.
* `validateTicket` accepts CONFIRMED only while the event check-in writes ATTENDED:
  a visitor can neither re-enter nor check out of a session.
* The duplicate check of `create` lets a person whose row is EXPIRED or CANCELLED
  register again, and the unique index then refuses the insert.
* A refund that fails after PROCESSING was saved stays there. A chargeback may be
  reversed after it was confirmed, which restores no seat, and a won dispute
  restores a seat without looking at the stock. A refund revokes no certificate.
* `processor` of the mail queue handles four job types and drops the others.
* Expiry and cancellation of an order never call the waiting list. `maxPerOrder`
  binds each item, and an order may have several items of one ticket.
* A coupon usage is inserted on a connection of its own before the registration it
  refers to is committed, which a foreign key refuses.
* `certificates.ownerType` is NOT NULL and no code sets it.
* *Fiscal documents.* `completePaypalPayment` issues a document without a user, as
  `{id: 'system'}`, which is no user's identifier, and `reviewPayment` issues it before
  the payment is COMPLETED: both are refused, so that documents are issued by
  hand only. A payment whose document was voided can never be documented again.
  The credit notes of one document may exceed it, and one may be issued on a
  document voided meanwhile. Two requests may document one payment twice
  (`fiscal-documents/fiscal-documents.service.ts:97`). The unique index of
  `fiscal_series` contains a column that is always NULL.
* *Blocks.* Capacity counts ENROLLED only, so that late payments, courtesies and the
  start of the block, after which another full set may enroll, let the people who
  take part exceed "Cupo máximo" (`evaluable-block.entity.ts:106`), as
  `getBlockStats` counts them (`blocks.service.ts:257`); and `update` may lower it
  below those already enrolled. `AdmissionsBounded` speaks of what the count does
  bound and of no more. A stale
  save revives a withdrawn or cancelled row. `updateBlock` takes any status.
* *Refunds.* Two administrators may process one refund twice, and a late review may
  turn one that is paid back into REJECTED (`refunds/refunds.service.ts:265,283`).
* *Attendance.* The unique index (session, attendee) is on a column nobody sets,
  so that two requests insert two rows of one session; both are counted, a
  percentage may exceed 100, and half the sessions may be enough for approval.
* *Grades.* In the weighted scheme `weight` is a decimal, which the driver returns
  as a string: `sum + e.weight` concatenates. `finalGradeAfterRetake` stays when the
  recovery goes back to draft. A published ordinary grade that is changed by
  `recordGrade` recalculates nothing until the next `publishGrades`.
* *Events.* A stale save revives a removed event, loses a speaker or inserts a
  deleted session again. The endpoints of speakers and the job that completes
  events leave the copy in Redis as it is, up to five minutes. The speaker of a
  session may be removed from the event, and the event may move away from its
  sessions. `events.service.ts` compares a location it takes to be loaded eagerly,
  which the entity says it is not, so a virtual event may keep a physical place.
* *Reports.* `failureCount` is never reset, although
  `scheduled-reports.service.ts:272` speaks of consecutive failures. The mail
  processor has no case for scheduled reports, so that no such mail leaves. The
  chosen day of the week or month is looked at for the first date only. A stale
  save revives a deleted report. ON_EVENT_END never runs.
* *Courtesies.* `cancel` maps `specificBlocks`, which it did not load
  (`courtesies/courtesies.service.ts:380`), and fails; nothing sets the link between a
  courtesy and the registration it created. A second courtesy after a cancelled
  one would meet the unique index (event, person). A courtesy for a block enrolls
  without looking at its capacity.

## 6. What is not modelled

* `cleanupOldPendingRegistrations` (it selects PENDING rows without `expiresAt`,
  which nothing writes), `convertToRegistration` and `markAsPaid` after creation
  (no caller), read-only queries, `person.flagRisk` (nobody reads it).
* The fiscal documents issued by `reviewPayment` and `processRefund`: there only a
  place where the request may fail. `FiscalDocuments` models the service itself.
* The data of the client and the items of a document; the dates, sessions and
  texts of a block; exams in another scale than their block, their creation and
  deletion, the COMPOSITE scheme and `gradingFormula`; minutes of attendance; the
  place, modality and virtual access of an event, its organizers (the code of the
  speakers once more), its tickets, the catalogues; what is in a report.
* `publishGrades` builds an UPDATE with joins; it is assumed to publish the drafts
  of the block, as it means to.
* Whom a dispute or a refund has once deprived of a seat is in `contested` for ever,
  and `DisputesKeepLedger` excuses whatever becomes of that seat later; in the same
  way `OverIsOver` and `RemovedStays` excuse what a request still holds.
* Courtesies for a whole event, which belong to no ticket, and the cancellation of a
  courtesy, which fails; whoever already has an enrollment in progress is passed
  over by `grant` in silence and is no action.
* In `enroll` the block, the count and the check for duplicates are one read, in
  `update` of an event the check and the load that follows it: nothing depends on
  a change between them that the later save does not already allow.
* Transaction retries of the client, connection pools, and the two statements inside
  one `save`.
* Several ticket types and events at once: nothing but a person's identity is
  shared between them, and each instance is one ticket of one event.
* Everything listed as `not_modelled` in `PROJECT.json`, with the reason.

## 7. Plan

Done, in this order: `SeatLedger`, `Registrations`, `CheckIns`, `Payments` with
their proofs, then `Disputes`, `PurchaseOrders`, `Waitlist`; `FiscalDocuments` and
`Enrollments` with their proofs; `Evaluations`, `Events`, `ScheduledReports` with theirs.

Next, most important first:

1. `StreamingTokens`: the limit of connections on a JSON column that is read and
   written back whole.
2. `Coupons` with a pool of connections: whether everybody can wait for everybody.
   It has to wait for the schema: no migration creates the tables, and the foreign
   key that the entities ask for refuses every use.
3. The cancellation of courtesies, once it can run, over `Registrations` and
   `Enrollments`.
4. Persons: merge and deletion over the rows of the other modules.

To prove: what holds of the money when `PurchaseOrders` and `Disputes` work on the
same registrations (each is proved beside `Payments` alone).

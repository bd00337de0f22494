-------------------------- MODULE ScheduledReports --------------------------
(***************************************************************************)
(* Reports that are mailed on a schedule.                                  *)
(*                                                                         *)
(*   scheduled-reports.service.ts  createScheduledReport,                  *)
(*                                 updateScheduledReport,                  *)
(*                                 deleteScheduledReport, executeReport,   *)
(*                                 getPendingReports,                      *)
(*                                 executeScheduledReport,                 *)
(*                                 calculateNextRun                        *)
(*   reports-cron.service.ts       executeScheduledReports                 *)
(*                                                                         *)
(* The hourly job loads every report that is due and runs one after the    *)
(* other, which may take long; an administrator may run, change or delete  *)
(* the same report meanwhile.  Whoever finishes saves every column of the  *)
(* row as it was loaded, and inserts it again if it is gone.               *)
(*                                                                         *)
(* A schedule is told apart by whether its next date has come.             *)
(***************************************************************************)
EXTENDS Integers, FiniteSets

CONSTANTS
    Reports,      \* identifiers a report may get
    Rounds,       \* rounds of the hourly job that may overlap
    Clerks,       \* requests served at the same time
    MaxFailures,  \* failures after which a report is switched off: 5
    MaxRequests,  \* bound: requests of administrators
    MaxDue,       \* bound: how often a date comes
    MaxAborts     \* bound: executions that die, or cannot save a failure

ASSUME ScheduleAssumption ==
    /\ IsFiniteSet(Reports) /\ IsFiniteSet(Rounds) /\ IsFiniteSet(Clerks)
    /\ Rounds \cap Clerks = {}
    /\ MaxFailures \in Nat \ {0}
    /\ MaxRequests \in Nat /\ MaxDue \in Nat /\ MaxAborts \in Nat

VARIABLES
    table,     \* scheduled_reports: identifier -> {} or {row}
    clerk,     \* per request: the row an update will save
    runner,    \* per round or request: the reports it executes
    mails,     \* mails queued for each report
    failed,    \* executions of each report that failed
    off,       \* reports that an administrator switched off at some time
    requests, dues, aborts

reportVars == <<table, clerk, runner, mails, failed, off,
                requests, dues, aborts>>

Dates == {"never", "later", "due"}

Row == [active     : BOOLEAN,  \* isActive
        periodic   : BOOLEAN,  \* frequency is not ON_EVENT_END
        next       : Dates,    \* nextScheduledAt
        executions : Nat,      \* executionCount
        failures   : Nat]      \* failureCount

\* A report that waits for its turn, or was mailed, or failed, and is about to
\* be saved.
Run == [step : {"waiting", "mailed", "failed"}, id : Reports, row : Row]

Runners == Rounds \cup Clerks

ReportsTypeOK ==
    /\ table \in [Reports -> SUBSET Row]
    /\ \A r \in Reports : Cardinality(table[r]) <= 1
    /\ clerk \in [Clerks -> SUBSET [id : Reports, row : Row]]
    /\ runner \in [Runners -> SUBSET Run]
    /\ mails \in [Reports -> Nat]
    /\ failed \in [Reports -> Nat]
    /\ off \subseteq Reports
    /\ requests \in 0..MaxRequests
    /\ dues \in 0..MaxDue
    /\ aborts \in 0..MaxAborts

-----------------------------------------------------------------------------
(***************************************************************************)
(* Administrators                                                          *)
(***************************************************************************)

\* calculateNextRun() counts from the last mail, or from now; what it returns
\* may lie in the past when the last mail is old.
NextRuns(periodic, dated) ==
    IF ~periodic THEN {"never"}
    ELSE IF dated THEN {"later", "due"} ELSE {"later"}

Ask(c) ==
    /\ clerk[c] = {} /\ runner[c] = {}
    /\ requests < MaxRequests
    /\ requests' = requests + 1

SwitchOff(r, row) == off' = IF row.active THEN off ELSE off \cup {r}

\* Nobody has, or has had, a report with this identifier.
Unused(r) ==
    /\ table[r] = {} /\ mails[r] = 0 /\ failed[r] = 0 /\ r \notin off
    /\ \A c \in Clerks : \A t \in clerk[c] : t.id # r
    /\ \A x \in Runners : \A t \in runner[x] : t.id # r

\* createScheduledReport()
Create(c, r) ==
    /\ Unused(r)
    /\ Ask(c)
    /\ \E active, periodic \in BOOLEAN :
          LET row == [active |-> active, periodic |-> periodic,
                      next |-> IF periodic THEN "later" ELSE "never",
                      executions |-> 0, failures |-> 0]
          IN  table' = [table EXCEPT ![r] = {row}] /\ SwitchOff(r, row)
    /\ UNCHANGED <<clerk, runner, mails, failed, dues, aborts>>

\* updateScheduledReport(): the next date is computed again only with a new
\* frequency or configuration.
UpdateRead(c, r) ==
    /\ Ask(c)
    /\ \E row \in table[r] : \E active \in BOOLEAN :
          \/ clerk' = [clerk EXCEPT ![c] =
                         {[id |-> r, row |-> [row EXCEPT !.active = active]]}]
          \/ \E periodic \in BOOLEAN :
             \E next \in NextRuns(periodic, row.executions > 0) :
                clerk' = [clerk EXCEPT ![c] =
                            {[id  |-> r,
                              row |-> [row EXCEPT !.active = active,
                                                  !.periodic = periodic,
                                                  !.next = next]]}]
    /\ UNCHANGED <<table, runner, mails, failed, off, dues, aborts>>

UpdateSave(c) ==
    \E t \in clerk[c] :
        /\ table' = [table EXCEPT ![t.id] = {t.row}]
        /\ SwitchOff(t.id, t.row)
        /\ clerk' = [clerk EXCEPT ![c] = {}]
        /\ UNCHANGED <<runner, mails, failed, requests, dues, aborts>>

\* deleteScheduledReport(): one statement.
Delete(c, r) ==
    /\ Ask(c)
    /\ table[r] # {}
    /\ table' = [table EXCEPT ![r] = {}]
    /\ UNCHANGED <<clerk, runner, mails, failed, off, dues, aborts>>

\* executeReport(): also of a report that is switched off.
RunRead(c, r) ==
    /\ Ask(c)
    /\ table[r] # {}
    /\ runner' = [runner EXCEPT ![c] =
                    {[step |-> "waiting", id |-> r, row |-> row] :
                        row \in table[r]}]
    /\ UNCHANGED <<table, clerk, mails, failed, off, dues, aborts>>

-----------------------------------------------------------------------------
(***************************************************************************)
(* Execution                                                               *)
(***************************************************************************)

Pending(row) == row.active /\ row.next = "due"

\* ... that leaves out the reports that failed before.
RoundFindMutant(k) ==
    /\ runner[k] = {}
    /\ runner' = [runner EXCEPT ![k] =
                    {t \in [step : {"waiting"}, id : Reports,
                            row : UNION {table[r] : r \in Reports}] :
                        t.row \in table[t.id] /\ Pending(t.row)
                            /\ t.row.failures = 0}]
    /\ UNCHANGED <<table, clerk, mails, failed, off, requests, dues, aborts>>

\* getPendingReports()
RoundFind(k) ==
    /\ runner[k] = {}
    /\ \E r \in Reports : \E row \in table[r] : Pending(row)
    /\ runner' = [runner EXCEPT ![k] =
                    {t \in [step : {"waiting"}, id : Reports,
                            row : UNION {table[r] : r \in Reports}] :
                        t.row \in table[t.id] /\ Pending(t.row)}]
    /\ UNCHANGED <<table, clerk, mails, failed, off, requests, dues, aborts>>

\* The reports of a round are executed one after the other.
Turn(x, t) ==
    /\ t \in runner[x]
    /\ t.step = "waiting"
    /\ \A u \in runner[x] : u.step = "waiting"

Becomes(x, t, step, row) ==
    runner' = [runner EXCEPT ![x] =
                 (@ \ {t}) \cup {[step |-> step, id |-> t.id, row |-> row]}]

\* What a success does to the row, with its next date forgotten.
MailedRowMutant(row) == [row EXCEPT !.executions = @ + 1]

MailedRow(row) ==
    [row EXCEPT !.executions = @ + 1,
                !.next = IF row.periodic THEN "later" ELSE "never"]

\* "Si tiene muchos fallos consecutivos, desactivar", one too early.
TooManyMutant(failures) == failures >= MaxFailures - 1

TooMany(failures) == failures >= MaxFailures

FailedRow(row) ==
    [row EXCEPT !.failures = @ + 1,
                !.active = @ /\ ~TooMany(row.failures + 1)]

\* executeScheduledReport(): the mail is queued.
Mail(x, t) ==
    /\ Turn(x, t)
    /\ mails' = [mails EXCEPT ![t.id] = @ + 1]
    /\ Becomes(x, t, "mailed", MailedRow(t.row))
    /\ UNCHANGED <<table, clerk, failed, off, requests, dues, aborts>>

\* The failure is counted together with an execution.
FailMutant(x, t) ==
    /\ Turn(x, t)
    /\ failed' = [failed EXCEPT ![t.id] = @ + 1]
    /\ Becomes(x, t, "failed", FailedRow(MailedRow(t.row)))
    /\ UNCHANGED <<table, clerk, mails, off, requests, dues, aborts>>

\* The data, the file or the queue could not be had.
Fail(x, t) ==
    /\ Turn(x, t)
    /\ failed' = [failed EXCEPT ![t.id] = @ + 1]
    /\ Becomes(x, t, "failed", FailedRow(t.row))
    /\ UNCHANGED <<table, clerk, mails, off, requests, dues, aborts>>

\* The row could not be saved although the mail is queued: the handler of
\* failures goes on with the row as it was to be saved.
SaveFail(x, t) ==
    /\ t \in runner[x]
    /\ t.step = "mailed"
    /\ aborts < MaxAborts
    /\ aborts' = aborts + 1
    /\ failed' = [failed EXCEPT ![t.id] = @ + 1]
    /\ Becomes(x, t, "failed", FailedRow(t.row))
    /\ UNCHANGED <<table, clerk, mails, off, requests, dues>>

\* The row is inserted beside the old one.
SaveMutant(x, t) ==
    /\ t \in runner[x]
    /\ t.step # "waiting"
    /\ table' = [table EXCEPT ![t.id] = @ \cup {t.row}]
    /\ runner' = [runner EXCEPT ![x] = @ \ {t}]
    /\ UNCHANGED <<clerk, mails, failed, off, requests, dues, aborts>>

Save(x, t) ==
    /\ t \in runner[x]
    /\ t.step # "waiting"
    /\ table' = [table EXCEPT ![t.id] = {t.row}]
    /\ runner' = [runner EXCEPT ![x] = @ \ {t}]
    /\ UNCHANGED <<clerk, mails, failed, off, requests, dues, aborts>>

\* The process restarts, or the failure of one report cannot be saved; the
\* round goes on with the others in the second case.
Abort(x) ==
    /\ runner[x] # {}
    /\ aborts < MaxAborts
    /\ aborts' = aborts + 1
    /\ runner' = [runner EXCEPT ![x] = {u \in @ : u.step = "waiting"}]
       \/ runner' = [runner EXCEPT ![x] = {}]
    /\ UNCHANGED <<table, clerk, mails, failed, off, requests, dues>>

UpdateFail(c) ==
    /\ clerk[c] # {}
    /\ clerk' = [clerk EXCEPT ![c] = {}]
    /\ UNCHANGED <<table, runner, mails, failed, off, requests, dues, aborts>>

-----------------------------------------------------------------------------

\* The date of report r has come.
Due(r) ==
    /\ dues < MaxDue
    /\ \E row \in table[r] :
          /\ row.next = "later"
          /\ table' = [table EXCEPT ![r] = {[row EXCEPT !.next = "due"]}]
    /\ dues' = dues + 1
    /\ UNCHANGED <<clerk, runner, mails, failed, off, requests, aborts>>

ReportsInit ==
    /\ table = [r \in Reports |-> {}]
    /\ clerk = [c \in Clerks |-> {}]
    /\ runner = [x \in Runners |-> {}]
    /\ mails = [r \in Reports |-> 0]
    /\ failed = [r \in Reports |-> 0]
    /\ off = {}
    /\ requests = 0
    /\ dues = 0
    /\ aborts = 0

Execute(x) ==
    \E t \in runner[x] : Mail(x, t) \/ Fail(x, t) \/ SaveFail(x, t) \/ Save(x, t)

ReportsNext ==
    \/ \E c \in Clerks :
        \/ \E r \in Reports :
              Create(c, r) \/ UpdateRead(c, r) \/ Delete(c, r) \/ RunRead(c, r)
        \/ UpdateSave(c)
        \/ UpdateFail(c)
    \/ \E k \in Rounds : RoundFind(k)
    \/ \E x \in Runners : Execute(x) \/ Abort(x)
    \/ \E r \in Reports : Due(r)

\* @Cron fires every hour, and Node goes on with a round.
ReportsFairness == \A k \in Rounds : WF_reportVars(RoundFind(k) \/ Execute(k))

ReportsSpec == ReportsInit /\ [][ReportsNext]_reportVars /\ ReportsFairness

-----------------------------------------------------------------------------
(***************************************************************************)
(* Properties                                                              *)
(***************************************************************************)

\* Executions that overlap, or that save an old row over a new one, lose
\* counts and never invent any: each execution that a row tells of queued a
\* mail, and each failure happened.
CountsAreReal ==
    \A r \in Reports : \A row \in table[r] :
        row.executions <= mails[r] /\ row.failures <= failed[r]

\* executeScheduledReport() switches a report off only after MaxFailures
\* failures of it; whatever else is off was at some time switched off by an
\* administrator.
OffForAReason ==
    \A r \in Reports : \A row \in table[r] :
        ~row.active => r \in off \/ failed[r] >= MaxFailures

DueNow(r) == \E row \in table[r] : Pending(row)

\* A report that is due does not stay so: it is mailed, or fails until it is
\* switched off, or an administrator changes it, although rounds die and rows
\* are saved over each other.
DueIsRun == \A r \in Reports : DueNow(r) ~> ~DueNow(r)

\* Every mail that was queued: the report and which of its mails it is.
Mailed == UNION {{r} \X (1..mails[r]) : r \in Reports}

\* A date is mailed once.  With rounds that do not overlap, each mail beyond
\* the dates that came is owed to a request, which ran the report or wrote an
\* old date back, or to an execution that died after it queued its mail.
MailedOncePerDate ==
    Cardinality(Rounds) = 1 => Cardinality(Mailed) <= dues + requests + aborts

=============================================================================

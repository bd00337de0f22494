----------------------- MODULE ScheduledReportsProofs -----------------------
(***************************************************************************)
(* What is proved of ScheduledReports for every number of reports, rounds  *)
(* and requests.                                                           *)
(***************************************************************************)
EXTENDS ScheduledReports, FiniteSetTheorems, TLAPS

-----------------------------------------------------------------------------
(***************************************************************************)
(* Types                                                                   *)
(***************************************************************************)

LEMMA MailedRowType ==
  ASSUME NEW row \in Row
  PROVE  MailedRow(row) \in Row
<1>1. row.executions + 1 \in Nat /\ (IF row.periodic THEN "later" ELSE "never") \in Dates
  BY DEF Row, Dates
<1>2. QED
  BY <1>1 DEF Row, MailedRow

LEMMA FailedRowType ==
  ASSUME NEW row \in Row
  PROVE  FailedRow(row) \in Row
<1>1. row.failures + 1 \in Nat
  BY DEF Row
<1>2. (row.active /\ ~TooMany(row.failures + 1)) \in BOOLEAN
  OBVIOUS
<1>3. QED
  BY <1>1, <1>2 DEF Row, FailedRow

LEMMA DueRowType ==
  ASSUME NEW row \in Row, NEW next \in Dates
  PROVE  [row EXCEPT !.next = next] \in Row
BY DEF Row

LEMMA UpdatedRowType ==
  ASSUME NEW row \in Row, NEW active \in BOOLEAN
  PROVE  /\ [row EXCEPT !.active = active] \in Row
         /\ \A periodic \in BOOLEAN : \A next \in Dates :
               [row EXCEPT !.active = active, !.periodic = periodic,
                           !.next = next] \in Row
BY DEF Row

\* A save leaves one row and the others as they are.
LEMMA PutType ==
  ASSUME ReportsTypeOK, NEW r \in Reports, NEW row \in Row,
         table' = [table EXCEPT ![r] = {row}]
  PROVE  /\ table' \in [Reports -> SUBSET Row]
         /\ \A q \in Reports : Cardinality(table'[q]) <= 1
         /\ table'[r] = {row}
         /\ \A q \in Reports \ {r} : table'[q] = table[q]
<1>1. table \in [Reports -> SUBSET Row] /\ \A q \in Reports : Cardinality(table[q]) <= 1
  BY DEF ReportsTypeOK
<1>2. table'[r] = {row} /\ \A q \in Reports \ {r} : table'[q] = table[q]
  BY <1>1
<1>3. table' \in [Reports -> SUBSET Row]
  BY <1>1
<1>4. Cardinality({row}) <= 1
  BY FS_Singleton
<1>5. QED
  BY <1>1, <1>2, <1>3, <1>4

LEMMA AskType ==
  ASSUME ReportsTypeOK, NEW c \in Clerks, Ask(c)
  PROVE  requests' \in 0..MaxRequests /\ requests' = requests + 1
BY ScheduleAssumption DEF ReportsTypeOK, Ask

LEMMA MoreType ==
  ASSUME ReportsTypeOK
  PROVE  /\ dues < MaxDue => dues + 1 \in 0..MaxDue
         /\ aborts < MaxAborts => aborts + 1 \in 0..MaxAborts
BY ScheduleAssumption DEF ReportsTypeOK

LEMMA SwitchOffType ==
  ASSUME ReportsTypeOK, NEW r \in Reports, NEW row, SwitchOff(r, row)
  PROVE  off' \subseteq Reports /\ off \subseteq off'
BY DEF ReportsTypeOK, SwitchOff

LEMMA BecomesType ==
  ASSUME ReportsTypeOK, NEW x \in Runners, NEW t \in runner[x],
         NEW step \in {"waiting", "mailed", "failed"}, NEW row \in Row,
         Becomes(x, t, step, row)
  PROVE  runner' \in [Runners -> SUBSET Run]
BY DEF ReportsTypeOK, Becomes, Run

LEMMA CreateType ==
  ASSUME ReportsTypeOK, NEW c \in Clerks, NEW r \in Reports, Create(c, r)
  PROVE  /\ ReportsTypeOK'
         /\ \E row \in Row :
               /\ table' = [table EXCEPT ![r] = {row}] /\ SwitchOff(r, row)
               /\ row.executions = 0 /\ row.failures = 0
               /\ row.next # "due"
<1>1. PICK active, periodic \in BOOLEAN :
         LET row == [active |-> active, periodic |-> periodic,
                     next |-> IF periodic THEN "later" ELSE "never",
                     executions |-> 0, failures |-> 0]
         IN  table' = [table EXCEPT ![r] = {row}] /\ SwitchOff(r, row)
  BY DEF Create
<1> DEFINE row == [active |-> active, periodic |-> periodic,
                   next |-> IF periodic THEN "later" ELSE "never",
                   executions |-> 0, failures |-> 0]
<1>2. /\ row \in Row /\ row.executions = 0 /\ row.failures = 0
      /\ row.next # "due"
  BY DEF Row, Dates
<1>3. table' = [table EXCEPT ![r] = {row}] /\ SwitchOff(r, row)
  BY <1>1
<1> HIDE DEF row
<1>4. Ask(c) /\ UNCHANGED <<clerk, runner, mails, failed, dues, aborts>>
  BY DEF Create
<1>5. ReportsTypeOK'
  BY <1>2, <1>3, <1>4, PutType, SwitchOffType, AskType DEF ReportsTypeOK
<1>6. QED
  BY <1>2, <1>3, <1>5

LEMMA UpdateReadType ==
  ASSUME ReportsTypeOK, NEW c \in Clerks, NEW r \in Reports, UpdateRead(c, r)
  PROVE  /\ ReportsTypeOK'
         /\ \E row \in table[r] : \E new \in Row :
               /\ clerk' = [clerk EXCEPT ![c] = {[id |-> r, row |-> new]}]
               /\ new.executions = row.executions
               /\ new.failures = row.failures
<1>1. PICK row \in table[r], active \in BOOLEAN :
          \/ clerk' = [clerk EXCEPT ![c] =
                         {[id |-> r, row |-> [row EXCEPT !.active = active]]}]
          \/ \E periodic \in BOOLEAN :
             \E next \in NextRuns(periodic, row.executions > 0) :
                clerk' = [clerk EXCEPT ![c] =
                            {[id  |-> r,
                              row |-> [row EXCEPT !.active = active,
                                                  !.periodic = periodic,
                                                  !.next = next]]}]
  BY DEF UpdateRead
<1>2. row \in Row
  BY DEF ReportsTypeOK
<1>3. \A periodic \in BOOLEAN : \A next \in NextRuns(periodic, row.executions > 0) :
         next \in Dates
  BY DEF NextRuns, Dates
<1>4. \E new \in Row : /\ clerk' = [clerk EXCEPT ![c] = {[id |-> r, row |-> new]}]
                       /\ new.executions = row.executions
                       /\ new.failures = row.failures
  <2>1. CASE clerk' = [clerk EXCEPT ![c] =
                         {[id |-> r, row |-> [row EXCEPT !.active = active]]}]
    <3>1. [row EXCEPT !.active = active] \in Row
      BY <1>2, UpdatedRowType
    <3>2. QED
      BY <1>2, <2>1, <3>1 DEF Row
  <2>2. ASSUME NEW periodic \in BOOLEAN,
               NEW next \in NextRuns(periodic, row.executions > 0),
               clerk' = [clerk EXCEPT ![c] =
                            {[id  |-> r,
                              row |-> [row EXCEPT !.active = active,
                                                  !.periodic = periodic,
                                                  !.next = next]]}]
        PROVE  \E new \in Row :
                  /\ clerk' = [clerk EXCEPT ![c] = {[id |-> r, row |-> new]}]
                  /\ new.executions = row.executions
                  /\ new.failures = row.failures
    <3>1. [row EXCEPT !.active = active, !.periodic = periodic, !.next = next] \in Row
      BY <1>2, <1>3, UpdatedRowType
    <3>2. QED
      BY <1>2, <2>2, <3>1 DEF Row
  <2>3. QED
    BY <1>1, <2>1, <2>2
<1>5. PICK new \in Row : /\ clerk' = [clerk EXCEPT ![c] = {[id |-> r, row |-> new]}]
                         /\ new.executions = row.executions
                         /\ new.failures = row.failures
  BY <1>4
<1>6. clerk' \in [Clerks -> SUBSET [id : Reports, row : Row]]
  BY <1>5 DEF ReportsTypeOK
<1>7. Ask(c) /\ UNCHANGED <<table, runner, mails, failed, off, dues, aborts>>
  BY DEF UpdateRead
<1>8. ReportsTypeOK'
  BY <1>6, <1>7, AskType DEF ReportsTypeOK
<1>9. QED
  BY <1>5, <1>8

LEMMA TypeStep ==
  ASSUME ReportsTypeOK, [ReportsNext]_reportVars
  PROVE  ReportsTypeOK'
<1>1. ASSUME NEW c \in Clerks, UpdateSave(c)
      PROVE  ReportsTypeOK'
  <2>1. PICK t \in clerk[c] :
           table' = [table EXCEPT ![t.id] = {t.row}] /\ SwitchOff(t.id, t.row)
    BY <1>1 DEF UpdateSave
  <2>2. t.id \in Reports /\ t.row \in Row
    BY DEF ReportsTypeOK
  <2>3. /\ clerk' = [clerk EXCEPT ![c] = {}]
        /\ UNCHANGED <<runner, mails, failed, requests, dues, aborts>>
    BY <1>1 DEF UpdateSave
  <2>4. clerk' \in [Clerks -> SUBSET [id : Reports, row : Row]]
    BY <2>3 DEF ReportsTypeOK
  <2>5. QED
    BY <2>1, <2>2, <2>3, <2>4, PutType, SwitchOffType DEF ReportsTypeOK
<1>2. ASSUME NEW c \in Clerks, NEW r \in Reports, Delete(c, r)
      PROVE  ReportsTypeOK'
  <2>1. Cardinality({}) <= 1
    BY FS_EmptySet
  <2>2. Ask(c) /\ table' = [table EXCEPT ![r] = {}]
        /\ UNCHANGED <<clerk, runner, mails, failed, off, dues, aborts>>
    BY <1>2 DEF Delete
  <2>3. table' \in [Reports -> SUBSET Row] /\ \A q \in Reports : Cardinality(table'[q]) <= 1
    BY <2>1, <2>2 DEF ReportsTypeOK
  <2>4. QED
    BY <2>2, <2>3, AskType DEF ReportsTypeOK
<1>3. ASSUME NEW c \in Clerks, NEW r \in Reports, RunRead(c, r)
      PROVE  ReportsTypeOK'
  <2> DEFINE batch == {[step |-> "waiting", id |-> r, row |-> row] : row \in table[r]}
  <2>1. batch \subseteq Run
    BY DEF ReportsTypeOK, Run
  <2>2. runner' = [runner EXCEPT ![c] = batch] /\ Ask(c)
        /\ UNCHANGED <<table, clerk, mails, failed, off, dues, aborts>>
    BY <1>3 DEF RunRead
  <2> HIDE DEF batch
  <2>3. runner' \in [Runners -> SUBSET Run]
    BY <2>1, <2>2 DEF ReportsTypeOK
  <2>4. QED
    BY <2>2, <2>3, AskType DEF ReportsTypeOK
<1>4. ASSUME NEW k \in Rounds, RoundFind(k)
      PROVE  ReportsTypeOK'
  <2> DEFINE batch == {t \in [step : {"waiting"}, id : Reports,
                              row : UNION {table[r] : r \in Reports}] :
                          t.row \in table[t.id] /\ Pending(t.row)}
  <2>1. batch \subseteq Run
    BY DEF ReportsTypeOK, Run
  <2>2. runner' = [runner EXCEPT ![k] = batch]
    BY <1>4 DEF RoundFind
  <2> HIDE DEF batch
  <2>3. QED
    BY <1>4, <2>1, <2>2 DEF ReportsTypeOK, RoundFind
<1>5. ASSUME NEW x \in Runners, NEW t \in runner[x],
             Mail(x, t) \/ Fail(x, t) \/ SaveFail(x, t)
      PROVE  ReportsTypeOK'
  <2>1. t.id \in Reports /\ t.row \in Row
    BY DEF ReportsTypeOK, Run
  <2>2. runner' \in [Runners -> SUBSET Run]
    BY <1>5, <2>1, MailedRowType, FailedRowType, BecomesType DEF Mail, Fail, SaveFail
  <2>3. QED
    BY <1>5, <2>1, <2>2, MoreType DEF ReportsTypeOK, Mail, Fail, SaveFail
<1>6. ASSUME NEW x \in Runners, NEW t \in runner[x], Save(x, t)
      PROVE  ReportsTypeOK'
  <2>1. t.id \in Reports /\ t.row \in Row
    BY DEF ReportsTypeOK, Run
  <2>2. runner' \in [Runners -> SUBSET Run]
    BY <1>6 DEF ReportsTypeOK, Save
  <2>3. QED
    BY <1>6, <2>1, <2>2, PutType DEF ReportsTypeOK, Save
<1>7. ASSUME NEW x \in Runners, Abort(x)
      PROVE  ReportsTypeOK'
  <2>1. runner' \in [Runners -> SUBSET Run]
    BY <1>7 DEF ReportsTypeOK, Abort
  <2>2. QED
    BY <1>7, <2>1, MoreType DEF ReportsTypeOK, Abort
<1>8. ASSUME NEW c \in Clerks, UpdateFail(c)
       PROVE  ReportsTypeOK'
  BY <1>8 DEF ReportsTypeOK, UpdateFail
<1>9. ASSUME NEW r \in Reports, Due(r)
      PROVE  ReportsTypeOK'
  <2>1. PICK row \in table[r] :
           table' = [table EXCEPT ![r] = {[row EXCEPT !.next = "due"]}]
    BY <1>9 DEF Due
  <2>2. [row EXCEPT !.next = "due"] \in Row
    BY DueRowType DEF ReportsTypeOK, Dates
  <2>3. QED
    BY <1>9, <2>1, <2>2, PutType, MoreType DEF ReportsTypeOK, Due
<1>10. CASE UNCHANGED reportVars
  BY <1>10 DEF ReportsTypeOK, reportVars
<1>11. QED
  BY <1>1, <1>2, <1>3, <1>4, <1>5, <1>6, <1>7, <1>8, <1>9, <1>10,
     CreateType, UpdateReadType DEF ReportsNext, Execute

LEMMA TypeInit == ReportsInit => ReportsTypeOK
BY ScheduleAssumption, FS_EmptySet DEF ReportsInit, ReportsTypeOK

\* The rows, the requests and the rounds keep their types.
THEOREM ReportsTypeCorrect == ReportsSpec => []ReportsTypeOK
BY TypeInit, TypeStep, PTL DEF ReportsSpec

-----------------------------------------------------------------------------
(***************************************************************************)
(* What the rows say, stored and in memory                                 *)
(***************************************************************************)

CountsTrue(r, row) == row.executions <= mails[r] /\ row.failures <= failed[r]

CountsKnown ==
    /\ \A r \in Reports : \A row \in table[r] : CountsTrue(r, row)
    /\ \A c \in Clerks : \A t \in clerk[c] : CountsTrue(t.id, t.row)
    /\ \A x \in Runners : \A t \in runner[x] : CountsTrue(t.id, t.row)

\* An update that switches a report off is known as such once it is saved, so
\* nothing is said of the rows of updates.
OffTrue(r, row) == ~row.active => r \in off \/ failed[r] >= MaxFailures

OffKnown ==
    /\ \A r \in Reports : \A row \in table[r] : OffTrue(r, row)
    /\ \A x \in Runners : \A t \in runner[x] : OffTrue(t.id, t.row)

RowsIInv == ReportsTypeOK /\ CountsKnown /\ OffKnown

\* Mails and failures are counted for good, and so is a switch.
Grow ==
    /\ \A r \in Reports : mails[r] <= mails'[r] /\ failed[r] <= failed'[r]
    /\ off \subseteq off'

LEMMA GrowKeeps ==
  ASSUME ReportsTypeOK, ReportsTypeOK', Grow, NEW r \in Reports, NEW row \in Row
  PROVE  /\ CountsTrue(r, row) => CountsTrue(r, row)'
         /\ OffTrue(r, row) => OffTrue(r, row)'
<1>1. /\ mails[r] \in Nat /\ mails'[r] \in Nat /\ mails[r] <= mails'[r]
      /\ failed[r] \in Nat /\ failed'[r] \in Nat /\ failed[r] <= failed'[r]
      /\ row.executions \in Nat /\ row.failures \in Nat /\ MaxFailures \in Nat
  BY ScheduleAssumption DEF ReportsTypeOK, Grow, Row
<1>2. CountsTrue(r, row) => CountsTrue(r, row)'
  BY <1>1 DEF CountsTrue
<1>3. OffTrue(r, row) => OffTrue(r, row)'
  BY <1>1 DEF OffTrue, Grow
<1>4. QED
  BY <1>2, <1>3

LEMMA GrowStep ==
  ASSUME ReportsTypeOK, [ReportsNext]_reportVars
  PROVE  Grow
<1>1. \A r \in Reports : mails[r] \in Nat /\ failed[r] \in Nat
  BY DEF ReportsTypeOK
<1>2. CASE mails' = mails /\ failed' = failed /\ off \subseteq off'
  BY <1>1, <1>2 DEF Grow
<1>3. ASSUME NEW x \in Runners, NEW t \in runner[x],
             Mail(x, t) \/ Fail(x, t) \/ SaveFail(x, t)
      PROVE  Grow
  <2>1. off' = off /\ mails' \in {mails, [mails EXCEPT ![t.id] = @ + 1]}
        /\ failed' \in {failed, [failed EXCEPT ![t.id] = @ + 1]}
    BY <1>3 DEF Mail, Fail, SaveFail
  <2>2. \A f \in [Reports -> Nat] : \A r \in Reports :
           f[r] <= [f EXCEPT ![t.id] = @ + 1][r] /\ f[r] <= f[r]
    OBVIOUS
  <2>3. QED
    BY <2>1, <2>2 DEF Grow, ReportsTypeOK
<1>4. ASSUME NEW r, NEW row, SwitchOff(r, row)
      PROVE  off \subseteq off'
  BY <1>4 DEF SwitchOff
<1>5. ASSUME NEW c \in Clerks, UpdateSave(c)
      PROVE  mails' = mails /\ failed' = failed /\ off \subseteq off'
  BY <1>4, <1>5 DEF UpdateSave
<1>6. ASSUME NEW c \in Clerks, NEW r \in Reports, Create(c, r)
      PROVE  mails' = mails /\ failed' = failed /\ off \subseteq off'
  BY <1>4, <1>6 DEF Create
<1>7. QED
  BY <1>2, <1>3, <1>5, <1>6 DEF ReportsNext, reportVars, Execute, UpdateRead,
     Delete, RunRead, UpdateFail, RoundFind, Save, Abort, Due

\* A task as it is after Becomes().
Turned(t, step, row) == [step |-> step, id |-> t.id, row |-> row]

LEMMA BecomesRuns ==
  ASSUME ReportsTypeOK, NEW x \in Runners, NEW t \in runner[x],
         NEW step, NEW row, Becomes(x, t, step, row)
  PROVE  /\ \A y \in Runners \ {x} : runner'[y] = runner[y]
         /\ runner'[x] = (runner[x] \ {t}) \cup {Turned(t, step, row)}
BY DEF ReportsTypeOK, Becomes, Turned

LEMMA RunFields ==
  ASSUME ReportsTypeOK, NEW x \in Runners, NEW t \in runner[x]
  PROVE  t \in Run /\ t.id \in Reports /\ t.row \in Row
BY DEF ReportsTypeOK, Run

LEMMA UpdateFields ==
  ASSUME ReportsTypeOK, NEW c \in Clerks, NEW t \in clerk[c]
  PROVE  t.id \in Reports /\ t.row \in Row
BY DEF ReportsTypeOK

LEMMA StoredFields ==
  ASSUME ReportsTypeOK, NEW r \in Reports, NEW row \in table[r]
  PROVE  row \in Row
BY DEF ReportsTypeOK

\* A step is fine if every row it leaves anywhere was true before the step of
\* its report, or is true after it.
LEMMA RowsKept ==
  ASSUME RowsIInv, ReportsTypeOK', Grow,
         \A r \in Reports : \A row \in table'[r] :
            /\ CountsTrue(r, row) \/ CountsTrue(r, row)'
            /\ OffTrue(r, row) \/ OffTrue(r, row)',
         \A c \in Clerks : \A t \in clerk'[c] :
            t \in clerk[c] \/ CountsTrue(t.id, t.row),
         \A x \in Runners : \A t \in runner'[x] :
            \/ t \in runner[x]
            \/ /\ CountsTrue(t.id, t.row) \/ CountsTrue(t.id, t.row)'
               /\ OffTrue(t.id, t.row) \/ OffTrue(t.id, t.row)'
  PROVE  RowsIInv'
<1>1. \A r \in Reports : \A row \in table'[r] : row \in Row
  BY DEF ReportsTypeOK
<1>2. \A c \in Clerks : \A t \in clerk'[c] : t.id \in Reports /\ t.row \in Row
  BY DEF ReportsTypeOK
<1>3. \A x \in Runners : \A t \in runner'[x] : t.id \in Reports /\ t.row \in Row
  BY DEF ReportsTypeOK, Run
<1>4. ReportsTypeOK /\ CountsKnown /\ OffKnown
  BY DEF RowsIInv
<1>5. \A r \in Reports : \A row \in table'[r] : CountsTrue(r, row)' /\ OffTrue(r, row)'
  BY <1>1, <1>4, GrowKeeps
<1>6. \A c \in Clerks : \A t \in clerk'[c] : CountsTrue(t.id, t.row)'
  <2>1. \A c \in Clerks : \A t \in clerk'[c] : CountsTrue(t.id, t.row)
    BY <1>4 DEF CountsKnown
  <2>2. QED
    BY <1>2, <1>4, <2>1, GrowKeeps
<1>7. \A x \in Runners : \A t \in runner'[x] :
         CountsTrue(t.id, t.row)' /\ OffTrue(t.id, t.row)'
  <2>1. \A x \in Runners : \A t \in runner'[x] :
           /\ CountsTrue(t.id, t.row) \/ CountsTrue(t.id, t.row)'
           /\ OffTrue(t.id, t.row) \/ OffTrue(t.id, t.row)'
    BY <1>4 DEF CountsKnown, OffKnown
  <2>2. QED
    BY <1>3, <1>4, <2>1, GrowKeeps
<1>8. Runners' = Runners
  BY DEF Runners
<1>9. CountsKnown'
  BY <1>5, <1>6, <1>7, <1>8 DEF CountsKnown
<1>10. OffKnown'
  BY <1>5, <1>7, <1>8 DEF OffKnown
<1>11. QED
  BY <1>9, <1>10 DEF RowsIInv

\* The rows in the table and the rows in memory, before the step.
LEMMA RowsAreTrue ==
  ASSUME RowsIInv
  PROVE  /\ \A r \in Reports : \A row \in table[r] :
               row \in Row /\ CountsTrue(r, row) /\ OffTrue(r, row)
         /\ \A c \in Clerks : \A t \in clerk[c] :
               t.id \in Reports /\ t.row \in Row /\ CountsTrue(t.id, t.row)
         /\ \A x \in Runners : \A t \in runner[x] :
               /\ t.id \in Reports /\ t.row \in Row
               /\ CountsTrue(t.id, t.row) /\ OffTrue(t.id, t.row)
BY RunFields, UpdateFields, StoredFields DEF RowsIInv, CountsKnown, OffKnown

LEMMA MailKeepsRows ==
  ASSUME RowsIInv, ReportsTypeOK', Grow, NEW x \in Runners, NEW t \in runner[x],
         Mail(x, t)
  PROVE  RowsIInv'
<1>1. /\ mails' = [mails EXCEPT ![t.id] = @ + 1]
      /\ Becomes(x, t, "mailed", MailedRow(t.row))
      /\ UNCHANGED <<table, clerk, failed, off>>
  BY DEF Mail
<1>2. t.id \in Reports /\ t.row \in Row /\ CountsTrue(t.id, t.row) /\ OffTrue(t.id, t.row)
  BY RowsAreTrue
<1>3. mails'[t.id] = mails[t.id] + 1 /\ mails[t.id] \in Nat
  BY <1>1, <1>2 DEF RowsIInv, ReportsTypeOK
<1>4. /\ MailedRow(t.row).executions = t.row.executions + 1
      /\ MailedRow(t.row).failures = t.row.failures
      /\ MailedRow(t.row).active = t.row.active
      /\ t.row.executions \in Nat
  BY <1>2 DEF MailedRow, Row
<1>5. CountsTrue(t.id, MailedRow(t.row))'
  BY <1>1, <1>2, <1>3, <1>4 DEF CountsTrue
<1>6. OffTrue(t.id, MailedRow(t.row))
  BY <1>2, <1>4 DEF OffTrue
<1>7. /\ \A y \in Runners \ {x} : runner'[y] = runner[y]
      /\ runner'[x] = (runner[x] \ {t}) \cup {Turned(t, "mailed", MailedRow(t.row))}
  BY <1>1, BecomesRuns DEF RowsIInv
<1>8. /\ Turned(t, "mailed", MailedRow(t.row)).id = t.id
      /\ Turned(t, "mailed", MailedRow(t.row)).row = MailedRow(t.row)
  BY DEF Turned
<1>9. \A y \in Runners : \A u \in runner'[y] :
         \/ u \in runner[y]
         \/ /\ CountsTrue(u.id, u.row) \/ CountsTrue(u.id, u.row)'
            /\ OffTrue(u.id, u.row) \/ OffTrue(u.id, u.row)'
  BY <1>5, <1>6, <1>7, <1>8
<1>10. /\ \A r \in Reports : \A row \in table'[r] :
             CountsTrue(r, row) /\ OffTrue(r, row)
       /\ \A c \in Clerks : \A u \in clerk'[c] : u \in clerk[c]
  BY <1>1, RowsAreTrue
<1>11. QED
  BY <1>9, <1>10, RowsKept

LEMMA FailKeepsRows ==
  ASSUME RowsIInv, ReportsTypeOK', Grow, NEW x \in Runners, NEW t \in runner[x],
         Fail(x, t) \/ SaveFail(x, t)
  PROVE  RowsIInv'
<1>1. /\ failed' = [failed EXCEPT ![t.id] = @ + 1]
      /\ Becomes(x, t, "failed", FailedRow(t.row))
      /\ UNCHANGED <<table, clerk, mails, off>>
  BY DEF Fail, SaveFail
<1>2. t.id \in Reports /\ t.row \in Row /\ CountsTrue(t.id, t.row) /\ OffTrue(t.id, t.row)
  BY RowsAreTrue
<1>3. failed'[t.id] = failed[t.id] + 1 /\ failed[t.id] \in Nat
  BY <1>1, <1>2 DEF RowsIInv, ReportsTypeOK
<1>4. /\ FailedRow(t.row).executions = t.row.executions
      /\ FailedRow(t.row).failures = t.row.failures + 1
      /\ t.row.failures \in Nat
  BY <1>2 DEF FailedRow, Row
<1>5. CountsTrue(t.id, FailedRow(t.row))'
  BY <1>1, <1>2, <1>3, <1>4 DEF CountsTrue
<1>6. OffTrue(t.id, FailedRow(t.row))'
  <2>1. SUFFICES ASSUME ~FailedRow(t.row).active
                 PROVE  t.id \in off \/ failed'[t.id] >= MaxFailures
    BY <1>1 DEF OffTrue
  <2>2. ~t.row.active \/ t.row.failures + 1 >= MaxFailures
    BY <1>2, <2>1 DEF FailedRow, Row, TooMany
  <2>3. CASE ~t.row.active
    BY <1>2, <1>3, <2>3, ScheduleAssumption DEF OffTrue
  <2>4. CASE t.row.failures + 1 >= MaxFailures
    BY <1>2, <1>3, <1>4, <2>4, ScheduleAssumption DEF CountsTrue
  <2>5. QED
    BY <2>2, <2>3, <2>4
<1>7. /\ \A y \in Runners \ {x} : runner'[y] = runner[y]
      /\ runner'[x] = (runner[x] \ {t}) \cup {Turned(t, "failed", FailedRow(t.row))}
  BY <1>1, BecomesRuns DEF RowsIInv
<1>8. /\ Turned(t, "failed", FailedRow(t.row)).id = t.id
      /\ Turned(t, "failed", FailedRow(t.row)).row = FailedRow(t.row)
  BY DEF Turned
<1>9. \A y \in Runners : \A u \in runner'[y] :
         \/ u \in runner[y]
         \/ /\ CountsTrue(u.id, u.row) \/ CountsTrue(u.id, u.row)'
            /\ OffTrue(u.id, u.row) \/ OffTrue(u.id, u.row)'
  BY <1>5, <1>6, <1>7, <1>8
<1>10. /\ \A r \in Reports : \A row \in table'[r] :
             CountsTrue(r, row) /\ OffTrue(r, row)
       /\ \A c \in Clerks : \A u \in clerk'[c] : u \in clerk[c]
  BY <1>1, RowsAreTrue
<1>11. QED
  BY <1>9, <1>10, RowsKept

LEMMA RowsStep ==
  ASSUME RowsIInv, [ReportsNext]_reportVars
  PROVE  RowsIInv'
<1>1. ReportsTypeOK /\ ReportsTypeOK' /\ Grow
  BY TypeStep, GrowStep DEF RowsIInv
<1>2. ASSUME NEW c \in Clerks, NEW r \in Reports, Create(c, r)
      PROVE  RowsIInv'
  <2>1. PICK row \in Row :
           /\ table' = [table EXCEPT ![r] = {row}] /\ SwitchOff(r, row)
           /\ row.executions = 0 /\ row.failures = 0
    BY <1>1, <1>2, CreateType
  <2>2. UNCHANGED <<clerk, runner>>
    BY <1>2 DEF Create
  <2>3. CountsTrue(r, row)
    BY <1>1, <2>1 DEF CountsTrue, ReportsTypeOK
  <2>4. OffTrue(r, row)'
    BY <2>1 DEF OffTrue, SwitchOff
  <2>5. table'[r] = {row} /\ \A q \in Reports \ {r} : table'[q] = table[q]
    BY <1>1, <2>1, PutType
  <2>6. \A q \in Reports : \A old \in table'[q] :
           /\ CountsTrue(q, old)
           /\ OffTrue(q, old) \/ OffTrue(q, old)'
    BY <2>3, <2>4, <2>5, RowsAreTrue
  <2>7. QED
    BY <1>1, <2>2, <2>6, RowsKept
<1>3. ASSUME NEW c \in Clerks, NEW r \in Reports, UpdateRead(c, r)
      PROVE  RowsIInv'
  <2>1. PICK row \in table[r], new \in Row :
           /\ clerk' = [clerk EXCEPT ![c] = {[id |-> r, row |-> new]}]
           /\ new.executions = row.executions /\ new.failures = row.failures
    BY <1>1, <1>3, UpdateReadType
  <2>2. UNCHANGED <<table, runner>>
    BY <1>3 DEF UpdateRead
  <2>3. CountsTrue(r, new)
    BY <2>1, RowsAreTrue DEF CountsTrue
  <2>4. \A d \in Clerks : \A t \in clerk'[d] :
           t \in clerk[d] \/ CountsTrue(t.id, t.row)
    BY <1>1, <2>1, <2>3 DEF ReportsTypeOK
  <2>5. QED
    BY <1>1, <2>2, <2>4, RowsAreTrue, RowsKept
<1>4. ASSUME NEW c \in Clerks, UpdateSave(c)
      PROVE  RowsIInv'
  <2>1. PICK t \in clerk[c] :
           /\ table' = [table EXCEPT ![t.id] = {t.row}]
           /\ SwitchOff(t.id, t.row)
           /\ clerk' = [clerk EXCEPT ![c] = {}]
           /\ UNCHANGED runner
    BY <1>4 DEF UpdateSave
  <2>2. t.id \in Reports /\ t.row \in Row /\ CountsTrue(t.id, t.row)
    BY RowsAreTrue
  <2>3. OffTrue(t.id, t.row)'
    BY <2>1 DEF OffTrue, SwitchOff
  <2>4. table'[t.id] = {t.row} /\ \A q \in Reports \ {t.id} : table'[q] = table[q]
    BY <1>1, <2>1, <2>2, PutType
  <2>5. \A q \in Reports : \A old \in table'[q] :
           /\ CountsTrue(q, old)
           /\ OffTrue(q, old) \/ OffTrue(q, old)'
    BY <2>2, <2>3, <2>4, RowsAreTrue
  <2>6. \A d \in Clerks : \A u \in clerk'[d] : u \in clerk[d]
    BY <1>1, <2>1 DEF ReportsTypeOK
  <2>7. QED
    BY <1>1, <2>1, <2>5, <2>6, RowsKept
<1>5. ASSUME NEW x \in Runners, NEW t \in runner[x], Save(x, t)
      PROVE  RowsIInv'
  <2>1. /\ table' = [table EXCEPT ![t.id] = {t.row}]
        /\ runner' = [runner EXCEPT ![x] = @ \ {t}]
        /\ UNCHANGED clerk
    BY <1>5 DEF Save
  <2>2. /\ t.id \in Reports /\ t.row \in Row
        /\ CountsTrue(t.id, t.row) /\ OffTrue(t.id, t.row)
    BY RowsAreTrue
  <2>3. table'[t.id] = {t.row} /\ \A q \in Reports \ {t.id} : table'[q] = table[q]
    BY <1>1, <2>1, <2>2, PutType
  <2>4. \A q \in Reports : \A old \in table'[q] :
           CountsTrue(q, old) /\ OffTrue(q, old)
    BY <2>2, <2>3, RowsAreTrue
  <2>5. \A y \in Runners : \A u \in runner'[y] : u \in runner[y]
    BY <1>1, <2>1 DEF ReportsTypeOK
  <2>6. QED
    BY <1>1, <2>1, <2>4, <2>5, RowsKept
<1>6. ASSUME NEW r \in Reports, Due(r)
      PROVE  RowsIInv'
  <2>1. PICK row \in table[r] :
           table' = [table EXCEPT ![r] = {[row EXCEPT !.next = "due"]}]
    BY <1>6 DEF Due
  <2> DEFINE new == [row EXCEPT !.next = "due"]
  <2>2. row \in Row /\ CountsTrue(r, row) /\ OffTrue(r, row)
    BY RowsAreTrue
  <2>3. new \in Row /\ CountsTrue(r, new) /\ OffTrue(r, new)
    BY <2>2, DueRowType DEF CountsTrue, OffTrue, Row, Dates
  <2>4. table' = [table EXCEPT ![r] = {new}]
    BY <2>1
  <2> HIDE DEF new
  <2>5. table'[r] = {new} /\ \A q \in Reports \ {r} : table'[q] = table[q]
    BY <1>1, <2>3, <2>4, PutType
  <2>6. \A q \in Reports : \A old \in table'[q] :
           CountsTrue(q, old) /\ OffTrue(q, old)
    BY <2>3, <2>5, RowsAreTrue
  <2>7. UNCHANGED <<clerk, runner>>
    BY <1>6 DEF Due
  <2>8. QED
    BY <1>1, <2>6, <2>7, RowsKept
<1>7. ASSUME NEW c \in Clerks, NEW r \in Reports, RunRead(c, r)
      PROVE  RowsIInv'
  <2> DEFINE batch == {[step |-> "waiting", id |-> r, row |-> row] : row \in table[r]}
  <2>1. runner' = [runner EXCEPT ![c] = batch] /\ UNCHANGED <<table, clerk>>
    BY <1>7 DEF RunRead
  <2>2. \A t \in batch : CountsTrue(t.id, t.row) /\ OffTrue(t.id, t.row)
    BY RowsAreTrue
  <2> HIDE DEF batch
  <2>3. \A y \in Runners : \A u \in runner'[y] : u \in runner[y] \/ u \in batch
    BY <1>1, <2>1 DEF ReportsTypeOK
  <2>4. QED
    BY <1>1, <2>1, <2>2, <2>3, RowsAreTrue, RowsKept
<1>8. ASSUME NEW k \in Rounds, RoundFind(k)
      PROVE  RowsIInv'
  <2> DEFINE batch == {t \in [step : {"waiting"}, id : Reports,
                              row : UNION {table[r] : r \in Reports}] :
                          t.row \in table[t.id] /\ Pending(t.row)}
  <2>1. runner' = [runner EXCEPT ![k] = batch] /\ UNCHANGED <<table, clerk>>
    BY <1>8 DEF RoundFind
  <2>2. \A t \in batch : CountsTrue(t.id, t.row) /\ OffTrue(t.id, t.row)
    BY RowsAreTrue
  <2> HIDE DEF batch
  <2>3. \A y \in Runners : \A u \in runner'[y] : u \in runner[y] \/ u \in batch
    BY <1>1, <2>1 DEF ReportsTypeOK
  <2>4. QED
    BY <1>1, <2>1, <2>2, <2>3, RowsAreTrue, RowsKept
<1>9. ASSUME \A r \in Reports : table'[r] \subseteq table[r],
             \A c \in Clerks : clerk'[c] \subseteq clerk[c],
             \A x \in Runners : runner'[x] \subseteq runner[x]
      PROVE  RowsIInv'
  BY <1>1, <1>9, RowsAreTrue, RowsKept
<1>10. ASSUME NEW c \in Clerks, NEW r \in Reports, Delete(c, r)
       PROVE  RowsIInv'
  BY <1>1, <1>9, <1>10 DEF Delete, ReportsTypeOK
<1>11. ASSUME NEW c \in Clerks, UpdateFail(c)
       PROVE  RowsIInv'
  BY <1>1, <1>9, <1>11 DEF UpdateFail, ReportsTypeOK
<1>12. ASSUME NEW x \in Runners, Abort(x)
       PROVE  RowsIInv'
  BY <1>1, <1>9, <1>12 DEF Abort, ReportsTypeOK
<1>13. CASE UNCHANGED reportVars
  BY <1>9, <1>13 DEF reportVars
<1>14. QED
  BY <1>1, <1>2, <1>3, <1>4, <1>5, <1>6, <1>7, <1>8, <1>10, <1>11, <1>12, <1>13,
     MailKeepsRows, FailKeepsRows DEF ReportsNext, Execute

THEOREM RowsInvariant == ReportsSpec => []RowsIInv
<1>1. ReportsInit => RowsIInv
  BY TypeInit DEF ReportsInit, RowsIInv, CountsKnown, OffKnown, Runners
<1>2. QED
  BY <1>1, RowsStep, PTL DEF ReportsSpec

\* Lost updates invent neither mails nor failures.
THEOREM CountsStayReal == ReportsSpec => []CountsAreReal
<1>1. RowsIInv => CountsAreReal
  BY DEF RowsIInv, CountsKnown, CountsTrue, CountsAreReal
<1>2. QED
  BY <1>1, RowsInvariant, PTL

\* Nobody but an administrator switches off a report that did not fail as
\* often as the code says.
THEOREM SwitchedOffForAReason == ReportsSpec => []OffForAReason
<1>1. RowsIInv => OffForAReason
  BY DEF RowsIInv, OffKnown, OffTrue, OffForAReason
<1>2. QED
  BY <1>1, RowsInvariant, PTL

-----------------------------------------------------------------------------
(***************************************************************************)
(* What every mail is owed to                                              *)
(***************************************************************************)

\* What the one round will write over report r, or else what is stored.
Held(r) == {t \in UNION {runner[k] : k \in Rounds} : t.id = r}

\* A mail is to come of report r, because its date has come,
Owed(r) ==
    IF Held(r) # {} THEN \E t \in Held(r) : t.row.next = "due"
                    ELSE \E row \in table[r] : row.next = "due"

OwedReports == {r \in Reports : Owed(r)}

\* ... or because a request runs it, or may write an old date back.
OwedClerks ==
    {c \in Clerks : clerk[c] # {} \/ \E t \in runner[c] : t.step # "mailed"}

OneStored == \A r \in Reports : \A row, other \in table[r] : row = other

RunsKnown ==
    \A x \in Runners : \A t \in runner[x] :
        /\ t.step = "mailed" => t.row.next # "due"
        /\ \A u \in runner[x] :
              /\ t.id = u.id => t = u
              /\ t.step # "waiting" /\ u.step # "waiting" => t = u

RoundsKnow ==
    \A k \in Rounds : \A t \in runner[k] :
        t.step = "waiting" => t.row.next = "due"

ClerksKnow ==
    \A c \in Clerks :
        /\ clerk[c] = {} \/ runner[c] = {}
        /\ \A t, u \in runner[c] : t = u

TasksIInv ==
    /\ ReportsTypeOK
    /\ OneStored /\ RunsKnown /\ RoundsKnow /\ ClerksKnow

Credit == dues + requests + aborts

\* Mails that were queued and mails that are to come are paid for.
MailsPaid ==
    /\ IsFiniteSet(Mailed)
    /\ Cardinality(Mailed) + Cardinality(OwedReports) + Cardinality(OwedClerks)
          <= Credit

MailsIInv == TasksIInv /\ (Cardinality(Rounds) = 1 => MailsPaid)

-----------------------------------------------------------------------------

\* Tasks that only disappear change nothing of what is known.
LEMMA FewerTasks ==
  ASSUME TasksIInv, ReportsTypeOK', OneStored',
         \A x \in Runners : runner'[x] \subseteq runner[x],
         \A c \in Clerks : clerk'[c] \subseteq clerk[c]
  PROVE  TasksIInv'
<1>1. RunsKnown'
  BY DEF TasksIInv, RunsKnown, Runners
<1>2. RoundsKnow'
  BY DEF TasksIInv, RoundsKnow, Runners
<1>3. ClerksKnow'
  BY DEF TasksIInv, ClerksKnow, Runners
<1>4. QED
  BY <1>1, <1>2, <1>3 DEF TasksIInv

\* A save leaves one row.
LEMMA PutOne ==
  ASSUME TasksIInv, NEW r \in Reports, NEW row \in Row,
         table' = [table EXCEPT ![r] = {row}]
  PROVE  OneStored'
<1>1. table'[r] = {row} /\ \A q \in Reports \ {r} : table'[q] = table[q]
  BY PutType DEF TasksIInv
<1>2. QED
  BY <1>1 DEF TasksIInv, OneStored

\* The next state of a task keeps its report, and no other task of the
\* runner is past its turn.
LEMMA TurnedTasks ==
  ASSUME TasksIInv, ReportsTypeOK', NEW x \in Runners, NEW t \in runner[x],
         NEW step \in {"mailed", "failed"}, NEW row,
         Becomes(x, t, step, row),
         step = "mailed" => row.next # "due",
         \A u \in runner[x] \ {t} : u.step = "waiting",
         UNCHANGED <<table, clerk>>
  PROVE  TasksIInv'
<1> DEFINE new == Turned(t, step, row)
<1>1. /\ \A y \in Runners \ {x} : runner'[y] = runner[y]
      /\ runner'[x] = (runner[x] \ {t}) \cup {new}
  BY BecomesRuns DEF TasksIInv
<1>2. new.step = step /\ new.id = t.id /\ new.row = row
  BY DEF Turned
<1> HIDE DEF new
<1>3. \A u \in runner[x] \ {t} : u.id # t.id
  BY DEF TasksIInv, RunsKnown
<1>4. RunsKnown'
  <2>1. ASSUME NEW u \in runner'[x]
        PROVE  /\ u.step = "mailed" => u.row.next # "due"
               /\ \A v \in runner'[x] :
                    /\ u.id = v.id => u = v
                    /\ u.step # "waiting" /\ v.step # "waiting" => u = v
    <3>1. u.step = "mailed" => u.row.next # "due"
      BY <1>1, <1>2 DEF TasksIInv, RunsKnown
    <3>2. ASSUME NEW v \in runner'[x], u.id = v.id
          PROVE  u = v
      BY <1>1, <1>2, <1>3, <3>2 DEF TasksIInv, RunsKnown
    <3>3. ASSUME NEW v \in runner'[x], u.step # "waiting", v.step # "waiting"
          PROVE  u = v
      BY <1>1, <3>3
    <3>4. QED
      BY <3>1, <3>2, <3>3
  <2>2. QED
    BY <1>1, <2>1 DEF TasksIInv, RunsKnown, Runners
<1>5. RoundsKnow'
  BY <1>1, <1>2 DEF TasksIInv, RoundsKnow, Runners
<1>6. ClerksKnow'
  <2>1. ASSUME NEW c \in Clerks
        PROVE  /\ clerk'[c] = {} \/ runner'[c] = {}
               /\ \A u, v \in runner'[c] : u = v
    <3>1. CASE c # x
      BY <1>1, <3>1 DEF TasksIInv, ClerksKnow, Runners
    <3>2. CASE c = x
      <4>1. clerk[c] = {} /\ runner[c] \ {t} = {}
        BY <3>2 DEF TasksIInv, ClerksKnow
      <4>2. QED
        BY <1>1, <3>2, <4>1
    <3>3. QED
      BY <3>1, <3>2
  <2>2. QED
    BY <2>1 DEF ClerksKnow
<1>7. OneStored'
  BY DEF TasksIInv, OneStored
<1>8. QED
  BY <1>4, <1>5, <1>6, <1>7 DEF TasksIInv

\* A runner that had nothing loads stored rows.
LEMMA LoadedTasks ==
  ASSUME TasksIInv, ReportsTypeOK', NEW x \in Runners, NEW batch,
         runner' = [runner EXCEPT ![x] = batch],
         \A t \in batch : /\ t \in [step : {"waiting"}, id : Reports, row : Row]
                          /\ t.row \in table[t.id],
         x \in Rounds => \A t \in batch : t.row.next = "due",
         x \in Clerks => clerk[x] = {} /\ \A t, u \in batch : t.id = u.id,
         UNCHANGED <<table, clerk>>
  PROVE  TasksIInv'
<1>1. \A y \in Runners \ {x} : runner'[y] = runner[y]
  BY DEF TasksIInv, ReportsTypeOK
<1>2. runner'[x] = batch
  BY DEF TasksIInv, ReportsTypeOK
<1>3. \A t, u \in batch : t.id = u.id => t = u
  BY DEF TasksIInv, OneStored
<1>4. \A t \in batch : t.step = "waiting"
  OBVIOUS
<1>5. RunsKnown'
  BY <1>1, <1>2, <1>3, <1>4 DEF TasksIInv, RunsKnown, Runners
<1>6. RoundsKnow'
  BY <1>1, <1>2 DEF TasksIInv, RoundsKnow, Runners
<1>7. ClerksKnow'
  BY <1>1, <1>2, <1>3 DEF TasksIInv, ClerksKnow, Runners
<1>8. QED
  BY <1>5, <1>6, <1>7 DEF TasksIInv, OneStored

LEMMA RunLoads ==
  ASSUME TasksIInv, NEW c \in Clerks, NEW r \in Reports, RunRead(c, r)
  PROVE  \E batch :
            /\ runner' = [runner EXCEPT ![c] = batch]
            /\ \A t \in batch : /\ t \in [step : {"waiting"}, id : Reports, row : Row]
                                /\ t.row \in table[t.id]
            /\ \A t, u \in batch : t.id = u.id
<1> DEFINE batch == {[step |-> "waiting", id |-> r, row |-> row] : row \in table[r]}
<1>1. runner' = [runner EXCEPT ![c] = batch]
  BY DEF RunRead
<1>2. \A t \in batch : /\ t \in [step : {"waiting"}, id : Reports, row : Row]
                       /\ t.row \in table[t.id] /\ t.id = r
  BY DEF TasksIInv, ReportsTypeOK
<1> HIDE DEF batch
<1>3. QED
  BY <1>1, <1>2

\* A round loads every report that is due, and only such.
LEMMA RoundLoads ==
  ASSUME TasksIInv, NEW k \in Rounds, RoundFind(k)
  PROVE  \E batch :
            /\ runner' = [runner EXCEPT ![k] = batch]
            /\ \A t \in batch : /\ t \in [step : {"waiting"}, id : Reports, row : Row]
                                /\ t.row \in table[t.id]
                                /\ t.row.next = "due"
<1> DEFINE batch == {t \in [step : {"waiting"}, id : Reports,
                            row : UNION {table[r] : r \in Reports}] :
                        t.row \in table[t.id] /\ Pending(t.row)}
<1>1. runner' = [runner EXCEPT ![k] = batch]
  BY DEF RoundFind
<1>2. \A t \in batch : /\ t \in [step : {"waiting"}, id : Reports, row : Row]
                       /\ t.row \in table[t.id]
                       /\ t.row.next = "due"
  BY DEF TasksIInv, ReportsTypeOK, Pending
<1> HIDE DEF batch
<1>3. QED
  BY <1>1, <1>2

LEMMA TasksStep ==
  ASSUME TasksIInv, [ReportsNext]_reportVars
  PROVE  TasksIInv'
<1>1. ReportsTypeOK /\ ReportsTypeOK'
  BY TypeStep DEF TasksIInv
<1>2. ASSUME NEW c \in Clerks, NEW r \in Reports, Create(c, r)
      PROVE  TasksIInv'
  <2>1. PICK row \in Row : table' = [table EXCEPT ![r] = {row}]
    BY <1>1, <1>2, CreateType
  <2>2. OneStored'
    BY <2>1, PutOne
  <2>3. UNCHANGED <<clerk, runner>>
    BY <1>2 DEF Create
  <2>4. QED
    BY <1>1, <2>2, <2>3, FewerTasks
<1>3. ASSUME NEW c \in Clerks, NEW r \in Reports, UpdateRead(c, r)
      PROVE  TasksIInv'
  <2>1. runner[c] = {} /\ UNCHANGED <<table, runner>>
    BY <1>3 DEF UpdateRead, Ask
  <2>2. \A d \in Clerks \ {c} : clerk'[d] = clerk[d]
    BY <1>1, <1>3 DEF UpdateRead, ReportsTypeOK
  <2>3. OneStored' /\ RunsKnown' /\ RoundsKnow'
    BY <2>1 DEF TasksIInv, OneStored, RunsKnown, RoundsKnow, Runners
  <2>4. ClerksKnow'
    BY <2>1, <2>2 DEF TasksIInv, ClerksKnow
  <2>5. QED
    BY <1>1, <2>3, <2>4 DEF TasksIInv
<1>4. ASSUME NEW c \in Clerks, UpdateSave(c)
      PROVE  TasksIInv'
  <2>1. PICK t \in clerk[c] :
           /\ table' = [table EXCEPT ![t.id] = {t.row}]
           /\ clerk' = [clerk EXCEPT ![c] = {}]
           /\ UNCHANGED runner
    BY <1>4 DEF UpdateSave
  <2>2. OneStored'
    BY <1>1, <2>1, UpdateFields, PutOne
  <2>3. QED
    BY <1>1, <2>1, <2>2, FewerTasks DEF ReportsTypeOK
<1>5. ASSUME NEW c \in Clerks, NEW r \in Reports, Delete(c, r)
      PROVE  TasksIInv'
  <2>1. OneStored' /\ UNCHANGED <<clerk, runner>>
    BY <1>1, <1>5 DEF Delete, TasksIInv, OneStored, ReportsTypeOK
  <2>2. QED
    BY <1>1, <2>1, FewerTasks
<1>6. ASSUME NEW c \in Clerks, NEW r \in Reports, RunRead(c, r)
      PROVE  TasksIInv'
  <2>1. clerk[c] = {} /\ UNCHANGED <<table, clerk>> /\ c \in Runners /\ c \notin Rounds
    BY <1>6, ScheduleAssumption DEF RunRead, Ask, Runners
  <2>2. QED
    BY <1>1, <1>6, <2>1, RunLoads, LoadedTasks
<1>7. ASSUME NEW k \in Rounds, RoundFind(k)
      PROVE  TasksIInv'
  <2>1. UNCHANGED <<table, clerk>> /\ k \in Runners /\ k \notin Clerks
    BY <1>7, ScheduleAssumption DEF RoundFind, Runners
  <2>2. QED
    BY <1>1, <1>7, <2>1, RoundLoads, LoadedTasks
<1>8. ASSUME NEW x \in Runners, NEW t \in runner[x], Mail(x, t) \/ Fail(x, t)
      PROVE  TasksIInv'
  <2>1. \A u \in runner[x] : u.step = "waiting"
    BY <1>8 DEF Mail, Fail, Turn
  <2>2. UNCHANGED <<table, clerk>>
    BY <1>8 DEF Mail, Fail
  <2>3. t.row \in Row
    BY <1>1, RunFields
  <2>4. MailedRow(t.row).next # "due"
    BY <2>3 DEF MailedRow, Row
  <2>5. QED
    BY <1>1, <1>8, <2>1, <2>2, <2>4, TurnedTasks DEF Mail, Fail
<1>9. ASSUME NEW x \in Runners, NEW t \in runner[x], SaveFail(x, t)
      PROVE  TasksIInv'
  <2>1. \A u \in runner[x] \ {t} : u.step = "waiting"
    BY <1>9 DEF SaveFail, TasksIInv, RunsKnown
  <2>2. UNCHANGED <<table, clerk>> /\ Becomes(x, t, "failed", FailedRow(t.row))
    BY <1>9 DEF SaveFail
  <2>3. QED
    BY <1>1, <2>1, <2>2, TurnedTasks
<1>10. ASSUME NEW x \in Runners, NEW t \in runner[x], Save(x, t)
       PROVE  TasksIInv'
  <2>1. /\ table' = [table EXCEPT ![t.id] = {t.row}]
        /\ runner' = [runner EXCEPT ![x] = @ \ {t}]
        /\ UNCHANGED clerk
    BY <1>10 DEF Save
  <2>2. OneStored'
    BY <1>1, <2>1, RunFields, PutOne
  <2>3. QED
    BY <1>1, <2>1, <2>2, FewerTasks DEF ReportsTypeOK
<1>11. ASSUME NEW x \in Runners, Abort(x)
       PROVE  TasksIInv'
  <2>1. OneStored' /\ \A y \in Runners : runner'[y] \subseteq runner[y]
    BY <1>1, <1>11 DEF Abort, TasksIInv, OneStored, ReportsTypeOK
  <2>2. QED
    BY <1>1, <1>11, <2>1, FewerTasks DEF Abort
<1>12. ASSUME NEW c \in Clerks, UpdateFail(c)
       PROVE  TasksIInv'
  <2>1. OneStored' /\ \A d \in Clerks : clerk'[d] \subseteq clerk[d]
    BY <1>1, <1>12 DEF UpdateFail, TasksIInv, OneStored, ReportsTypeOK
  <2>2. QED
    BY <1>1, <1>12, <2>1, FewerTasks DEF UpdateFail
<1>13. ASSUME NEW r \in Reports, Due(r)
       PROVE  TasksIInv'
  <2>1. PICK row \in table[r] :
           table' = [table EXCEPT ![r] = {[row EXCEPT !.next = "due"]}]
    BY <1>13 DEF Due
  <2>2. [row EXCEPT !.next = "due"] \in Row
    BY <1>1, StoredFields, DueRowType DEF Dates
  <2>3. OneStored'
    BY <2>1, <2>2, PutOne
  <2>4. QED
    BY <1>1, <1>13, <2>3, FewerTasks DEF Due
<1>14. CASE UNCHANGED reportVars
  BY <1>1, <1>14, FewerTasks DEF reportVars, TasksIInv, OneStored
<1>15. QED
  BY <1>2, <1>3, <1>4, <1>5, <1>6, <1>7, <1>8, <1>9, <1>10, <1>11, <1>12, <1>13,
     <1>14 DEF ReportsNext, Execute

-----------------------------------------------------------------------------
(***************************************************************************)
(* Counting                                                                *)
(***************************************************************************)

LEMMA CountsMove ==
  ASSUME NEW S, IsFiniteSet(S), NEW T
  PROVE  /\ Cardinality(S) \in Nat
         /\ T \subseteq S =>
               IsFiniteSet(T) /\ Cardinality(T) \in Nat /\ Cardinality(T) <= Cardinality(S)
         /\ \A x : T \subseteq S \cup {x} =>
               IsFiniteSet(T) /\ Cardinality(T) \in Nat /\ Cardinality(T) <= Cardinality(S) + 1
         /\ \A x \in S : T \subseteq S \ {x} =>
               IsFiniteSet(T) /\ Cardinality(T) \in Nat /\ Cardinality(T) <= Cardinality(S) - 1
<1>1. Cardinality(S) \in Nat
  BY FS_CardinalityType
<1>2. ASSUME T \subseteq S
      PROVE  IsFiniteSet(T) /\ Cardinality(T) \in Nat /\ Cardinality(T) <= Cardinality(S)
  BY <1>2, FS_Subset, FS_CardinalityType
<1>3. ASSUME NEW x, T \subseteq S \cup {x}
      PROVE  IsFiniteSet(T) /\ Cardinality(T) \in Nat /\ Cardinality(T) <= Cardinality(S) + 1
  <2>1. IsFiniteSet(S \cup {x}) /\ Cardinality(S \cup {x}) <= Cardinality(S) + 1
        /\ Cardinality(S \cup {x}) \in Nat
    BY <1>1, FS_AddElement, FS_CardinalityType
  <2>2. IsFiniteSet(T) /\ Cardinality(T) \in Nat /\ Cardinality(T) <= Cardinality(S \cup {x})
    BY <1>3, <2>1, FS_Subset, FS_CardinalityType
  <2>3. QED
    BY <1>1, <2>1, <2>2
<1>4. ASSUME NEW x \in S, T \subseteq S \ {x}
      PROVE  IsFiniteSet(T) /\ Cardinality(T) \in Nat /\ Cardinality(T) <= Cardinality(S) - 1
  <2>1. IsFiniteSet(S \ {x}) /\ Cardinality(S \ {x}) = Cardinality(S) - 1
    BY <1>4, FS_RemoveElement
  <2>2. QED
    BY <1>4, <2>1, FS_Subset, FS_CardinalityType
<1>5. QED
  BY <1>1, <1>2, <1>3, <1>4

LEMMA OwedFinite ==
  IsFiniteSet(OwedReports) /\ IsFiniteSet(OwedClerks)
BY ScheduleAssumption, FS_Subset DEF OwedReports, OwedClerks

\* What changes in the table of one report, while the rounds go on as they
\* were.
LEMMA TableMoves ==
  ASSUME \A k \in Rounds : runner'[k] = runner[k],
         NEW r \in Reports, \A q \in Reports \ {r} : table'[q] = table[q]
  PROVE  /\ OwedReports' \subseteq OwedReports \cup {r}
         /\ (\A row \in table'[r] : row.next # "due") =>
               OwedReports' \subseteq OwedReports
<1>1. \A q \in Reports : Held(q)' = Held(q)
  BY DEF Held
<1>2. \A q \in Reports \ {r} : Owed(q)' = Owed(q)
  BY <1>1 DEF Owed
<1>3. ASSUME \A row \in table'[r] : row.next # "due"
      PROVE  Owed(r)' => Owed(r)
  BY <1>1, <1>3 DEF Owed
<1>4. QED
  BY <1>2, <1>3 DEF OwedReports

LEMMA RoundsMoveNot ==
  ASSUME \A k \in Rounds : runner'[k] = runner[k], UNCHANGED table
  PROVE  OwedReports' = OwedReports
BY DEF OwedReports, Owed, Held

\* What changes of one request.
LEMMA ClerksMove ==
  ASSUME NEW x, \A d \in Clerks \ {x} : clerk'[d] = clerk[d] /\ runner'[d] = runner[d]
  PROVE  /\ OwedClerks' \subseteq OwedClerks \cup {x}
         /\ x \notin Clerks => OwedClerks' \subseteq OwedClerks
         /\ x \in Clerks /\ clerk'[x] = {} /\ (\A t \in runner'[x] : t.step = "mailed") =>
               OwedClerks' \subseteq OwedClerks \ {x}
<1>1. \A d \in Clerks \ {x} : d \in OwedClerks' <=> d \in OwedClerks
  BY DEF OwedClerks
<1>2. OwedClerks' \subseteq Clerks
  BY DEF OwedClerks
<1>3. x \in Clerks /\ clerk'[x] = {} /\ (\A t \in runner'[x] : t.step = "mailed") =>
         x \notin OwedClerks'
  BY DEF OwedClerks
<1>4. QED
  BY <1>1, <1>2, <1>3

LEMMA ClerksMoveNot ==
  ASSUME \A d \in Clerks : clerk'[d] = clerk[d] /\ runner'[d] = runner[d]
  PROVE  OwedClerks' = OwedClerks
BY DEF OwedClerks

\* What changes when one task of the only round does.
LEMMA RoundMoves ==
  ASSUME TasksIInv, NEW k, Rounds = {k}, NEW t \in runner[k], NEW new,
         new.id = t.id, runner'[k] = (runner[k] \ {t}) \cup {new},
         UNCHANGED table
  PROVE  /\ t.row.next = "due" => t.id \in OwedReports
         /\ new.row.next # "due" => OwedReports' \subseteq OwedReports \ {t.id}
         /\ new.row.next = t.row.next => OwedReports' \subseteq OwedReports
<1>1. t.id \in Reports /\ \A u \in runner[k] \ {t} : u.id # t.id
  BY RunFields DEF TasksIInv, RunsKnown, Runners
<1>2. Held(t.id) = {t} /\ Held(t.id)' = {new}
  BY <1>1 DEF Held
<1>3. Owed(t.id) = (t.row.next = "due") /\ Owed(t.id)' = (new.row.next = "due")
  BY <1>2 DEF Owed
<1>4. ASSUME NEW q \in Reports, q # t.id
      PROVE  Owed(q)' = Owed(q)
  <2>1. Held(q)' = Held(q)
    BY <1>4 DEF Held
  <2>2. QED
    BY <2>1 DEF Owed
<1>5. QED
  BY <1>1, <1>3, <1>4 DEF OwedReports

LEMMA SumOfThree ==
  ASSUME NEW i \in Nat, NEW j \in Nat, NEW n \in Nat
  PROVE  i + j + n \in Nat
OBVIOUS

\* A step that owes no more than it is paid, or mails what was owed.
LEMMA Balance ==
  ASSUME NEW m \in Nat, NEW a \in Nat, NEW b \in Nat, NEW paid \in Nat,
         NEW m2 \in Nat, NEW a2 \in Nat, NEW b2 \in Nat, NEW paid2 \in Nat,
         m + a + b <= paid,
         \/ m2 = m /\ a2 <= a /\ b2 <= b /\ paid <= paid2
         \/ m2 = m /\ a2 <= a /\ b2 <= b + 1 /\ paid2 = paid + 1
         \/ m2 = m /\ a2 <= a + 1 /\ b2 <= b /\ paid2 = paid + 1
         \/ m2 = m /\ a2 <= a + 1 /\ b2 <= b - 1 /\ paid2 = paid
         \/ m2 <= m + 1 /\ a2 <= a - 1 /\ b2 <= b /\ paid2 = paid
         \/ m2 <= m + 1 /\ a2 <= a /\ b2 <= b - 1 /\ paid2 = paid
  PROVE  m2 + a2 + b2 <= paid2
OBVIOUS

LEMMA BalancePaid ==
  ASSUME NEW m \in Nat, NEW a \in Nat, NEW b \in Nat, NEW paid \in Nat,
         NEW a2 \in Nat, NEW b2 \in Nat,
         m + a + b <= paid,
         \/ a2 <= a /\ b2 <= b + 1
         \/ a2 <= a + 1 /\ b2 <= b
  PROVE  m + a2 + b2 <= paid + 1
OBVIOUS

\* Nothing was mailed, and what is owed grew by no more than was paid.
LEMMA StillPaid ==
  ASSUME MailsPaid, ReportsTypeOK, ReportsTypeOK', UNCHANGED mails,
         \/ /\ OwedReports' \subseteq OwedReports
            /\ OwedClerks' \subseteq OwedClerks
            /\ Credit <= Credit'
         \/ /\ OwedReports' \subseteq OwedReports
            /\ \E x : OwedClerks' \subseteq OwedClerks \cup {x}
            /\ Credit' = Credit + 1
         \/ /\ \E r : OwedReports' \subseteq OwedReports \cup {r}
            /\ OwedClerks' \subseteq OwedClerks
            /\ Credit' = Credit + 1
         \/ /\ \E r : OwedReports' \subseteq OwedReports \cup {r}
            /\ \E x \in OwedClerks : OwedClerks' \subseteq OwedClerks \ {x}
            /\ Credit' = Credit
  PROVE  MailsPaid'
<1> DEFINE m == Cardinality(Mailed)
           a == Cardinality(OwedReports)
           b == Cardinality(OwedClerks)
<1>1. IsFiniteSet(Mailed) /\ m \in Nat /\ m + a + b <= Credit
  BY FS_CardinalityType DEF MailsPaid
<1>2. Mailed' = Mailed
  BY DEF Mailed
<1>3. a \in Nat /\ b \in Nat /\ a' \in Nat /\ b' \in Nat
  BY OwedFinite, CountsMove, FS_Subset, ScheduleAssumption DEF OwedReports, OwedClerks
<1>4. Credit \in Nat /\ Credit' \in Nat
  <2>1. dues \in Nat /\ requests \in Nat /\ aborts \in Nat
    BY ScheduleAssumption DEF ReportsTypeOK
  <2>2. dues' \in Nat /\ requests' \in Nat /\ aborts' \in Nat
    BY ScheduleAssumption DEF ReportsTypeOK
  <2>3. QED
    BY <2>1, <2>2, SumOfThree DEF Credit
<1>5. /\ OwedReports' \subseteq OwedReports => a' <= a
      /\ \A r : OwedReports' \subseteq OwedReports \cup {r} => a' <= a + 1
  BY OwedFinite, CountsMove
<1>6. /\ OwedClerks' \subseteq OwedClerks => b' <= b
      /\ \A x : OwedClerks' \subseteq OwedClerks \cup {x} => b' <= b + 1
      /\ \A x \in OwedClerks : OwedClerks' \subseteq OwedClerks \ {x} => b' <= b - 1
  BY OwedFinite, CountsMove
<1> HIDE DEF m, a, b
<1>7. m' = m /\ m + a' + b' <= Credit'
  <2>1. m' = m /\ m' \in Nat
    BY <1>1, <1>2 DEF m
  <2>2. \/ a' <= a /\ b' <= b /\ Credit <= Credit'
        \/ a' <= a /\ b' <= b + 1 /\ Credit' = Credit + 1
        \/ a' <= a + 1 /\ b' <= b /\ Credit' = Credit + 1
        \/ a' <= a + 1 /\ b' <= b - 1 /\ Credit' = Credit
    BY <1>5, <1>6, Zenon
  <2>3. m + a' + b' <= Credit'
    <3>1. CASE a' <= a /\ b' <= b /\ Credit <= Credit'
      BY <1>1, <1>3, <1>4, <3>1, Balance, Zenon
    <3>2. CASE a' <= a /\ b' <= b + 1 /\ Credit' = Credit + 1
      BY <1>1, <1>3, <1>4, <3>2, BalancePaid, Zenon
    <3>3. CASE a' <= a + 1 /\ b' <= b /\ Credit' = Credit + 1
      BY <1>1, <1>3, <1>4, <3>3, BalancePaid, Zenon
    <3>4. CASE a' <= a + 1 /\ b' <= b - 1 /\ Credit' = Credit
      BY <1>1, <1>3, <1>4, <3>4, Balance, Zenon
    <3>5. QED
      BY <2>2, <3>1, <3>2, <3>3, <3>4, Zenon
  <2>4. QED
    BY <2>1, <2>3, Zenon
<1>8. QED
  BY <1>1, <1>2, <1>7 DEF MailsPaid, m, a, b

\* One more mail, for which something was owed.
LEMMA MailIsPaid ==
  ASSUME MailsPaid, ReportsTypeOK, ReportsTypeOK',
         NEW r \in Reports, mails' = [mails EXCEPT ![r] = @ + 1],
         Credit' = Credit,
         \/ /\ \E q \in OwedReports : OwedReports' \subseteq OwedReports \ {q}
            /\ OwedClerks' \subseteq OwedClerks
         \/ /\ OwedReports' \subseteq OwedReports
            /\ \E x \in OwedClerks : OwedClerks' \subseteq OwedClerks \ {x}
  PROVE  MailsPaid'
<1> DEFINE m == Cardinality(Mailed)
           a == Cardinality(OwedReports)
           b == Cardinality(OwedClerks)
<1>1. IsFiniteSet(Mailed) /\ m \in Nat /\ m + a + b <= Credit
  BY FS_CardinalityType DEF MailsPaid
<1>2. Mailed' \subseteq Mailed \cup {<<r, mails[r] + 1>>}
  <2>1. \A q \in Reports : mails[q] \in Nat
    BY DEF ReportsTypeOK
  <2>2. \A q \in Reports \ {r} : mails'[q] = mails[q]
    BY DEF ReportsTypeOK
  <2>3. mails'[r] = mails[r] + 1
    BY DEF ReportsTypeOK
  <2>4. 1..(mails[r] + 1) = 1..mails[r] \cup {mails[r] + 1}
    BY <2>1
  <2>5. ASSUME NEW p \in Mailed'
        PROVE  p \in Mailed \cup {<<r, mails[r] + 1>>}
    <3>1. PICK q \in Reports : p \in {q} \X (1..mails'[q])
      BY DEF Mailed
    <3>2. p = <<q, p[2]>> /\ p[2] \in 1..mails'[q]
      BY <3>1
    <3>3. CASE q = r
      <4>1. p[2] \in 1..mails[r] \/ p[2] = mails[r] + 1
        BY <2>3, <2>4, <3>2, <3>3
      <4>2. p[2] \in 1..mails[r] => p \in {r} \X (1..mails[r])
        BY <3>2, <3>3
      <4>3. QED
        BY <3>2, <3>3, <4>1, <4>2 DEF Mailed
    <3>4. CASE q # r
      BY <2>2, <3>1, <3>4 DEF Mailed
    <3>5. QED
      BY <3>3, <3>4
  <2>6. QED
    BY <2>5
<1>3. IsFiniteSet(Mailed') /\ Cardinality(Mailed') \in Nat /\ Cardinality(Mailed') <= m + 1
  BY <1>1, <1>2, CountsMove
<1>4. a \in Nat /\ b \in Nat /\ a' \in Nat /\ b' \in Nat
  BY OwedFinite, CountsMove, FS_Subset, ScheduleAssumption DEF OwedReports, OwedClerks
<1>5. Credit \in Nat
  BY ScheduleAssumption DEF ReportsTypeOK, Credit
<1>6. /\ OwedReports' \subseteq OwedReports => a' <= a
      /\ \A q \in OwedReports : OwedReports' \subseteq OwedReports \ {q} => a' <= a - 1
  BY OwedFinite, CountsMove
<1>7. /\ OwedClerks' \subseteq OwedClerks => b' <= b
      /\ \A x \in OwedClerks : OwedClerks' \subseteq OwedClerks \ {x} => b' <= b - 1
  BY OwedFinite, CountsMove
<1>8. m' <= m + 1 /\ m' \in Nat
  BY <1>3
<1> HIDE DEF m, a, b
<1>9. m' + a' + b' <= Credit'
  <2>1. \/ a' <= a - 1 /\ b' <= b
        \/ a' <= a /\ b' <= b - 1
    BY <1>6, <1>7, Zenon
  <2>2. QED
    BY <1>1, <1>4, <1>5, <1>8, <2>1, Balance, Zenon
<1>10. QED
  BY <1>3, <1>9 DEF MailsPaid, m, a, b

\* Everything that administrators do is paid by their request, or by what the
\* request they made before still owes.
LEMMA RequestsStayPaid ==
  ASSUME TasksIInv, ReportsTypeOK', MailsPaid, NEW c \in Clerks,
         \/ \E r \in Reports :
               Create(c, r) \/ UpdateRead(c, r) \/ Delete(c, r) \/ RunRead(c, r)
         \/ UpdateSave(c)
         \/ UpdateFail(c)
  PROVE  MailsPaid'
<1>1. ReportsTypeOK /\ c \notin Rounds
  BY ScheduleAssumption DEF TasksIInv
<1>2. Ask(c) => requests' = requests + 1
  BY <1>1, AskType
<1>3. ASSUME requests' = requests + 1, UNCHANGED <<dues, aborts>>
      PROVE  Credit' = Credit + 1
  <2>1. requests \in Nat /\ dues \in Nat /\ aborts \in Nat
    BY <1>1, ScheduleAssumption DEF ReportsTypeOK
  <2>2. QED
    BY <1>3, <2>1 DEF Credit
<1>4. ASSUME UNCHANGED <<requests, dues, aborts>>
      PROVE  Credit' = Credit /\ Credit <= Credit'
  <2>1. requests \in Nat /\ dues \in Nat /\ aborts \in Nat
    BY <1>1, ScheduleAssumption DEF ReportsTypeOK
  <2>2. QED
    BY <1>4, <2>1 DEF Credit
<1>5. ASSUME NEW r \in Reports, Create(c, r)
      PROVE  MailsPaid'
  <2>1. PICK row \in Row : table' = [table EXCEPT ![r] = {row}] /\ row.next # "due"
    BY <1>1, <1>5, CreateType
  <2>2. table'[r] = {row} /\ \A q \in Reports \ {r} : table'[q] = table[q]
    BY <1>1, <2>1, PutType
  <2>3. Ask(c) /\ UNCHANGED <<clerk, runner, mails, dues, aborts>>
    BY <1>5 DEF Create
  <2>4. OwedReports' \subseteq OwedReports
    BY <2>1, <2>2, <2>3, TableMoves
  <2>5. OwedClerks' \subseteq OwedClerks \cup {c}
    BY <2>3, ClerksMove
  <2>6. QED
    BY <1>1, <1>2, <1>3, <2>3, <2>4, <2>5, StillPaid
<1>6. ASSUME NEW r \in Reports, UpdateRead(c, r)
      PROVE  MailsPaid'
  <2>1. Ask(c) /\ UNCHANGED <<table, runner, mails, dues, aborts>>
    BY <1>6 DEF UpdateRead
  <2>2. \A d \in Clerks \ {c} : clerk'[d] = clerk[d]
    BY <1>1, <1>6 DEF UpdateRead, ReportsTypeOK
  <2>3. OwedReports' \subseteq OwedReports
    BY <2>1, RoundsMoveNot
  <2>4. OwedClerks' \subseteq OwedClerks \cup {c}
    BY <2>1, <2>2, ClerksMove
  <2>5. QED
    BY <1>1, <1>2, <1>3, <2>1, <2>3, <2>4, StillPaid
<1>7. ASSUME NEW r \in Reports, Delete(c, r)
      PROVE  MailsPaid'
  <2>1. /\ Ask(c) /\ table' = [table EXCEPT ![r] = {}]
        /\ UNCHANGED <<clerk, runner, mails, dues, aborts>>
    BY <1>7 DEF Delete
  <2>2. table'[r] = {} /\ \A q \in Reports \ {r} : table'[q] = table[q]
    BY <1>1, <2>1 DEF ReportsTypeOK
  <2>3. OwedReports' \subseteq OwedReports
    BY <2>1, <2>2, TableMoves
  <2>4. OwedClerks' \subseteq OwedClerks \cup {c}
    BY <2>1, ClerksMove
  <2>5. QED
    BY <1>1, <1>2, <1>3, <2>1, <2>3, <2>4, StillPaid
<1>8. ASSUME NEW r \in Reports, RunRead(c, r)
      PROVE  MailsPaid'
  <2>1. Ask(c) /\ UNCHANGED <<table, clerk, mails, dues, aborts>>
    BY <1>8 DEF RunRead
  <2>2. \A y \in Runners \ {c} : runner'[y] = runner[y]
    BY <1>1, <1>8 DEF RunRead, ReportsTypeOK
  <2>3. OwedReports' \subseteq OwedReports
    BY <1>1, <2>1, <2>2, RoundsMoveNot DEF Runners
  <2>4. OwedClerks' \subseteq OwedClerks \cup {c}
    BY <2>1, <2>2, ClerksMove DEF Runners
  <2>5. QED
    BY <1>1, <1>2, <1>3, <2>1, <2>3, <2>4, StillPaid
<1>9. ASSUME UpdateSave(c)
      PROVE  MailsPaid'
  <2>1. PICK t \in clerk[c] : table' = [table EXCEPT ![t.id] = {t.row}]
    BY <1>9 DEF UpdateSave
  <2>2. /\ clerk' = [clerk EXCEPT ![c] = {}]
        /\ UNCHANGED <<runner, mails, requests, dues, aborts>>
    BY <1>9 DEF UpdateSave
  <2>3. t.id \in Reports /\ t.row \in Row
    BY <1>1, UpdateFields
  <2>4. \A q \in Reports \ {t.id} : table'[q] = table[q]
    BY <1>1, <2>1, <2>3, PutType
  <2>5. OwedReports' \subseteq OwedReports \cup {t.id}
    BY <2>2, <2>3, <2>4, TableMoves
  <2>6. clerk'[c] = {} /\ (\A d \in Clerks \ {c} : clerk'[d] = clerk[d])
    BY <1>1, <2>2 DEF ReportsTypeOK
  <2>7. c \in OwedClerks /\ runner[c] = {}
    BY DEF OwedClerks, TasksIInv, ClerksKnow
  <2>8. OwedClerks' \subseteq OwedClerks \ {c}
    BY <2>2, <2>6, <2>7, ClerksMove
  <2>9. QED
    BY <1>1, <1>4, <2>2, <2>5, <2>7, <2>8, StillPaid
<1>10. ASSUME UpdateFail(c)
       PROVE  MailsPaid'
  <2>1. /\ clerk' = [clerk EXCEPT ![c] = {}]
        /\ UNCHANGED <<table, runner, mails, requests, dues, aborts>>
    BY <1>10 DEF UpdateFail
  <2>2. OwedReports' \subseteq OwedReports
    BY <2>1, RoundsMoveNot
  <2>3. OwedClerks' \subseteq OwedClerks
    BY <1>1, <2>1 DEF OwedClerks, ReportsTypeOK
  <2>4. QED
    BY <1>1, <1>4, <2>1, <2>2, <2>3, StillPaid
<1>11. QED
  BY <1>5, <1>6, <1>7, <1>8, <1>9, <1>10

\* Runners other than the only round are requests.
LEMMA TurnsStayPaid ==
  ASSUME TasksIInv, ReportsTypeOK', MailsPaid, NEW k, Rounds = {k},
         NEW x \in Runners, NEW t \in runner[x],
         Mail(x, t) \/ Fail(x, t) \/ SaveFail(x, t)
  PROVE  MailsPaid'
<1>1. ReportsTypeOK /\ x \in Clerks \cup {k} /\ k \notin Clerks /\ k \in Runners
  BY ScheduleAssumption DEF TasksIInv, Runners
<1>2. t.id \in Reports /\ t.row \in Row
  BY <1>1, RunFields
<1>3. UNCHANGED <<table, clerk>>
  BY DEF Mail, Fail, SaveFail
<1>4. PICK step, row :
         /\ \/ Mail(x, t) /\ step = "mailed" /\ row = MailedRow(t.row)
            \/ (Fail(x, t) \/ SaveFail(x, t)) /\ step = "failed" /\ row = FailedRow(t.row)
         /\ Becomes(x, t, step, row)
  BY DEF Mail, Fail, SaveFail
<1> DEFINE new == Turned(t, step, row)
<1>5. new.id = t.id /\ new.row = row /\ new.step = step
  BY DEF Turned
<1>6. runner'[x] = (runner[x] \ {t}) \cup {new}
  BY <1>1, <1>4, BecomesRuns
<1>7. \A y \in Runners \ {x} : runner'[y] = runner[y]
  BY <1>1, <1>4, BecomesRuns
<1> HIDE DEF new
<1>8. MailedRow(t.row).next # "due" /\ FailedRow(t.row).next = t.row.next
  BY <1>2 DEF MailedRow, FailedRow, Row
<1>9. requests \in Nat /\ dues \in Nat /\ aborts \in Nat
  BY <1>1, ScheduleAssumption DEF ReportsTypeOK
<1>10. Mail(x, t) \/ Fail(x, t) => Credit' = Credit /\ Credit <= Credit'
  BY <1>9 DEF Mail, Fail, Credit
<1>11. SaveFail(x, t) => Credit' = Credit + 1 /\ Credit <= Credit'
  BY <1>9 DEF SaveFail, Credit
<1>12. CASE x = k
  <2>1. OwedClerks' \subseteq OwedClerks
    BY <1>1, <1>3, <1>7, <1>12, ClerksMove DEF Runners
  <2>2. CASE Mail(x, t) /\ row = MailedRow(t.row)
    <3>1. t.row.next = "due"
      BY <1>12, <2>2 DEF Mail, Turn, TasksIInv, RoundsKnow
    <3>2. t.id \in OwedReports /\ OwedReports' \subseteq OwedReports \ {t.id}
      BY <1>3, <1>5, <1>6, <1>8, <1>12, <2>2, <3>1, RoundMoves
    <3>3. mails' = [mails EXCEPT ![t.id] = @ + 1]
      BY <2>2 DEF Mail
    <3>4. QED
      BY <1>1, <1>2, <1>10, <2>1, <2>2, <3>2, <3>3, MailIsPaid
  <2>3. CASE (Fail(x, t) \/ SaveFail(x, t)) /\ row = FailedRow(t.row)
    <3>1. OwedReports' \subseteq OwedReports
      BY <1>3, <1>5, <1>6, <1>8, <1>12, <2>3, RoundMoves
    <3>2. UNCHANGED mails
      BY <2>3 DEF Fail, SaveFail
    <3>3. QED
      BY <1>1, <1>10, <1>11, <2>1, <2>3, <3>1, <3>2, StillPaid
  <2>4. QED
    BY <1>4, <2>2, <2>3
<1>13. CASE x \in Clerks
  <2>1. OwedReports' \subseteq OwedReports
    BY <1>1, <1>3, <1>7, <1>13, RoundsMoveNot DEF Runners
  <2>2. runner[x] = {t} /\ runner'[x] = {new} /\ clerk'[x] = {}
    BY <1>3, <1>6, <1>13 DEF TasksIInv, ClerksKnow
  <2>3. CASE Mail(x, t) /\ step = "mailed"
    <3>1. x \in OwedClerks
      BY <1>13, <2>3 DEF Mail, Turn, OwedClerks
    <3>2. OwedClerks' \subseteq OwedClerks \ {x}
      BY <1>3, <1>5, <1>7, <1>13, <2>2, <2>3, ClerksMove DEF Runners
    <3>3. mails' = [mails EXCEPT ![t.id] = @ + 1]
      BY <2>3 DEF Mail
    <3>4. QED
      BY <1>1, <1>2, <1>10, <2>1, <2>3, <3>1, <3>2, <3>3, MailIsPaid
  <2>4. CASE Fail(x, t)
    <3>1. x \in OwedClerks
      BY <1>13, <2>4 DEF Fail, Turn, OwedClerks
    <3>2. OwedClerks' \subseteq OwedClerks
      BY <1>3, <1>7, <1>13, <3>1, ClerksMove DEF Runners
    <3>3. UNCHANGED mails
      BY <2>4 DEF Fail
    <3>4. QED
      BY <1>1, <1>10, <2>1, <2>4, <3>2, <3>3, StillPaid
  <2>5. CASE SaveFail(x, t)
    <3>1. OwedClerks' \subseteq OwedClerks \cup {x}
      BY <1>3, <1>7, <1>13, ClerksMove DEF Runners
    <3>2. UNCHANGED mails
      BY <2>5 DEF SaveFail
    <3>3. QED
      BY <1>1, <1>11, <2>1, <2>5, <3>1, <3>2, StillPaid
  <2>6. QED
    BY <1>4, <2>3, <2>4, <2>5
<1>14. QED
  BY <1>1, <1>12, <1>13

\* What a round saves was owed before if it is owed after.
LEMMA SavesStayPaid ==
  ASSUME TasksIInv, ReportsTypeOK', MailsPaid, NEW k, Rounds = {k},
         NEW x \in Runners, NEW t \in runner[x], Save(x, t)
  PROVE  MailsPaid'
<1>1. ReportsTypeOK /\ x \in Clerks \cup {k} /\ k \notin Clerks /\ k \in Runners
  BY ScheduleAssumption DEF TasksIInv, Runners
<1>2. t.id \in Reports /\ t.row \in Row /\ t.step \in {"mailed", "failed"}
  BY <1>1, RunFields DEF Run, Save
<1>3. /\ table' = [table EXCEPT ![t.id] = {t.row}]
      /\ runner' = [runner EXCEPT ![x] = @ \ {t}]
      /\ UNCHANGED <<clerk, mails, failed, off, requests, dues, aborts>>
  BY DEF Save
<1>4. table'[t.id] = {t.row} /\ \A q \in Reports \ {t.id} : table'[q] = table[q]
  BY <1>1, <1>2, <1>3, PutType
<1>5. runner'[x] = runner[x] \ {t} /\ \A y \in Runners \ {x} : runner'[y] = runner[y]
  BY <1>1, <1>3 DEF ReportsTypeOK
<1>6. Credit' = Credit /\ Credit <= Credit'
  <2>1. requests \in Nat /\ dues \in Nat /\ aborts \in Nat
    BY <1>1, ScheduleAssumption DEF ReportsTypeOK
  <2>2. QED
    BY <1>3, <2>1 DEF Credit
<1>7. t.step = "mailed" => t.row.next # "due"
  BY DEF TasksIInv, RunsKnown
<1>8. CASE x = k
  <2>1. OwedClerks' \subseteq OwedClerks
    BY <1>1, <1>3, <1>5, <1>8, ClerksMove DEF Runners
  <2>2. \A u \in runner[k] \ {t} : u.id # t.id
    BY <1>8 DEF TasksIInv, RunsKnown
  <2>3. Held(t.id) = {t} /\ Held(t.id)' = {}
    BY <1>5, <1>8, <2>2 DEF Held
  <2>4. Owed(t.id)' = Owed(t.id)
    BY <1>4, <2>3 DEF Owed
  <2>5. ASSUME NEW q \in Reports, q # t.id
        PROVE  Owed(q)' = Owed(q)
    <3>1. Held(q)' = Held(q)
      BY <1>5, <1>8, <2>5 DEF Held
    <3>2. QED
      BY <1>4, <2>5, <3>1 DEF Owed
  <2>6. OwedReports' \subseteq OwedReports
    BY <2>4, <2>5 DEF OwedReports
  <2>7. QED
    BY <1>1, <1>3, <1>6, <2>1, <2>6, StillPaid
<1>9. CASE x \in Clerks
  <2>1. \A j \in Rounds : runner'[j] = runner[j]
    BY <1>1, <1>5, <1>9
  <2>2. runner'[x] = {} /\ clerk'[x] = {}
    BY <1>3, <1>5, <1>9 DEF TasksIInv, ClerksKnow
  <2>3. CASE t.step = "mailed"
    <3>1. OwedReports' \subseteq OwedReports
      BY <1>2, <1>4, <1>7, <2>1, <2>3, TableMoves
    <3>2. OwedClerks' \subseteq OwedClerks
      BY <1>3, <1>5, <1>9, <2>2, ClerksMove DEF Runners
    <3>3. QED
      BY <1>1, <1>3, <1>6, <3>1, <3>2, StillPaid
  <2>4. CASE t.step = "failed"
    <3>1. OwedReports' \subseteq OwedReports \cup {t.id}
      BY <1>2, <1>4, <2>1, TableMoves
    <3>2. x \in OwedClerks
      BY <1>9, <2>4 DEF OwedClerks
    <3>3. OwedClerks' \subseteq OwedClerks \ {x}
      BY <1>3, <1>5, <1>9, <2>2, ClerksMove DEF Runners
    <3>4. QED
      BY <1>1, <1>3, <1>6, <3>1, <3>2, <3>3, StillPaid
  <2>5. QED
    BY <1>2, <2>3, <2>4
<1>10. QED
  BY <1>1, <1>8, <1>9

\* An execution that dies may leave one mailed report due.
LEMMA AbortsStayPaid ==
  ASSUME TasksIInv, ReportsTypeOK', MailsPaid, NEW k, Rounds = {k},
         NEW x \in Runners, Abort(x)
  PROVE  MailsPaid'
<1>1. ReportsTypeOK /\ x \in Clerks \cup {k} /\ k \notin Clerks /\ k \in Runners
  BY ScheduleAssumption DEF TasksIInv, Runners
<1>2. UNCHANGED <<table, clerk, mails, requests, dues>> /\ aborts' = aborts + 1
  BY DEF Abort
<1>3. /\ \A y \in Runners \ {x} : runner'[y] = runner[y]
      /\ runner'[x] = {u \in runner[x] : u.step = "waiting"} \/ runner'[x] = {}
  BY <1>1 DEF Abort, ReportsTypeOK
<1>4. Credit' = Credit + 1
  <2>1. requests \in Nat /\ dues \in Nat /\ aborts \in Nat
    BY <1>1, ScheduleAssumption DEF ReportsTypeOK
  <2>2. QED
    BY <1>2, <2>1 DEF Credit
<1>5. CASE x = k
  <2>1. OwedClerks' \subseteq OwedClerks
    BY <1>1, <1>2, <1>3, <1>5, ClerksMove DEF Runners
  <2>2. ASSUME NEW q \in Reports, \A u \in runner[k] : u.step # "waiting" => u.id # q
        PROVE  Owed(q)' => Owed(q)
    <3>1. Held(q) = {u \in runner[k] : u.id = q} /\ Held(q)' = {u \in runner'[k] : u.id = q}
      BY DEF Held
    <3>2. \A u \in Held(q) : u.step = "waiting" /\ u.row.next = "due"
      BY <2>2, <3>1 DEF TasksIInv, RoundsKnow
    <3>3. CASE Held(q) = {}
      <4>1. Held(q)' = {}
        BY <1>3, <1>5, <3>1, <3>3
      <4>2. QED
        BY <1>2, <3>3, <4>1 DEF Owed
    <3>4. CASE Held(q) # {}
      BY <3>2, <3>4 DEF Owed
    <3>5. QED
      BY <3>3, <3>4
  <2>3. \E r : OwedReports' \subseteq OwedReports \cup {r}
    <3>1. CASE \A u \in runner[k] : u.step = "waiting"
      BY <2>2, <3>1 DEF OwedReports
    <3>2. CASE \E u \in runner[k] : u.step # "waiting"
      <4>1. PICK u \in runner[k] : u.step # "waiting"
        BY <3>2
      <4>2. \A v \in runner[k] : v.step # "waiting" => v.id = u.id
        BY <1>1, <4>1 DEF TasksIInv, RunsKnown
      <4>3. \A q \in Reports \ {u.id} : Owed(q)' => Owed(q)
        BY <2>2, <4>2
      <4>4. OwedReports' \subseteq OwedReports \cup {u.id}
        BY <4>3 DEF OwedReports
      <4>5. QED
        BY <4>4
    <3>3. QED
      BY <3>1, <3>2
  <2>4. QED
    BY <1>1, <1>2, <1>4, <2>1, <2>3, StillPaid
<1>6. CASE x \in Clerks
  <2>1. OwedReports' \subseteq OwedReports
    BY <1>1, <1>2, <1>3, <1>6, RoundsMoveNot
  <2>2. OwedClerks' \subseteq OwedClerks \cup {x}
    BY <1>2, <1>3, <1>6, ClerksMove DEF Runners
  <2>3. QED
    BY <1>1, <1>2, <1>4, <2>1, <2>2, StillPaid
<1>7. QED
  BY <1>1, <1>5, <1>6

\* A round takes on what was owed already.
LEMMA RoundsStayPaid ==
  ASSUME TasksIInv, ReportsTypeOK', MailsPaid, NEW k, Rounds = {k}, RoundFind(k)
  PROVE  MailsPaid'
<1>1. ReportsTypeOK /\ k \notin Clerks /\ k \in Runners /\ k \in Rounds
  BY ScheduleAssumption DEF TasksIInv, Runners
<1>2. UNCHANGED <<table, clerk, mails, requests, dues, aborts>> /\ runner[k] = {}
  BY DEF RoundFind
<1>3. PICK batch : /\ runner' = [runner EXCEPT ![k] = batch]
                   /\ \A t \in batch : /\ t.row \in table[t.id]
                                       /\ t.row.next = "due"
  BY <1>1, RoundLoads
<1>4. runner'[k] = batch /\ \A d \in Clerks : runner'[d] = runner[d]
  BY <1>1, <1>3 DEF ReportsTypeOK, Runners
<1>5. ASSUME NEW q \in Reports
      PROVE  Owed(q)' => Owed(q)
  <2>1. Held(q) = {} /\ Held(q)' = {t \in batch : t.id = q}
    BY <1>2, <1>4 DEF Held
  <2>2. CASE Held(q)' = {}
    BY <1>2, <2>1, <2>2 DEF Owed
  <2>3. CASE Held(q)' # {}
    BY <1>3, <2>1, <2>3 DEF Owed
  <2>4. QED
    BY <2>2, <2>3
<1>6. OwedReports' \subseteq OwedReports
  BY <1>5 DEF OwedReports
<1>7. OwedClerks' \subseteq OwedClerks
  BY <1>2, <1>4, ClerksMoveNot
<1>8. Credit' = Credit /\ Credit <= Credit'
  <2>1. requests \in Nat /\ dues \in Nat /\ aborts \in Nat
    BY <1>1, ScheduleAssumption DEF ReportsTypeOK
  <2>2. QED
    BY <1>2, <2>1 DEF Credit
<1>9. QED
  BY <1>1, <1>2, <1>6, <1>7, <1>8, StillPaid

LEMMA MailsStep ==
  ASSUME MailsIInv, [ReportsNext]_reportVars
  PROVE  MailsIInv'
<1>1. TasksIInv /\ TasksIInv' /\ ReportsTypeOK /\ ReportsTypeOK'
  BY TasksStep DEF MailsIInv, TasksIInv
<1>2. SUFFICES ASSUME Cardinality(Rounds) = 1
               PROVE  MailsPaid'
  BY <1>1 DEF MailsIInv
<1>3. MailsPaid
  BY <1>2 DEF MailsIInv
<1>4. PICK k : Rounds = {k}
  BY <1>2, ScheduleAssumption, FS_Singleton
<1>5. requests \in Nat /\ dues \in Nat /\ aborts \in Nat
  BY <1>1, ScheduleAssumption DEF ReportsTypeOK
<1>6. ASSUME NEW r \in Reports, Due(r)
      PROVE  MailsPaid'
  <2>1. \A q \in Reports \ {r} : table'[q] = table[q]
    BY <1>1, <1>6 DEF Due, ReportsTypeOK
  <2>2. /\ UNCHANGED <<clerk, runner, mails, requests, aborts>>
        /\ dues' = dues + 1
    BY <1>6 DEF Due
  <2>3. OwedReports' \subseteq OwedReports \cup {r}
    BY <2>1, <2>2, TableMoves
  <2>4. OwedClerks' \subseteq OwedClerks
    BY <2>2, ClerksMoveNot
  <2>5. Credit' = Credit + 1
    BY <1>5, <2>2 DEF Credit
  <2>6. QED
    BY <1>1, <1>3, <2>2, <2>3, <2>4, <2>5, StillPaid
<1>7. CASE UNCHANGED reportVars
  <2>1. OwedReports' \subseteq OwedReports
    BY <1>7, RoundsMoveNot DEF reportVars
  <2>2. OwedClerks' \subseteq OwedClerks
    BY <1>7, ClerksMoveNot DEF reportVars
  <2>3. Credit <= Credit'
    BY <1>5, <1>7 DEF Credit, reportVars
  <2>4. QED
    BY <1>1, <1>3, <1>7, <2>1, <2>2, <2>3, StillPaid DEF reportVars
<1>8. QED
  BY <1>1, <1>3, <1>4, <1>6, <1>7, RequestsStayPaid, TurnsStayPaid, SavesStayPaid,
     AbortsStayPaid, RoundsStayPaid DEF ReportsNext, Execute

LEMMA MailsInit == ReportsInit => MailsIInv
<1> SUFFICES ASSUME ReportsInit
             PROVE  MailsIInv
  OBVIOUS
<1>1. ReportsTypeOK
  BY TypeInit
<1>2. TasksIInv
  BY <1>1 DEF TasksIInv, OneStored, RunsKnown, RoundsKnow, ClerksKnow,
              ReportsInit, Runners
<1>3. Mailed = {}
  BY DEF Mailed, ReportsInit
<1>4. OwedReports = {} /\ OwedClerks = {}
  BY DEF OwedReports, Owed, Held, OwedClerks, ReportsInit, Runners
<1>5. Credit = 0
  BY DEF Credit, ReportsInit
<1>6. MailsPaid
  BY <1>3, <1>4, <1>5, FS_EmptySet DEF MailsPaid
<1>7. QED
  BY <1>2, <1>6 DEF MailsIInv

\* With one round at a time, dates, requests and executions that died pay for
\* every mail.
THEOREM MailedOnce == ReportsSpec => []MailedOncePerDate
<1>1. MailsIInv => MailedOncePerDate
  <2>1. ASSUME MailsPaid, ReportsTypeOK
        PROVE  Cardinality(Mailed) <= dues + requests + aborts
    <3>1. Cardinality(Mailed) \in Nat /\ Cardinality(OwedReports) \in Nat
          /\ Cardinality(OwedClerks) \in Nat
      BY <2>1, OwedFinite, FS_CardinalityType DEF MailsPaid
    <3>2. requests \in Nat /\ dues \in Nat /\ aborts \in Nat
      BY <2>1, ScheduleAssumption DEF ReportsTypeOK
    <3>3. QED
      BY <2>1, <3>1, <3>2 DEF MailsPaid, Credit
  <2>2. QED
    BY <2>1 DEF MailsIInv, TasksIInv, MailedOncePerDate
<1>2. QED
  BY <1>1, MailsInit, MailsStep, PTL DEF ReportsSpec

=============================================================================

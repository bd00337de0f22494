-------------------------- MODULE FiscalDocuments --------------------------
(***************************************************************************)
(* fiscal-documents.service.ts: invoices, their annulment and credit       *)
(* notes.  Invoices and notes get their number from a row of fiscal_series *)
(* inside a READ COMMITTED transaction that locks the row, if there is one.*)
(* A clerk carries such a request as a Task.                               *)
(*                                                                         *)
(* The unique index (organizer, type, series) binds no row, as no code     *)
(* sets organizer and PostgreSQL takes two NULLs for different: the first  *)
(* two requests of a series may both insert a row for it.  What keeps the  *)
(* numbers apart then is the unique index of the documents.                *)
(*                                                                         *)
(* Money is in cents.  Receivers, currencies and texts are left out; the   *)
(* answers of the tax office are no more than columns nobody writes.       *)
(***************************************************************************)
EXTENDS Integers, FiniteSets

CONSTANTS
    Payments,    \* rows of the payments table
    Amounts,     \* what a payment may amount to, in cents
    Percentages, \* what share a credit note may give back
    Clerks,      \* requests that may be in progress at once
    MaxNotes     \* bound: no note is asked for when there are so many

ASSUME AmountsAssumption == Amounts \subseteq Nat
ASSUME PercentagesAssumption == Percentages \subseteq 1..100
ASSUME ClerksAssumption == IsFiniteSet(Clerks)
ASSUME NotesAssumption == MaxNotes \in Nat

VARIABLES
    amount,  \* the amount of each payment
    settled, \* payments that are COMPLETED
    rows,    \* the table fiscal_series
    docs,    \* the table fiscal_documents
    notes,   \* the table credit_notes
    clerk    \* per clerk: the request in progress (at most one task)

tables == <<rows, docs, notes>>
fiscalVars == <<amount, settled, tables, clerk>>

DocumentSeries == {"B001", "F001"} \* receipts and invoices
NoteSeries == {"BC01", "FC01"}     \* credit notes on the one and the other
Series == DocumentSeries \cup NoteSeries

\* The series of the notes on documents of series s.
NotesOn(s) == IF s = "B001" THEN "BC01" ELSE "FC01"

\* A row is named by the clerk that inserted it, as no clerk inserts a
\* second one while the first is there.
SeriesRow == [series : Series, by : Clerks, last : Nat \ {0}]

DocStatus == {"ISSUED", "VOIDED"} \* the two that are ever written

Doc == [series : DocumentSeries, n : Nat, pay : Payments, status : DocStatus,
        total : Nat, subtotal : Nat, igv : Nat]

Note == [series : NoteSeries, n : Nat, of : DocumentSeries \X Nat,
         percentage : Percentages, total : Nat, subtotal : Nat, igv : Nat]

\* The number is taken under the lock of the row inserted by clerk `by'; it
\* is 0 until then.
DocTask == [step : {"number", "save"}, series : DocumentSeries, n : Nat,
            by : Clerks, pay : Payments]
NoteTask == [step : {"number", "save"}, series : NoteSeries, n : Nat,
             by : Clerks, doc : Doc, percentage : Percentages]
AnnulTask == [step : {"annul"}, doc : Doc]

FiscalTypeOK ==
    /\ amount \in [Payments -> Amounts]
    /\ settled \subseteq Payments
    /\ rows \subseteq SeriesRow
    /\ docs \subseteq Doc
    /\ notes \subseteq Note
    /\ clerk \in [Clerks -> SUBSET (DocTask \cup NoteTask \cup AnnulTask)]

FiscalInit ==
    /\ amount \in [Payments -> Amounts]
    /\ settled = {}
    /\ rows = {}
    /\ docs = {}
    /\ notes = {}
    /\ clerk = [c \in Clerks |-> {}]

-----------------------------------------------------------------------------

Take(c, task) == clerk[c] = {} /\ clerk' = [clerk EXCEPT ![c] = {task}]

Close(c) == clerk' = [clerk EXCEPT ![c] = {}]

\* A payment is completed.  What a refund does to it later only keeps it from
\* getting a document, as if it had not been completed yet.
Settle(p) ==
    /\ p \notin settled
    /\ settled' = settled \cup {p}
    /\ UNCHANGED <<amount, tables, clerk>>

\* toFixed(2) of x / d cents; a tie may go either way.
Rounded(x, d) ==
    {n \in {x \div d, x \div d + 1} : 2 * (n * d - x) \in (-d)..d}

\* The total contains a tax of 18 percent.
Subtotal(total) == Rounded(100 * total, 118)

\* The tax worked out of the subtotal, not what is left of the total.
IgvMutant(total, subtotal) == (18 * subtotal + 50) \div 100

Igv(total, subtotal) == total - subtotal

-----------------------------------------------------------------------------
(***************************************************************************)
(* getNextCorrelative(), which createCreditNote() repeats for its series   *)
(***************************************************************************)

Locked(series, by) ==
    \E c \in Clerks : \E t \in clerk[c] :
        t.step = "save" /\ t.series = series /\ t.by = by

\* The counter as the transaction commits it.
SaveRow(t) ==
    rows' = {r \in rows : ~(r.series = t.series /\ r.by = t.by)}
                \cup {[series |-> t.series, by |-> t.by, last |-> t.n]}

\* A transaction goes on with number n of the row that `by' inserted.
Holding(t, n, by) == [t EXCEPT !.step = "save", !.n = n, !.by = by]

Numbered(c, t, n, by) == clerk' = [clerk EXCEPT ![c] = {Holding(t, n, by)}]

\* The row is read without its lock.
NumberMutant(c, t) ==
    /\ t.step = "number"
    /\ \/ /\ \A r \in rows : r.series # t.series
          /\ Numbered(c, t, 1, c)
       \/ \E r \in rows :
             /\ r.series = t.series
             /\ Numbered(c, t, r.last + 1, r.by)
    /\ UNCHANGED <<amount, settled, tables>>

\* The counter is raised on a connection of its own and does not roll back.
NumberEarly(c, t) ==
    /\ t.step = "number"
    /\ \/ /\ \A r \in rows : r.series # t.series
          /\ Numbered(c, t, 1, c)
          /\ SaveRow([t EXCEPT !.n = 1, !.by = c])
       \/ \E r \in rows :
             /\ r.series = t.series
             /\ ~Locked(r.series, r.by)
             /\ Numbered(c, t, r.last + 1, r.by)
             /\ SaveRow([t EXCEPT !.n = r.last + 1, !.by = r.by])
    /\ UNCHANGED <<amount, settled, docs, notes>>

\* Lock the row of the series and raise its counter, or make a new one.
Number(c, t) ==
    /\ t.step = "number"
    /\ \/ /\ \A r \in rows : r.series # t.series
          /\ Numbered(c, t, 1, c)
       \/ \E r \in rows :
             /\ r.series = t.series
             /\ ~Locked(r.series, r.by)
             /\ Numbered(c, t, r.last + 1, r.by)
    /\ UNCHANGED <<amount, settled, tables>>

\* The unique indexes of fiscal_documents and credit_notes.
Issued == {<<d.series, d.n>> : d \in docs} \cup {<<m.series, m.n>> : m \in notes}

IsFreeMutant(t) == TRUE

IsFree(t) == <<t.series, t.n>> \notin Issued

\* The failed insert leaves its transaction open.
RefusedMutant(c, t) ==
    t.step = "save" /\ ~IsFree(t) /\ UNCHANGED fiscalVars

\* An index refuses the insert, and the counter rolls back with it.
Refused(c, t) ==
    /\ t.step = "save"
    /\ ~IsFree(t)
    /\ Close(c)
    /\ UNCHANGED <<amount, settled, tables>>

-----------------------------------------------------------------------------
(***************************************************************************)
(* Invoices and receipts                                                   *)
(***************************************************************************)

\* Whether the payment has a document is not asked.
DocReadMutant(c, p, series) ==
    /\ p \in settled
    /\ Take(c, [step |-> "number", series |-> series, n |-> 0, by |-> c, pay |-> p])
    /\ UNCHANGED <<amount, settled, tables>>

\* createDocument(): the payment is complete and has no document yet, not
\* even an annulled one ...
DocRead(c, p, series) ==
    /\ p \in settled
    /\ \A d \in docs : d.pay # p
    /\ Take(c, [step |-> "number", series |-> series, n |-> 0, by |-> c, pay |-> p])
    /\ UNCHANGED <<amount, settled, tables>>

\* ... and, its number taken, it is inserted and the transaction commits.
DocSave(c, t) ==
    /\ t.step = "save"
    /\ t.series \in DocumentSeries
    /\ IsFree(t)
    /\ \E subtotal \in Subtotal(amount[t.pay]) :
          docs' = docs \cup
              {[series |-> t.series, n |-> t.n, pay |-> t.pay, status |-> "ISSUED",
                total |-> amount[t.pay], subtotal |-> subtotal,
                igv |-> Igv(amount[t.pay], subtotal)]}
    /\ SaveRow(t)
    /\ Close(c)
    /\ UNCHANGED <<amount, settled, notes>>

\* voidDocument(): load a document at most seven days old.  Any may still
\* be, since a request that is refused changes nothing ...
AnnulRead(c, d) ==
    /\ d.status # "VOIDED"
    /\ Take(c, [step |-> "annul", doc |-> d])
    /\ UNCHANGED <<amount, settled, tables>>

\* ... and save it.
AnnulSave(c, t) ==
    /\ t.step = "annul"
    /\ docs' = {d \in docs : ~(d.series = t.doc.series /\ d.n = t.doc.n)}
                   \cup {[t.doc EXCEPT !.status = "VOIDED"]}
    /\ Close(c)
    /\ UNCHANGED <<amount, settled, rows, notes>>

-----------------------------------------------------------------------------
(***************************************************************************)
(* Credit notes                                                            *)
(***************************************************************************)

\* createCreditNote(): load the document ...
NoteRead(c, d, percentage) ==
    /\ d.status = "ISSUED"
    /\ Cardinality(notes) < MaxNotes
    /\ Take(c, [step |-> "number", series |-> NotesOn(d.series), n |-> 0, by |-> c,
                doc |-> d, percentage |-> percentage])
    /\ UNCHANGED <<amount, settled, tables>>

Share(t) == Rounded(t.doc.total * t.percentage, 100)

\* ... and insert a note for a share of its total.
NoteSave(c, t) ==
    /\ t.step = "save"
    /\ t.series \in NoteSeries
    /\ IsFree(t)
    /\ \E total \in Share(t) : \E subtotal \in Subtotal(total) :
          notes' = notes \cup
              {[series |-> t.series, n |-> t.n, of |-> <<t.doc.series, t.doc.n>>,
                percentage |-> t.percentage, total |-> total, subtotal |-> subtotal,
                igv |-> Igv(total, subtotal)]}
    /\ SaveRow(t)
    /\ Close(c)
    /\ UNCHANGED <<amount, settled, docs>>

\* A failure or a restart: the open transaction rolls back.
ClerkFail(c) ==
    /\ clerk[c] # {}
    /\ Close(c)
    /\ UNCHANGED <<amount, settled, tables>>

-----------------------------------------------------------------------------

\* What goes on by itself once a number is taken or a document is loaded.
Commit(c) ==
    \E t \in clerk[c] :
        DocSave(c, t) \/ NoteSave(c, t) \/ Refused(c, t) \/ AnnulSave(c, t)

FiscalNext ==
    \/ \E p \in Payments : Settle(p)
    \/ \E c \in Clerks :
          \/ \E p \in Payments, s \in DocumentSeries : DocRead(c, p, s)
          \/ \E d \in docs : AnnulRead(c, d)
          \/ \E d \in docs, q \in Percentages : NoteRead(c, d, q)
          \/ \E t \in clerk[c] : Number(c, t)
          \/ Commit(c)
          \/ ClerkFail(c)

\* PostgreSQL serves those who wait for a row in turn, so whoever is able to
\* lock it again and again gets it; an open transaction goes on.
FiscalFairness ==
    \A c \in Clerks :
        /\ SF_fiscalVars(\E t \in clerk[c] : Number(c, t))
        /\ WF_fiscalVars(Commit(c))

FiscalSpec == FiscalInit /\ [][FiscalNext]_fiscalVars /\ FiscalFairness

-----------------------------------------------------------------------------
(***************************************************************************)
(* Properties                                                              *)
(***************************************************************************)

\* Every series has one row, though two requests may both have inserted one
\* and no index refuses the second; no two documents share a number; and the
\* counter never runs ahead of the documents, although requests die between
\* taking a number and using it.
OneCounter ==
    /\ \A s \in Series :
          LET counters == {r \in rows : r.series = s}
              numbers == {i[2] : i \in {j \in Issued : j[1] = s}}
          IN  \/ counters = {} /\ numbers = {}
              \/ \E r \in counters : counters = {r} /\ numbers = 1..r.last
    /\ \A d, e \in docs : <<d.series, d.n>> = <<e.series, e.n>> => d = e
    /\ \A m, o \in notes : <<m.series, m.n>> = <<o.series, o.n>> => m = o

\* Once a series has its row, the lock saves everybody from the index: only
\* who found no row may have taken a number in vain.
OnlyFirstRefused ==
    \A c \in Clerks : \A t \in clerk[c] :
        t.step = "save" /\ ~IsFree(t) => t.by = c /\ t.n = 1

\* createDocument() and createCreditNote() number as the tax office asks:
\* from 1 upwards, without a gap and without a repetition.
Numbers == INSTANCE Numbering WITH used <- Issued
KeepsNumbering == Numbers!NumberingSpec

\* The search for a document of the payment is outside the transaction, so
\* requests sent together may all pass it, but no more documents of one
\* payment are issued than there were requests in progress.
NumbersOf(p) == {<<d.series, d.n>> : d \in {e \in docs : e.pay = p}}

DocumentsBounded ==
    \A p \in Payments : Cardinality(NumbersOf(p)) <= Cardinality(Clerks)

\* On every document and note the net amount and the tax make up the total,
\* and the tax is 18 percent of the net amount but for the rounding of one
\* cent; a note is its percentage of a document that is still there, at the
\* amounts it was issued with.
AmountsAddUp ==
    /\ \A x \in docs \cup notes :
          /\ x.subtotal + x.igv = x.total
          /\ 100 * x.igv - 18 * x.subtotal \in -59..59
    /\ \A m \in notes : \E d \in docs :
          /\ m.of = <<d.series, d.n>>
          /\ 2 * (100 * m.total - m.percentage * d.total) \in -100..100

\* However many wait for one series, everybody gets through.
RequestsEnd == \A c \in Clerks : clerk[c] # {} ~> clerk[c] = {}

=============================================================================

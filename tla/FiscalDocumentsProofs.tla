----------------------- MODULE FiscalDocumentsProofs -----------------------
(***************************************************************************)
(* Theorems about FiscalDocuments.  The inductive invariant says what a    *)
(* request in progress knows: the number it holds is the next one of the   *)
(* row it has locked, or it is the 1 of a row that is not there yet.       *)
(***************************************************************************)
EXTENDS FiscalDocuments, FiniteSetTheorems, TLAPS

\* Either the request found no row and starts the series, or the row it holds
\* stands just below its number.
TasksKnow ==
    \A c \in Clerks : \A t \in clerk[c] :
        t.step = "save" =>
            \/ /\ t.n = 1 /\ t.by = c
               /\ \A r \in rows : r.series = t.series => r.by # c
            \/ \E r \in rows :
                  r.series = t.series /\ r.by = t.by /\ t.n = r.last + 1

\* No row is held twice, and a clerk has at most one request.
LocksExclude ==
    /\ \A c \in Clerks : \A t, u \in clerk[c] : t = u
    /\ \A c, d \in Clerks : \A t \in clerk[c], u \in clerk[d] :
          /\ t.step = "save" /\ u.step = "save"
          /\ t.series = u.series /\ t.by = u.by
          => c = d

\* A document in memory is the stored one but for its status.
SameDoc(d, e) ==
    /\ d.series = e.series /\ d.n = e.n /\ d.pay = e.pay
    /\ d.total = e.total /\ d.subtotal = e.subtotal /\ d.igv = e.igv

DocsKnown ==
    \A c \in Clerks : \A t \in clerk[c] :
        t \in NoteTask \cup AnnulTask => \E d \in docs : SameDoc(t.doc, d)

\* The requests that passed the search for a document of payment p.
Passed(p) == {c \in Clerks : \E t \in clerk[c] : t \in DocTask /\ t.pay = p}

DocumentsCovered ==
    \A p \in Payments :
        /\ IsFiniteSet(NumbersOf(p))
        /\ Cardinality(NumbersOf(p)) + Cardinality(Passed(p)) <= Cardinality(Clerks)

FiscalIInv ==
    /\ FiscalTypeOK
    /\ OneCounter
    /\ TasksKnow
    /\ LocksExclude
    /\ DocsKnown
    /\ AmountsAddUp
    /\ DocumentsCovered

-----------------------------------------------------------------------------
(***************************************************************************)
(* Arithmetic                                                              *)
(***************************************************************************)

\* What toFixed leaves of a quotient is a whole number of cents.
LEMMA RoundedType ==
    ASSUME NEW x \in Nat, NEW d \in Nat \ {0}, NEW n \in Rounded(x, d)
    PROVE  n \in Nat
  BY DEF Rounded

\* The net amount is part of the total, and what is left is the tax.
LEMMA SubtotalBounds ==
    ASSUME NEW total \in Nat, NEW subtotal \in Subtotal(total)
    PROVE  /\ subtotal \in Nat
           /\ Igv(total, subtotal) \in Nat
           /\ subtotal + Igv(total, subtotal) = total
           /\ 100 * Igv(total, subtotal) - 18 * subtotal \in -59..59
  <1>1. subtotal \in Nat
    BY RoundedType, 100 * total \in Nat DEF Subtotal
  <1>2. 2 * (subtotal * 118 - 100 * total) \in (-118)..118
    BY DEF Subtotal, Rounded
  <1>. QED  BY <1>1, <1>2 DEF Igv

\* A note is its percentage of the document to within half a cent.
LEMMA ShareBounds ==
    ASSUME NEW t, t.doc.total \in Nat, t.percentage \in 1..100,
           NEW total \in Share(t)
    PROVE  /\ total \in Nat
           /\ 2 * (100 * total - t.percentage * t.doc.total) \in -100..100
  <1>1. t.doc.total * t.percentage \in Nat
    OBVIOUS
  <1>2. total \in Nat
    BY <1>1, RoundedType DEF Share
  <1>3. 2 * (total * 100 - t.doc.total * t.percentage) \in (-100)..100
    BY <1>1, <1>2 DEF Share, Rounded
  <1>. QED  BY <1>2, <1>3

-----------------------------------------------------------------------------
(***************************************************************************)
(* Types                                                                   *)
(***************************************************************************)

\* A request on its way to a number has a series of its own kind.
LEMMA TaskKinds ==
    ASSUME NEW t \in DocTask \cup NoteTask \cup AnnulTask
    PROVE  /\ t \in AnnulTask <=> t.step = "annul"
           /\ t.step # "annul" => t.series \in Series
           /\ t \in DocTask <=> t.step # "annul" /\ t.series \in DocumentSeries
           /\ t \in NoteTask <=> t.step # "annul" /\ t.series \in NoteSeries
  BY DEF DocTask, NoteTask, AnnulTask, Series, DocumentSeries, NoteSeries

\* Taking a number leaves a request what it is.
LEMMA NumberedType ==
    ASSUME NEW t \in DocTask \cup NoteTask, NEW n \in Nat, NEW by \in Clerks
    PROVE  LET u == Holding(t, n, by) IN
           /\ t \in DocTask => u \in DocTask /\ u.pay = t.pay
           /\ t \in NoteTask => u \in NoteTask /\ u.doc = t.doc
           /\ u.step = "save" /\ u.series = t.series /\ u.n = n /\ u.by = by
  BY DEF DocTask, NoteTask, Holding

\* Number gives t either the first number of a series or the next one.
LEMMA NumberCases ==
    ASSUME FiscalTypeOK, NEW c \in Clerks, NEW t \in clerk[c], Number(c, t)
    PROVE  \E n \in Nat, by \in Clerks :
              /\ t \in DocTask \cup NoteTask
              /\ clerk' = [clerk EXCEPT ![c] = {Holding(t, n, by)}]
              /\ \/ /\ \A r \in rows : r.series # t.series
                    /\ n = 1 /\ by = c
                 \/ \E r \in rows :
                       /\ r.series = t.series /\ r.by = by /\ n = r.last + 1
                       /\ ~Locked(r.series, r.by)
              /\ UNCHANGED <<amount, settled, rows, docs, notes>>
  <1>1. t \in DocTask \cup NoteTask
    BY TaskKinds DEF FiscalTypeOK, Number
  <1>2. \A r \in rows : r.by \in Clerks /\ r.last + 1 \in Nat
    BY DEF FiscalTypeOK, SeriesRow
  <1>. QED  BY <1>1, <1>2 DEF Number, Numbered, tables

\* The document a request inserts.
LEMMA DocSaveType ==
    ASSUME FiscalTypeOK, NEW c \in Clerks, NEW t \in clerk[c], DocSave(c, t)
    PROVE  /\ t \in DocTask
           /\ \E d \in Doc :
                 /\ docs' = docs \cup {d}
                 /\ d.series = t.series /\ d.n = t.n /\ d.pay = t.pay
                 /\ d.subtotal + d.igv = d.total
                 /\ 100 * d.igv - 18 * d.subtotal \in -59..59
  <1>1. t \in DocTask
    BY TaskKinds DEF FiscalTypeOK, DocSave
  <1>2. amount[t.pay] \in Nat
    BY <1>1, AmountsAssumption DEF FiscalTypeOK, DocTask
  <1>3. PICK subtotal \in Subtotal(amount[t.pay]) :
           docs' = docs \cup
              {[series |-> t.series, n |-> t.n, pay |-> t.pay, status |-> "ISSUED",
                total |-> amount[t.pay], subtotal |-> subtotal,
                igv |-> Igv(amount[t.pay], subtotal)]}
    BY DEF DocSave
  <1>4. /\ subtotal \in Nat
        /\ Igv(amount[t.pay], subtotal) \in Nat
        /\ subtotal + Igv(amount[t.pay], subtotal) = amount[t.pay]
        /\ 100 * Igv(amount[t.pay], subtotal) - 18 * subtotal \in -59..59
    BY <1>2, SubtotalBounds
  <1>. DEFINE d == [series |-> t.series, n |-> t.n, pay |-> t.pay, status |-> "ISSUED",
                    total |-> amount[t.pay], subtotal |-> subtotal,
                    igv |-> Igv(amount[t.pay], subtotal)]
  <1>5. d \in Doc
    BY <1>1, <1>2, <1>4 DEF Doc, DocTask, DocStatus
  <1>6. /\ d.series = t.series /\ d.n = t.n /\ d.pay = t.pay
        /\ d.subtotal + d.igv = d.total
        /\ 100 * d.igv - 18 * d.subtotal \in -59..59
    BY <1>4
  <1>. QED  BY <1>1, <1>3, <1>5, <1>6

\* The note a request inserts.
LEMMA NoteSaveType ==
    ASSUME FiscalTypeOK, NEW c \in Clerks, NEW t \in clerk[c], NoteSave(c, t)
    PROVE  /\ t \in NoteTask
           /\ \E m \in Note :
                 /\ notes' = notes \cup {m}
                 /\ m.series = t.series /\ m.n = t.n
                 /\ m.of = <<t.doc.series, t.doc.n>>
                 /\ m.subtotal + m.igv = m.total
                 /\ 100 * m.igv - 18 * m.subtotal \in -59..59
                 /\ 2 * (100 * m.total - m.percentage * t.doc.total) \in -100..100
  <1>1. t \in NoteTask
    BY TaskKinds DEF FiscalTypeOK, NoteSave
  <1>2. /\ t.doc \in Doc /\ t.doc.total \in Nat /\ t.percentage \in Percentages
        /\ t.percentage \in 1..100
    BY <1>1, PercentagesAssumption DEF NoteTask, Doc
  <1>3. PICK total \in Share(t) : \E subtotal \in Subtotal(total) :
           notes' = notes \cup
              {[series |-> t.series, n |-> t.n, of |-> <<t.doc.series, t.doc.n>>,
                percentage |-> t.percentage, total |-> total, subtotal |-> subtotal,
                igv |-> Igv(total, subtotal)]}
    BY DEF NoteSave
  <1>4. PICK subtotal \in Subtotal(total) :
           notes' = notes \cup
              {[series |-> t.series, n |-> t.n, of |-> <<t.doc.series, t.doc.n>>,
                percentage |-> t.percentage, total |-> total, subtotal |-> subtotal,
                igv |-> Igv(total, subtotal)]}
    BY <1>3
  <1>5. /\ total \in Nat
        /\ 2 * (100 * total - t.percentage * t.doc.total) \in -100..100
    BY <1>2, ShareBounds
  <1>6. /\ subtotal \in Nat
        /\ Igv(total, subtotal) \in Nat
        /\ subtotal + Igv(total, subtotal) = total
        /\ 100 * Igv(total, subtotal) - 18 * subtotal \in -59..59
    BY <1>5, SubtotalBounds
  <1>. DEFINE m == [series |-> t.series, n |-> t.n, of |-> <<t.doc.series, t.doc.n>>,
                    percentage |-> t.percentage, total |-> total,
                    subtotal |-> subtotal, igv |-> Igv(total, subtotal)]
  <1>7. m \in Note
    BY <1>1, <1>2, <1>5, <1>6 DEF Note, NoteTask, Doc
  <1>8. /\ m.series = t.series /\ m.n = t.n /\ m.of = <<t.doc.series, t.doc.n>>
        /\ m.subtotal + m.igv = m.total
        /\ 100 * m.igv - 18 * m.subtotal \in -59..59
        /\ 2 * (100 * m.total - m.percentage * t.doc.total) \in -100..100
    BY <1>5, <1>6
  <1>. QED  BY <1>1, <1>4, <1>7, <1>8

\* The row that is committed with a document or a note.
LEMMA SaveRowType ==
    ASSUME FiscalTypeOK, NEW t \in DocTask \cup NoteTask, SaveRow(t),
           t.n \in Nat \ {0}
    PROVE  rows' \subseteq SeriesRow
  BY DEF FiscalTypeOK, SeriesRow, SaveRow, DocTask, NoteTask, Series

\* An annulled document is one.
LEMMA AnnulType ==
    ASSUME FiscalTypeOK, NEW c \in Clerks, NEW t \in clerk[c], AnnulSave(c, t)
    PROVE  /\ t \in AnnulTask
           /\ [t.doc EXCEPT !.status = "VOIDED"] \in Doc
           /\ SameDoc(t.doc, [t.doc EXCEPT !.status = "VOIDED"])
  <1>1. t \in AnnulTask
    BY TaskKinds DEF FiscalTypeOK, AnnulSave
  <1>. QED  BY <1>1 DEF AnnulTask, Doc, DocStatus, SameDoc

\* Numbers in the hands of a request that saves are positive.
LEMMA PositiveNumber ==
    ASSUME FiscalTypeOK, TasksKnow, NEW c \in Clerks, NEW t \in clerk[c],
           t.step = "save"
    PROVE  t.n \in Nat \ {0}
  BY DEF FiscalTypeOK, TasksKnow, SeriesRow

\* What each action does to the request of a clerk.
LEMMA TakeType ==
    ASSUME FiscalTypeOK, NEW c \in Clerks,
           NEW task \in DocTask \cup NoteTask \cup AnnulTask, Take(c, task)
    PROVE  clerk' \in [Clerks -> SUBSET (DocTask \cup NoteTask \cup AnnulTask)]
  BY DEF FiscalTypeOK, Take

LEMMA CloseType ==
    ASSUME FiscalTypeOK, NEW c \in Clerks, Close(c)
    PROVE  clerk' \in [Clerks -> SUBSET (DocTask \cup NoteTask \cup AnnulTask)]
  BY DEF FiscalTypeOK, Close

\* The three requests as they are taken.
LEMMA NewTasks ==
    ASSUME FiscalTypeOK, NEW c \in Clerks
    PROVE  /\ \A p \in Payments, s \in DocumentSeries : DocRead(c, p, s) =>
                 \E t \in DocTask : Take(c, t) /\ t.step # "save" /\ t.pay = p
           /\ \A d \in docs, q \in Percentages : NoteRead(c, d, q) =>
                 \E t \in NoteTask : Take(c, t) /\ t.step # "save" /\ t.doc = d
           /\ \A d \in docs : AnnulRead(c, d) =>
                 \E t \in AnnulTask : Take(c, t) /\ t.step # "save" /\ t.doc = d
  <1>1. ASSUME NEW p \in Payments, NEW s \in DocumentSeries, DocRead(c, p, s)
        PROVE  \E t \in DocTask : Take(c, t) /\ t.step # "save" /\ t.pay = p
    <2>. DEFINE t == [step |-> "number", series |-> s, n |-> 0, by |-> c, pay |-> p]
    <2>1. t \in DocTask /\ t.step # "save" /\ t.pay = p
      BY DEF DocTask
    <2>2. Take(c, t)
      BY <1>1 DEF DocRead
    <2>. QED  BY <2>1, <2>2
  <1>2. ASSUME NEW d \in docs, NEW q \in Percentages, NoteRead(c, d, q)
        PROVE  \E t \in NoteTask : Take(c, t) /\ t.step # "save" /\ t.doc = d
    <2>. DEFINE t == [step |-> "number", series |-> NotesOn(d.series), n |-> 0,
                      by |-> c, doc |-> d, percentage |-> q]
    <2>1. t \in NoteTask /\ t.step # "save" /\ t.doc = d
      BY DEF FiscalTypeOK, NoteTask, NotesOn, NoteSeries
    <2>2. Take(c, t)
      BY <1>2 DEF NoteRead
    <2>. QED  BY <2>1, <2>2
  <1>3. ASSUME NEW d \in docs, AnnulRead(c, d)
        PROVE  \E t \in AnnulTask : Take(c, t) /\ t.step # "save" /\ t.doc = d
    <2>. DEFINE t == [step |-> "annul", doc |-> d]
    <2>1. t \in AnnulTask /\ t.step # "save" /\ t.doc = d
      BY DEF FiscalTypeOK, AnnulTask
    <2>2. Take(c, t)
      BY <1>3 DEF AnnulRead
    <2>. QED  BY <2>1, <2>2
  <1>. QED  BY <1>1, <1>2, <1>3

LEMMA FiscalTypeStep ==
    ASSUME FiscalTypeOK, TasksKnow, [FiscalNext]_fiscalVars
    PROVE  FiscalTypeOK'
  <1>1. ASSUME NEW p \in Payments, Settle(p)
        PROVE  FiscalTypeOK'
    BY <1>1 DEF FiscalTypeOK, Settle, tables
  <1>2. ASSUME NEW c \in Clerks, NEW p \in Payments, NEW s \in DocumentSeries,
               DocRead(c, p, s)
        PROVE  FiscalTypeOK'
    <2>1. clerk' \in [Clerks -> SUBSET (DocTask \cup NoteTask \cup AnnulTask)]
      BY <1>2, NewTasks, TakeType DEF DocRead
    <2>. QED  BY <1>2, <2>1 DEF FiscalTypeOK, DocRead, tables
  <1>3. ASSUME NEW c \in Clerks, NEW d \in docs, AnnulRead(c, d)
        PROVE  FiscalTypeOK'
    <2>1. clerk' \in [Clerks -> SUBSET (DocTask \cup NoteTask \cup AnnulTask)]
      BY <1>3, NewTasks, TakeType DEF AnnulRead
    <2>. QED  BY <1>3, <2>1 DEF FiscalTypeOK, AnnulRead, tables
  <1>4. ASSUME NEW c \in Clerks, NEW d \in docs, NEW q \in Percentages,
               NoteRead(c, d, q)
        PROVE  FiscalTypeOK'
    <2>1. clerk' \in [Clerks -> SUBSET (DocTask \cup NoteTask \cup AnnulTask)]
      BY <1>4, NewTasks, TakeType DEF NoteRead
    <2>. QED  BY <1>4, <2>1 DEF FiscalTypeOK, NoteRead, tables
  <1>5. ASSUME NEW c \in Clerks, NEW t \in clerk[c], Number(c, t)
        PROVE  FiscalTypeOK'
    <2>1. PICK n \in Nat, by \in Clerks :
             /\ t \in DocTask \cup NoteTask
             /\ clerk' = [clerk EXCEPT ![c] = {Holding(t, n, by)}]
      BY <1>5, NumberCases
    <2>2. Holding(t, n, by) \in DocTask \cup NoteTask
      BY <2>1, NumberedType
    <2>. QED  BY <1>5, <2>1, <2>2 DEF FiscalTypeOK, Number, tables
  <1>6. ASSUME NEW c \in Clerks, NEW t \in clerk[c], DocSave(c, t)
        PROVE  FiscalTypeOK'
    <2>1. t \in DocTask /\ docs' \subseteq Doc
      BY <1>6, DocSaveType DEF FiscalTypeOK
    <2>2. rows' \subseteq SeriesRow
      BY <1>6, <2>1, PositiveNumber, SaveRowType DEF DocSave
    <2>3. clerk' \in [Clerks -> SUBSET (DocTask \cup NoteTask \cup AnnulTask)]
      BY <1>6, CloseType DEF DocSave
    <2>. QED  BY <1>6, <2>1, <2>2, <2>3 DEF FiscalTypeOK, DocSave
  <1>7. ASSUME NEW c \in Clerks, NEW t \in clerk[c], NoteSave(c, t)
        PROVE  FiscalTypeOK'
    <2>1. t \in NoteTask /\ notes' \subseteq Note
      BY <1>7, NoteSaveType DEF FiscalTypeOK
    <2>2. rows' \subseteq SeriesRow
      BY <1>7, <2>1, PositiveNumber, SaveRowType DEF NoteSave
    <2>3. clerk' \in [Clerks -> SUBSET (DocTask \cup NoteTask \cup AnnulTask)]
      BY <1>7, CloseType DEF NoteSave
    <2>. QED  BY <1>7, <2>1, <2>2, <2>3 DEF FiscalTypeOK, NoteSave
  <1>8. ASSUME NEW c \in Clerks, NEW t \in clerk[c], Refused(c, t)
        PROVE  FiscalTypeOK'
    BY <1>8, CloseType DEF FiscalTypeOK, Refused, tables
  <1>9. ASSUME NEW c \in Clerks, NEW t \in clerk[c], AnnulSave(c, t)
        PROVE  FiscalTypeOK'
    BY <1>9, AnnulType, CloseType DEF FiscalTypeOK, AnnulSave
  <1>10. ASSUME NEW c \in Clerks, ClerkFail(c)
         PROVE  FiscalTypeOK'
    BY <1>10, CloseType DEF FiscalTypeOK, ClerkFail, tables
  <1>11. CASE UNCHANGED fiscalVars
    BY <1>11 DEF FiscalTypeOK, fiscalVars, tables
  <1>. QED
    BY <1>1, <1>2, <1>3, <1>4, <1>5, <1>6, <1>7, <1>8, <1>9, <1>10, <1>11
    DEF FiscalNext, Commit

-----------------------------------------------------------------------------
(***************************************************************************)
(* Locks and numbers                                                       *)
(***************************************************************************)

\* Requests are only ever taken by idle clerks, numbered, or closed.
LEMMA LocksStep ==
    ASSUME FiscalTypeOK, LocksExclude, TasksKnow, [FiscalNext]_fiscalVars
    PROVE  LocksExclude'
  <1>1. ASSUME NEW c \in Clerks, NEW task, task.step # "save", Take(c, task)
        PROVE  LocksExclude'
    BY <1>1 DEF FiscalTypeOK, LocksExclude, Take
  <1>2. ASSUME NEW c \in Clerks, Close(c)
        PROVE  LocksExclude'
    BY <1>2 DEF FiscalTypeOK, LocksExclude, Close
  <1>3. ASSUME NEW c \in Clerks, NEW t \in clerk[c], Number(c, t)
        PROVE  LocksExclude'
    <2>1. PICK n \in Nat, by \in Clerks :
              /\ t \in DocTask \cup NoteTask
              /\ clerk' = [clerk EXCEPT ![c] = {Holding(t, n, by)}]
              /\ \/ /\ \A r \in rows : r.series # t.series
                    /\ n = 1 /\ by = c
                 \/ \E r \in rows :
                       /\ r.series = t.series /\ r.by = by /\ n = r.last + 1
                       /\ ~Locked(r.series, r.by)
      BY <1>3, NumberCases
    <2>2. PICK u : /\ u = Holding(t, n, by)
                   /\ u.step = "save" /\ u.series = t.series /\ u.by = by
      BY <2>1, NumberedType
    <2>3. clerk'[c] = {u} /\ \A d \in Clerks \ {c} : clerk'[d] = clerk[d]
      BY <2>1, <2>2 DEF FiscalTypeOK
    <2>4. ASSUME NEW d \in Clerks \ {c}, NEW v \in clerk[d],
                 v.step = "save", v.series = t.series, v.by = by
          PROVE  FALSE
      <3>1. CASE (\A r \in rows : r.series # t.series) /\ by = c
        BY <2>4, <3>1 DEF TasksKnow
      <3>2. CASE \E r \in rows :
                    r.series = t.series /\ r.by = by /\ ~Locked(r.series, r.by)
        BY <2>4, <3>2 DEF Locked
      <3>. QED  BY <2>1, <3>1, <3>2
    <2>. QED  BY <2>2, <2>3, <2>4 DEF LocksExclude
  <1>4. CASE UNCHANGED <<clerk>>
    BY <1>4 DEF LocksExclude
  <1>5. ASSUME NEW c \in Clerks, NEW p \in Payments, NEW s \in DocumentSeries,
               DocRead(c, p, s)
        PROVE  LocksExclude'
    BY <1>1, <1>5, NewTasks
  <1>6. ASSUME NEW c \in Clerks, NEW d \in docs, AnnulRead(c, d)
        PROVE  LocksExclude'
    BY <1>1, <1>6, NewTasks
  <1>7. ASSUME NEW c \in Clerks, NEW d \in docs, NEW q \in Percentages,
               NoteRead(c, d, q)
        PROVE  LocksExclude'
    BY <1>1, <1>7, NewTasks
  <1>. QED
    BY <1>2, <1>3, <1>4, <1>5, <1>6, <1>7
    DEF FiscalNext, Commit, Settle, DocSave, NoteSave, Refused, AnnulSave, ClerkFail,
        fiscalVars

\* The two halves of OneCounter, by membership.
Counts ==
    \A s \in Series :
        \/ /\ \A r \in rows : r.series # s
           /\ \A n \in Nat : <<s, n>> \notin Issued
        \/ \E r \in rows :
              /\ r.series = s
              /\ \A q \in rows : q.series = s => q = r
              /\ \A n \in Nat : <<s, n>> \in Issued <=> n \in 1..r.last

Unique ==
    /\ \A d, e \in docs : <<d.series, d.n>> = <<e.series, e.n>> => d = e
    /\ \A m, o \in notes : <<m.series, m.n>> = <<o.series, o.n>> => m = o

\* What is issued is a pair of a series and a number.
LEMMA IssuedType ==
    ASSUME FiscalTypeOK
    PROVE  Issued \subseteq Series \X Nat
  BY DEF FiscalTypeOK, Issued, Doc, Note, Series

LEMMA CounterParts ==
    ASSUME FiscalTypeOK
    PROVE  OneCounter <=> Counts /\ Unique
  <1>. DEFINE numbers(s) == {i[2] : i \in {j \in Issued : j[1] = s}}
  <1>1. \A s : \A n : n \in numbers(s) <=> <<s, n>> \in Issued
    BY IssuedType
  <1>2. \A s : numbers(s) \subseteq Nat
    BY <1>1, IssuedType
  <1>3. \A r \in rows : r.last \in Nat \ {0} /\ 1..r.last \subseteq Nat
    BY DEF FiscalTypeOK, SeriesRow
  <1>4. ASSUME NEW s \in Series
        PROVE  /\ numbers(s) = {} <=> \A n \in Nat : <<s, n>> \notin Issued
               /\ \A r \in rows : numbers(s) = 1..r.last
                     <=> \A n \in Nat : <<s, n>> \in Issued <=> n \in 1..r.last
    <2>1. numbers(s) = {} <=> \A n \in Nat : <<s, n>> \notin Issued
      BY <1>1, <1>2
    <2>2. ASSUME NEW r \in rows
          PROVE  numbers(s) = 1..r.last
                     <=> \A n \in Nat : <<s, n>> \in Issued <=> n \in 1..r.last
      BY <1>1, <1>2, <1>3
    <2>. QED  BY <2>1, <2>2
  <1>5. ASSUME NEW s \in Series
        PROVE  /\ {r \in rows : r.series = s} = {} <=> \A r \in rows : r.series # s
               /\ \A r \in {q \in rows : q.series = s} :
                     {q \in rows : q.series = s} = {r}
                         <=> \A q \in rows : q.series = s => q = r
    OBVIOUS
  <1>. HIDE DEF numbers
  <1>6. OneCounter <=>
           /\ \A s \in Series :
                 \/ {r \in rows : r.series = s} = {} /\ numbers(s) = {}
                 \/ \E r \in {q \in rows : q.series = s} :
                       {q \in rows : q.series = s} = {r} /\ numbers(s) = 1..r.last
           /\ Unique
    BY DEF OneCounter, Unique, numbers
  <1>. QED  BY <1>4, <1>5, <1>6 DEF Counts

\* Committing a free number moves the counter of its series, and the numbers,
\* by one.
LEMMA CountsSave ==
    ASSUME FiscalTypeOK, Counts, TasksKnow,
           NEW c \in Clerks, NEW t \in clerk[c], t \in DocTask \cup NoteTask,
           t.step = "save", IsFree(t), SaveRow(t),
           Issued' = Issued \cup {<<t.series, t.n>>}
    PROVE  Counts'
  <1>1. t.series \in Series /\ t.n \in Nat \ {0}
    BY PositiveNumber, TaskKinds DEF DocTask, NoteTask
  <1>. DEFINE new == [series |-> t.series, by |-> t.by, last |-> t.n]
  <1>2. rows' = {r \in rows : ~(r.series = t.series /\ r.by = t.by)} \cup {new}
    BY DEF SaveRow
  <1>3. ASSUME NEW s \in Series, s # t.series
        PROVE  \/ /\ \A r \in rows' : r.series # s
                  /\ \A n \in Nat : <<s, n>> \notin Issued'
               \/ \E r \in rows' :
                     /\ r.series = s
                     /\ \A q \in rows' : q.series = s => q = r
                     /\ \A n \in Nat : <<s, n>> \in Issued' <=> n \in 1..r.last
    <2>1. \A r : r.series = s => (r \in rows' <=> r \in rows)
      BY <1>2, <1>3
    <2>2. \A n \in Nat : <<s, n>> \in Issued' <=> <<s, n>> \in Issued
      BY <1>3
    <2>. QED  BY <1>3, <2>1, <2>2 DEF Counts
  <1>4. /\ \A r \in rows' : r.series = t.series => r = new
        /\ \A n \in Nat : <<t.series, n>> \in Issued' <=> n \in 1..t.n
    <2>1. CASE \A r \in rows : r.series # t.series
      <3>1. \A n \in Nat : <<t.series, n>> \notin Issued
        BY <1>1, <2>1 DEF Counts
      <3>2. t.n = 1
        BY <2>1 DEF TasksKnow
      <3>. QED  BY <1>1, <1>2, <2>1, <3>1, <3>2
    <2>2. ASSUME NEW r \in rows, r.series = t.series
          PROVE  <1>4
      <3>1. /\ \A q \in rows : q.series = t.series => q = r
            /\ \A n \in Nat : <<t.series, n>> \in Issued <=> n \in 1..r.last
        BY <1>1, <2>2 DEF Counts
      <3>2. r.last \in Nat \ {0}
        BY DEF FiscalTypeOK, SeriesRow
      <3>3. t.n # 1
        BY <3>1, <3>2 DEF IsFree
      <3>4. r.by = t.by /\ t.n = r.last + 1
        BY <3>1, <3>3 DEF TasksKnow
      <3>. QED  BY <1>1, <1>2, <2>2, <3>1, <3>2, <3>4
    <2>. QED  BY <2>1, <2>2
  <1>5. /\ new \in rows' /\ new.series = t.series
        /\ \A q \in rows' : q.series = t.series => q = new
        /\ \A n \in Nat : <<t.series, n>> \in Issued' <=> n \in 1..new.last
    BY <1>2, <1>4
  <1>. HIDE DEF new
  <1>. QED  BY <1>3, <1>5 DEF Counts

\* The other requests still know what they knew: nobody else holds the row
\* that moved.
LEMMA KnowSave ==
    ASSUME FiscalTypeOK, Counts, TasksKnow, LocksExclude,
           NEW c \in Clerks, NEW t \in clerk[c], t.step = "save", IsFree(t),
           t.series \in Series, SaveRow(t), Close(c)
    PROVE  TasksKnow'
  <1>1. clerk'[c] = {} /\ \A d \in Clerks \ {c} : clerk'[d] = clerk[d]
    BY DEF Close, FiscalTypeOK
  <1>2. ASSUME NEW d \in Clerks \ {c}, NEW u \in clerk[d], u.step = "save"
        PROVE  \/ /\ u.n = 1 /\ u.by = d
                  /\ \A r \in rows' : r.series = u.series => r.by # d
               \/ \E r \in rows' :
                     r.series = u.series /\ r.by = u.by /\ u.n = r.last + 1
    <2>1. ~(t.series = u.series /\ t.by = u.by)
      BY <1>2 DEF LocksExclude
    <2>2. CASE /\ u.n = 1 /\ u.by = d
               /\ \A r \in rows : r.series = u.series => r.by # d
      BY <2>1, <2>2 DEF SaveRow
    <2>3. CASE \E r \in rows :
                  r.series = u.series /\ r.by = u.by /\ u.n = r.last + 1
      BY <2>1, <2>3 DEF SaveRow
    <2>. QED  BY <1>2, <2>2, <2>3 DEF TasksKnow
  <1>. QED  BY <1>1, <1>2 DEF TasksKnow

-----------------------------------------------------------------------------
(***************************************************************************)
(* What the saves do to the documents and notes                            *)
(***************************************************************************)

LEMMA DocSaveEffect ==
    ASSUME FiscalTypeOK, Unique, AmountsAddUp, DocsKnown, LocksExclude,
           NEW c \in Clerks, NEW t \in clerk[c], DocSave(c, t)
    PROVE  /\ Issued' = Issued \cup {<<t.series, t.n>>}
           /\ Unique' /\ AmountsAddUp' /\ DocsKnown'
           /\ t \in DocTask
           /\ \A p \in Payments : NumbersOf(p)' =
                 NumbersOf(p) \cup (IF t.pay = p THEN {<<t.series, t.n>>} ELSE {})
  <1>1. /\ t \in DocTask
        /\ \E d \in Doc :
              /\ docs' = docs \cup {d}
              /\ d.series = t.series /\ d.n = t.n /\ d.pay = t.pay
              /\ d.subtotal + d.igv = d.total
              /\ 100 * d.igv - 18 * d.subtotal \in -59..59
    BY DocSaveType
  <1>2. PICK d \in Doc :
           /\ docs' = docs \cup {d}
           /\ d.series = t.series /\ d.n = t.n /\ d.pay = t.pay
           /\ d.subtotal + d.igv = d.total
           /\ 100 * d.igv - 18 * d.subtotal \in -59..59
    BY <1>1
  <1>3. notes' = notes /\ Close(c) /\ IsFree(t)
    BY DEF DocSave
  <1>4. Issued' = Issued \cup {<<t.series, t.n>>}
    BY <1>2, <1>3 DEF Issued
  <1>5. Unique'
    BY <1>2, <1>3 DEF Unique, IsFree, Issued
  <1>6. AmountsAddUp'
    BY <1>2, <1>3 DEF AmountsAddUp
  <1>7. clerk'[c] = {} /\ \A e \in Clerks \ {c} : clerk'[e] = clerk[e]
    BY <1>3 DEF Close, FiscalTypeOK
  <1>8. DocsKnown'
    BY <1>2, <1>7 DEF DocsKnown
  <1>9. ASSUME NEW p \in Payments
        PROVE  NumbersOf(p)' =
                 NumbersOf(p) \cup (IF t.pay = p THEN {<<t.series, t.n>>} ELSE {})
    BY <1>2 DEF NumbersOf
  <1>. QED  BY <1>1, <1>4, <1>5, <1>6, <1>8, <1>9

LEMMA NoteSaveEffect ==
    ASSUME FiscalTypeOK, Unique, AmountsAddUp, DocsKnown,
           NEW c \in Clerks, NEW t \in clerk[c], NoteSave(c, t)
    PROVE  /\ Issued' = Issued \cup {<<t.series, t.n>>}
           /\ Unique' /\ AmountsAddUp' /\ DocsKnown'
           /\ t \in NoteTask
  <1>1. /\ t \in NoteTask
        /\ \E m \in Note :
              /\ notes' = notes \cup {m}
              /\ m.series = t.series /\ m.n = t.n
              /\ m.of = <<t.doc.series, t.doc.n>>
              /\ m.subtotal + m.igv = m.total
              /\ 100 * m.igv - 18 * m.subtotal \in -59..59
              /\ 2 * (100 * m.total - m.percentage * t.doc.total) \in -100..100
    BY NoteSaveType
  <1>2. PICK m \in Note :
           /\ notes' = notes \cup {m}
           /\ m.series = t.series /\ m.n = t.n
           /\ m.of = <<t.doc.series, t.doc.n>>
           /\ m.subtotal + m.igv = m.total
           /\ 100 * m.igv - 18 * m.subtotal \in -59..59
           /\ 2 * (100 * m.total - m.percentage * t.doc.total) \in -100..100
    BY <1>1
  <1>3. docs' = docs /\ Close(c) /\ IsFree(t)
    BY DEF NoteSave
  <1>4. Issued' = Issued \cup {<<t.series, t.n>>}
    BY <1>2, <1>3 DEF Issued
  <1>5. Unique'
    BY <1>2, <1>3 DEF Unique, IsFree, Issued
  <1>6. PICK d \in docs : SameDoc(t.doc, d)
    BY <1>1 DEF DocsKnown
  <1>7. /\ m.of = <<d.series, d.n>>
        /\ 2 * (100 * m.total - m.percentage * d.total) \in -100..100
    BY <1>2, <1>6 DEF SameDoc
  <1>8. AmountsAddUp'
    <2>1. \A x \in docs' \cup notes' :
             x.subtotal + x.igv = x.total /\ 100 * x.igv - 18 * x.subtotal \in -59..59
      BY <1>2, <1>3 DEF AmountsAddUp
    <2>. DEFINE IsShare(o, e) == /\ o.of = <<e.series, e.n>>
                                 /\ 2 * (100 * o.total - o.percentage * e.total) \in -100..100
    <2>2. (\A o \in notes : \E e \in docs : IsShare(o, e)) /\ IsShare(m, d)
      BY <1>7 DEF AmountsAddUp
    <2>3. \A o \in notes' : \E e \in docs' : IsShare(o, e)
      <3>. HIDE DEF IsShare
      <3>. QED  BY <1>2, <1>3, <2>2
    <2>. QED  BY <2>1, <2>3 DEF AmountsAddUp
  <1>9. clerk'[c] = {} /\ \A e \in Clerks \ {c} : clerk'[e] = clerk[e]
    BY <1>3 DEF Close, FiscalTypeOK
  <1>10. DocsKnown'
    BY <1>3, <1>9 DEF DocsKnown
  <1>. QED  BY <1>1, <1>4, <1>5, <1>8, <1>10

LEMMA AnnulSaveEffect ==
    ASSUME FiscalTypeOK, Unique, AmountsAddUp, DocsKnown,
           NEW c \in Clerks, NEW t \in clerk[c], AnnulSave(c, t)
    PROVE  /\ Issued' = Issued
           /\ Unique' /\ AmountsAddUp' /\ DocsKnown'
           /\ t \in AnnulTask
           /\ \A p \in Payments : NumbersOf(p)' = NumbersOf(p)
  <1>1. PICK v \in Doc :
           /\ t \in AnnulTask /\ SameDoc(t.doc, v)
           /\ docs' = {d \in docs : ~(d.series = t.doc.series /\ d.n = t.doc.n)} \cup {v}
    BY AnnulType DEF AnnulSave
  <1>2. PICK e \in docs : SameDoc(t.doc, e)
    BY <1>1 DEF DocsKnown
  <1>3. SameDoc(e, v)
    BY <1>1, <1>2 DEF SameDoc
  <1>4. docs' = (docs \ {e}) \cup {v}
    BY <1>1, <1>2 DEF SameDoc, Unique
  <1>5. notes' = notes /\ Close(c)
    BY DEF AnnulSave
  <1>6. Issued' = Issued
    BY <1>2, <1>3, <1>4, <1>5 DEF Issued, SameDoc
  <1>7. Unique'
    BY <1>2, <1>3, <1>4, <1>5 DEF Unique, SameDoc
  <1>8. AmountsAddUp'
    <2>1. v.subtotal + v.igv = v.total /\ 100 * v.igv - 18 * v.subtotal \in -59..59
      BY <1>2, <1>3 DEF AmountsAddUp, SameDoc
    <2>2. ASSUME NEW m \in notes
          PROVE  \E d \in docs' :
                    /\ m.of = <<d.series, d.n>>
                    /\ 2 * (100 * m.total - m.percentage * d.total) \in -100..100
      <3>1. PICK d \in docs :
               /\ m.of = <<d.series, d.n>>
               /\ 2 * (100 * m.total - m.percentage * d.total) \in -100..100
        BY DEF AmountsAddUp
      <3>2. CASE d = e
        <4>1. /\ v.series = d.series /\ v.n = d.n /\ v.total = d.total /\ v \in docs'
          BY <1>3, <1>4, <3>2 DEF SameDoc
        <4>. QED  BY <3>1, <4>1
      <3>3. CASE d # e
        BY <1>4, <3>1, <3>3
      <3>. QED  BY <3>2, <3>3
    <2>3. \A x \in docs' \cup notes' :
             x.subtotal + x.igv = x.total /\ 100 * x.igv - 18 * x.subtotal \in -59..59
      BY <1>4, <1>5, <2>1 DEF AmountsAddUp
    <2>. QED  BY <1>5, <2>2, <2>3 DEF AmountsAddUp
  <1>9. clerk'[c] = {} /\ \A f \in Clerks \ {c} : clerk'[f] = clerk[f]
    BY <1>5 DEF Close, FiscalTypeOK
  <1>10. \A d \in Doc : SameDoc(d, e) => SameDoc(d, v)
    BY <1>3 DEF SameDoc
  <1>11. \A f \in Clerks : \A u \in clerk[f] :
            u \in NoteTask \cup AnnulTask => u.doc \in Doc
    BY DEF NoteTask, AnnulTask
  <1>12. DocsKnown'
    BY <1>4, <1>9, <1>10, <1>11 DEF DocsKnown
  <1>13. ASSUME NEW p \in Payments
         PROVE  NumbersOf(p)' = NumbersOf(p)
    BY <1>2, <1>3, <1>4 DEF NumbersOf, SameDoc
  <1>. QED  BY <1>1, <1>6, <1>7, <1>8, <1>12, <1>13

-----------------------------------------------------------------------------
(***************************************************************************)
(* The requests for one payment                                            *)
(***************************************************************************)

\* Fewer requests on the way, the same documents.
LEMMA CoveredShrinks ==
    ASSUME DocumentsCovered, NEW p \in Payments,
           NumbersOf(p)' = NumbersOf(p), Passed(p)' \subseteq Passed(p)
    PROVE  /\ IsFiniteSet(NumbersOf(p)')
           /\ Cardinality(NumbersOf(p)') + Cardinality(Passed(p)')
                 <= Cardinality(Clerks)
  <1>1. IsFiniteSet(Passed(p)) /\ IsFiniteSet(Passed(p)')
    BY ClerksAssumption, FS_Subset DEF Passed
  <1>2. Cardinality(Passed(p)') <= Cardinality(Passed(p))
    BY <1>1, FS_Subset
  <1>3. /\ Cardinality(Passed(p)') \in Nat /\ Cardinality(Passed(p)) \in Nat
        /\ Cardinality(Clerks) \in Nat
        /\ IsFiniteSet(NumbersOf(p)) /\ Cardinality(NumbersOf(p)) \in Nat
    BY <1>1, ClerksAssumption, FS_CardinalityType DEF DocumentsCovered
  <1>4. Cardinality(NumbersOf(p)) + Cardinality(Passed(p)) <= Cardinality(Clerks)
    BY DEF DocumentsCovered
  <1>. QED  BY <1>2, <1>3, <1>4

\* Who passes the search found no document.
LEMMA CoveredStarts ==
    ASSUME NEW p \in Payments, NumbersOf(p)' = {}
    PROVE  /\ IsFiniteSet(NumbersOf(p)')
           /\ Cardinality(NumbersOf(p)') + Cardinality(Passed(p)')
                 <= Cardinality(Clerks)
  <1>1. Passed(p)' \subseteq Clerks
    BY DEF Passed
  <1>2. /\ Cardinality(Passed(p)') <= Cardinality(Clerks)
        /\ Cardinality(Passed(p)') \in Nat /\ Cardinality(Clerks) \in Nat
    BY <1>1, ClerksAssumption, FS_Subset, FS_CardinalityType
  <1>3. IsFiniteSet({}) /\ Cardinality({}) = 0
    BY FS_EmptySet
  <1>. QED  BY <1>2, <1>3

\* A request turns into a document.
LEMMA CoveredTurns ==
    ASSUME DocumentsCovered, NEW p \in Payments, NEW x, NEW c \in Passed(p),
           NumbersOf(p)' = NumbersOf(p) \cup {x}, Passed(p)' \subseteq Passed(p) \ {c}
    PROVE  /\ IsFiniteSet(NumbersOf(p)')
           /\ Cardinality(NumbersOf(p)') + Cardinality(Passed(p)')
                 <= Cardinality(Clerks)
  <1>1. IsFiniteSet(Passed(p)) /\ IsFiniteSet(Passed(p) \ {c}) /\ IsFiniteSet(Passed(p)')
    BY ClerksAssumption, FS_Subset DEF Passed
  <1>2. /\ Cardinality(Passed(p) \ {c}) = Cardinality(Passed(p)) - 1
        /\ Cardinality(Passed(p)') <= Cardinality(Passed(p) \ {c})
    BY <1>1, FS_RemoveElement, FS_Subset
  <1>3. IsFiniteSet(NumbersOf(p))
    BY DEF DocumentsCovered
  <1>4. /\ IsFiniteSet(NumbersOf(p) \cup {x})
        /\ \/ Cardinality(NumbersOf(p) \cup {x}) = Cardinality(NumbersOf(p)) + 1
           \/ Cardinality(NumbersOf(p) \cup {x}) = Cardinality(NumbersOf(p))
    BY <1>3, FS_AddElement
  <1>5. /\ Cardinality(Passed(p)') \in Nat /\ Cardinality(Passed(p)) \in Nat
        /\ Cardinality(Clerks) \in Nat /\ Cardinality(NumbersOf(p)) \in Nat
    BY <1>1, <1>3, ClerksAssumption, FS_CardinalityType
  <1>6. Cardinality(NumbersOf(p)) + Cardinality(Passed(p)) <= Cardinality(Clerks)
    BY DEF DocumentsCovered
  <1>. QED  BY <1>2, <1>4, <1>5, <1>6

-----------------------------------------------------------------------------
(***************************************************************************)
(* The invariant                                                           *)
(***************************************************************************)

LEMMA FiscalInitInv == FiscalInit => FiscalIInv
  <1>. SUFFICES ASSUME FiscalInit PROVE FiscalIInv
    OBVIOUS
  <1>1. \A p \in Payments : NumbersOf(p) = {} /\ Passed(p) = {}
    BY DEF FiscalInit, NumbersOf, Passed
  <1>2. IsFiniteSet({}) /\ Cardinality({}) = 0 /\ Cardinality(Clerks) \in Nat
    BY FS_EmptySet, ClerksAssumption, FS_CardinalityType
  <1>3. DocumentsCovered
    BY <1>1, <1>2 DEF DocumentsCovered
  <1>4. FiscalTypeOK
    BY DEF FiscalInit, FiscalTypeOK
  <1>5. Counts /\ Unique
    BY DEF FiscalInit, Counts, Unique, Issued
  <1>6. TasksKnow /\ LocksExclude /\ DocsKnown /\ AmountsAddUp
    BY DEF FiscalInit, TasksKnow, LocksExclude, DocsKnown, AmountsAddUp
  <1>. QED  BY <1>3, <1>4, <1>5, <1>6, CounterParts DEF FiscalIInv

\* A step that leaves the tables alone and whose request holds no number.
LEMMA TakeStep ==
    ASSUME FiscalIInv, NEW c \in Clerks, NEW task, Take(c, task), task.step # "save",
           UNCHANGED <<amount, settled, tables>>,
           task \in NoteTask \cup AnnulTask => task.doc \in docs
    PROVE  /\ Counts' /\ Unique' /\ TasksKnow' /\ DocsKnown' /\ AmountsAddUp'
           /\ Issued' = Issued /\ \A p \in Payments : NumbersOf(p)' = NumbersOf(p)
  <1>1. /\ clerk'[c] = {task} /\ \A d \in Clerks \ {c} : clerk'[d] = clerk[d]
        /\ rows' = rows /\ docs' = docs /\ notes' = notes
    BY DEF FiscalIInv, FiscalTypeOK, Take, tables
  <1>2. Issued' = Issued /\ \A p \in Payments : NumbersOf(p)' = NumbersOf(p)
    BY <1>1 DEF Issued, NumbersOf
  <1>3. Counts' /\ Unique'
    BY <1>1, <1>2, CounterParts DEF FiscalIInv, Counts, Unique
  <1>4. TasksKnow'
    BY <1>1 DEF FiscalIInv, TasksKnow
  <1>5. \A d : SameDoc(d, d)
    BY DEF SameDoc
  <1>6. DocsKnown'
    BY <1>1, <1>5 DEF FiscalIInv, DocsKnown
  <1>7. AmountsAddUp'
    BY <1>1 DEF FiscalIInv, AmountsAddUp
  <1>. QED  BY <1>2, <1>3, <1>4, <1>6, <1>7

LEMMA IdleStep ==
    ASSUME FiscalIInv, UNCHANGED <<tables, clerk>>
    PROVE  /\ Counts' /\ Unique' /\ TasksKnow' /\ DocsKnown' /\ AmountsAddUp'
           /\ DocumentsCovered' /\ Issued' = Issued
  <1>1. clerk' = clerk /\ rows' = rows /\ docs' = docs /\ notes' = notes
    BY DEF tables
  <1>2. Issued' = Issued /\ \A p \in Payments : NumbersOf(p)' = NumbersOf(p)
    BY <1>1 DEF Issued, NumbersOf
  <1>3. Counts' /\ Unique'
    BY <1>1, <1>2, CounterParts DEF FiscalIInv, Counts, Unique
  <1>4. TasksKnow' /\ DocsKnown' /\ AmountsAddUp'
    BY <1>1 DEF FiscalIInv, TasksKnow, DocsKnown, AmountsAddUp
  <1>5. \A p \in Payments : Passed(p)' \subseteq Passed(p)
    BY <1>1 DEF Passed
  <1>6. DocumentsCovered'
    BY <1>2, <1>5, CoveredShrinks DEF FiscalIInv, DocumentsCovered
  <1>. QED  BY <1>2, <1>3, <1>4, <1>6

LEMMA CloseStep ==
    ASSUME FiscalIInv, NEW c \in Clerks, Close(c), UNCHANGED <<amount, settled, tables>>
    PROVE  /\ Counts' /\ Unique' /\ TasksKnow' /\ DocsKnown' /\ AmountsAddUp'
           /\ DocumentsCovered' /\ Issued' = Issued
  <1>1. /\ clerk'[c] = {} /\ \A d \in Clerks \ {c} : clerk'[d] = clerk[d]
        /\ rows' = rows /\ docs' = docs /\ notes' = notes
    BY DEF FiscalIInv, FiscalTypeOK, Close, tables
  <1>2. Issued' = Issued /\ \A p \in Payments : NumbersOf(p)' = NumbersOf(p)
    BY <1>1 DEF Issued, NumbersOf
  <1>3. Counts' /\ Unique'
    BY <1>1, <1>2, CounterParts DEF FiscalIInv, Counts, Unique
  <1>4. TasksKnow' /\ DocsKnown' /\ AmountsAddUp'
    BY <1>1 DEF FiscalIInv, TasksKnow, DocsKnown, AmountsAddUp
  <1>5. \A p \in Payments : Passed(p)' \subseteq Passed(p)
    BY <1>1 DEF Passed
  <1>6. DocumentsCovered'
    BY <1>2, <1>5, CoveredShrinks DEF FiscalIInv, DocumentsCovered
  <1>. QED  BY <1>2, <1>3, <1>4, <1>6

LEMMA NumberStep ==
    ASSUME FiscalIInv, NEW c \in Clerks, NEW t \in clerk[c], Number(c, t)
    PROVE  /\ Counts' /\ Unique' /\ TasksKnow' /\ DocsKnown' /\ AmountsAddUp'
           /\ DocumentsCovered' /\ Issued' = Issued
  <1>1. PICK n \in Nat, by \in Clerks :
           /\ t \in DocTask \cup NoteTask
           /\ clerk' = [clerk EXCEPT ![c] = {Holding(t, n, by)}]
           /\ \/ /\ \A r \in rows : r.series # t.series
                 /\ n = 1 /\ by = c
              \/ \E r \in rows :
                    /\ r.series = t.series /\ r.by = by /\ n = r.last + 1
                    /\ ~Locked(r.series, r.by)
           /\ UNCHANGED <<amount, settled, rows, docs, notes>>
    BY NumberCases DEF FiscalIInv
  <1>2. PICK u : /\ u = Holding(t, n, by)
                 /\ t \in DocTask => u \in DocTask /\ u.pay = t.pay
                 /\ t \in NoteTask => u \in NoteTask /\ u.doc = t.doc
                 /\ u.step = "save" /\ u.series = t.series /\ u.n = n /\ u.by = by
    BY <1>1, NumberedType
  <1>3. /\ clerk'[c] = {u} /\ \A d \in Clerks \ {c} : clerk'[d] = clerk[d]
        /\ rows' = rows /\ docs' = docs /\ notes' = notes
    BY <1>1, <1>2 DEF FiscalIInv, FiscalTypeOK
  <1>4. Issued' = Issued /\ \A p \in Payments : NumbersOf(p)' = NumbersOf(p)
    BY <1>3 DEF Issued, NumbersOf
  <1>5. Counts' /\ Unique'
    BY <1>3, <1>4, CounterParts DEF FiscalIInv, Counts, Unique
  <1>6. TasksKnow'
    <2>1. \/ /\ u.n = 1 /\ u.by = c
             /\ \A r \in rows : r.series = u.series => r.by # c
          \/ \E r \in rows :
                r.series = u.series /\ r.by = u.by /\ u.n = r.last + 1
      BY <1>1, <1>2
    <2>. QED  BY <1>3, <2>1 DEF FiscalIInv, TasksKnow
  <1>7. u \in DocTask \/ u \in NoteTask
    BY <1>1, <1>2
  <1>8. (t \in DocTask <=> u \in DocTask) /\ (t \in NoteTask <=> u \in NoteTask)
    BY <1>1, <1>2, TaskKinds
  <1>9. u \notin AnnulTask
    BY <1>7, <1>2, TaskKinds
  <1>10. DocsKnown'
    BY <1>2, <1>3, <1>8, <1>9 DEF FiscalIInv, DocsKnown
  <1>11. AmountsAddUp'
    BY <1>3 DEF FiscalIInv, AmountsAddUp
  <1>12. \A p \in Payments : Passed(p)' \subseteq Passed(p)
    BY <1>2, <1>3, <1>8 DEF Passed
  <1>13. DocumentsCovered'
    BY <1>4, <1>12, CoveredShrinks DEF FiscalIInv, DocumentsCovered
  <1>. QED  BY <1>4, <1>5, <1>6, <1>10, <1>11, <1>13

\* A number that is committed is the next one of its series.
LEMMA NextNumber ==
    ASSUME FiscalTypeOK, Counts, TasksKnow,
           NEW c \in Clerks, NEW t \in clerk[c], t \in DocTask \cup NoteTask,
           t.step = "save", IsFree(t),
           Issued' = Issued \cup {<<t.series, t.n>>}
    PROVE  Numbers!NumberingNext
  <1>1. t.series \in Series /\ t.n \in Nat \ {0}
    BY PositiveNumber, TaskKinds DEF DocTask, NoteTask
  <1>2. Issued \subseteq Series \X Nat
    BY IssuedType
  <1>3. CASE \A r \in rows : r.series # t.series
    <2>1. t.n = 0 + 1 /\ {i \in Issued : i[1] = t.series} = {}
      BY <1>1, <1>2, <1>3 DEF Counts, TasksKnow
    <2>2. {t.series} \X (1..0) = {}
      OBVIOUS
    <2>3. Numbers!Issue(t.series)
      BY <2>1, <2>2 DEF Numbers!Issue, Numbers!InUse
    <2>. QED  BY <1>1, <2>3 DEF Numbers!NumberingNext
  <1>4. ASSUME NEW r \in rows, r.series = t.series
        PROVE  Numbers!NumberingNext
    <2>1. /\ \A q \in rows : q.series = t.series => q = r
          /\ \A n \in Nat : <<t.series, n>> \in Issued <=> n \in 1..r.last
      BY <1>1, <1>4 DEF Counts
    <2>2. r.last \in Nat \ {0}
      BY DEF FiscalTypeOK, SeriesRow
    <2>3. t.n = r.last + 1
      <3>1. t.n # 1
        BY <2>1, <2>2 DEF IsFree
      <3>. QED  BY <2>1, <3>1 DEF TasksKnow
    <2>4. {i \in Issued : i[1] = t.series} = {t.series} \X (1..r.last)
      BY <1>2, <2>1, <2>2
    <2>5. r.last \in {i[2] : i \in Issued}
      <3>1. <<t.series, r.last>> \in Issued
        BY <2>1, <2>2
      <3>. QED  BY <3>1
    <2>6. Numbers!Issue(t.series)
      BY <2>3, <2>4, <2>5 DEF Numbers!Issue, Numbers!InUse
    <2>. QED  BY <1>1, <2>6 DEF Numbers!NumberingNext
  <1>. QED  BY <1>3, <1>4

LEMMA DocSaveStep ==
    ASSUME FiscalIInv, NEW c \in Clerks, NEW t \in clerk[c], DocSave(c, t)
    PROVE  /\ Counts' /\ Unique' /\ TasksKnow' /\ DocsKnown' /\ AmountsAddUp'
           /\ DocumentsCovered' /\ Numbers!NumberingNext
  <1>1. Counts /\ Unique
    BY CounterParts DEF FiscalIInv
  <1>2. /\ Issued' = Issued \cup {<<t.series, t.n>>}
        /\ Unique' /\ AmountsAddUp' /\ DocsKnown'
        /\ t \in DocTask
        /\ \A p \in Payments : NumbersOf(p)' =
              NumbersOf(p) \cup (IF t.pay = p THEN {<<t.series, t.n>>} ELSE {})
    BY <1>1, DocSaveEffect DEF FiscalIInv
  <1>3. t.step = "save" /\ IsFree(t) /\ SaveRow(t) /\ Close(c) /\ t.series \in Series
    BY DEF DocSave, Series
  <1>4. Counts'
    BY <1>1, <1>2, <1>3, CountsSave DEF FiscalIInv
  <1>5. TasksKnow'
    BY <1>1, <1>3, KnowSave DEF FiscalIInv
  <1>6. Numbers!NumberingNext
    BY <1>1, <1>2, <1>3, NextNumber DEF FiscalIInv
  <1>7. clerk'[c] = {} /\ \A d \in Clerks \ {c} : clerk'[d] = clerk[d]
    BY <1>3 DEF FiscalIInv, FiscalTypeOK, Close
  <1>8. ASSUME NEW p \in Payments
        PROVE  /\ IsFiniteSet(NumbersOf(p)')
               /\ Cardinality(NumbersOf(p)') + Cardinality(Passed(p)')
                     <= Cardinality(Clerks)
    <2>1. CASE t.pay = p
      <3>1. c \in Passed(p) /\ Passed(p)' \subseteq Passed(p) \ {c}
        BY <1>2, <1>7, <2>1 DEF Passed
      <3>2. NumbersOf(p)' = NumbersOf(p) \cup {<<t.series, t.n>>}
        BY <1>2, <2>1
      <3>. QED  BY <3>1, <3>2, CoveredTurns DEF FiscalIInv
    <2>2. CASE t.pay # p
      <3>1. Passed(p)' \subseteq Passed(p)
        BY <1>7 DEF Passed
      <3>2. NumbersOf(p)' = NumbersOf(p)
        BY <1>2, <2>2
      <3>. QED  BY <3>1, <3>2, CoveredShrinks DEF FiscalIInv
    <2>. QED  BY <2>1, <2>2
  <1>9. DocumentsCovered'
    BY <1>8 DEF DocumentsCovered
  <1>. QED  BY <1>2, <1>4, <1>5, <1>6, <1>9

LEMMA NoteSaveStep ==
    ASSUME FiscalIInv, NEW c \in Clerks, NEW t \in clerk[c], NoteSave(c, t)
    PROVE  /\ Counts' /\ Unique' /\ TasksKnow' /\ DocsKnown' /\ AmountsAddUp'
           /\ DocumentsCovered' /\ Numbers!NumberingNext
  <1>1. Counts /\ Unique
    BY CounterParts DEF FiscalIInv
  <1>2. /\ Issued' = Issued \cup {<<t.series, t.n>>}
        /\ Unique' /\ AmountsAddUp' /\ DocsKnown'
        /\ t \in NoteTask
    BY <1>1, NoteSaveEffect DEF FiscalIInv
  <1>3. /\ t.step = "save" /\ IsFree(t) /\ SaveRow(t) /\ Close(c) /\ t.series \in Series
        /\ docs' = docs
    BY DEF NoteSave, Series
  <1>4. Counts'
    BY <1>1, <1>2, <1>3, CountsSave DEF FiscalIInv
  <1>5. TasksKnow'
    BY <1>1, <1>3, KnowSave DEF FiscalIInv
  <1>6. Numbers!NumberingNext
    BY <1>1, <1>2, <1>3, NextNumber DEF FiscalIInv
  <1>7. clerk'[c] = {} /\ \A d \in Clerks \ {c} : clerk'[d] = clerk[d]
    BY <1>3 DEF FiscalIInv, FiscalTypeOK, Close
  <1>8. \A p \in Payments : Passed(p)' \subseteq Passed(p) /\ NumbersOf(p)' = NumbersOf(p)
    BY <1>3, <1>7 DEF Passed, NumbersOf
  <1>9. DocumentsCovered'
    BY <1>8, CoveredShrinks DEF FiscalIInv, DocumentsCovered
  <1>. QED  BY <1>2, <1>4, <1>5, <1>6, <1>9

LEMMA AnnulSaveStep ==
    ASSUME FiscalIInv, NEW c \in Clerks, NEW t \in clerk[c], AnnulSave(c, t)
    PROVE  /\ Counts' /\ Unique' /\ TasksKnow' /\ DocsKnown' /\ AmountsAddUp'
           /\ DocumentsCovered' /\ Issued' = Issued
  <1>1. Counts /\ Unique
    BY CounterParts DEF FiscalIInv
  <1>2. /\ Issued' = Issued
        /\ Unique' /\ AmountsAddUp' /\ DocsKnown'
        /\ \A p \in Payments : NumbersOf(p)' = NumbersOf(p)
    BY <1>1, AnnulSaveEffect DEF FiscalIInv
  <1>3. rows' = rows /\ Close(c)
    BY DEF AnnulSave
  <1>4. clerk'[c] = {} /\ \A d \in Clerks \ {c} : clerk'[d] = clerk[d]
    BY <1>3 DEF FiscalIInv, FiscalTypeOK, Close
  <1>5. Counts' /\ TasksKnow'
    BY <1>1, <1>2, <1>3, <1>4 DEF FiscalIInv, Counts, TasksKnow
  <1>6. \A p \in Payments : Passed(p)' \subseteq Passed(p)
    BY <1>4 DEF Passed
  <1>7. DocumentsCovered'
    BY <1>2, <1>6, CoveredShrinks DEF FiscalIInv, DocumentsCovered
  <1>. QED  BY <1>2, <1>5, <1>7

\* Every step keeps the invariant, and issues the next number or none.
LEMMA FiscalStep ==
    ASSUME FiscalIInv, [FiscalNext]_fiscalVars
    PROVE  FiscalIInv' /\ [Numbers!NumberingNext]_Issued
  <1>. DEFINE Rest == /\ Counts' /\ Unique' /\ TasksKnow' /\ DocsKnown' /\ AmountsAddUp'
                      /\ DocumentsCovered' /\ [Numbers!NumberingNext]_Issued
  <1>1. FiscalTypeOK' /\ LocksExclude'
    BY FiscalTypeStep, LocksStep DEF FiscalIInv
  <1>2. ASSUME NEW p \in Payments, Settle(p)
        PROVE  Rest
    BY <1>2, IdleStep DEF Settle
  <1>3. ASSUME NEW c \in Clerks, NEW p \in Payments, NEW s \in DocumentSeries,
               DocRead(c, p, s)
        PROVE  Rest
    <2>1. PICK t \in DocTask : Take(c, t) /\ t.step # "save" /\ t.pay = p
      BY <1>3, NewTasks DEF FiscalIInv
    <2>2. t \notin NoteTask \cup AnnulTask
      BY <2>1, TaskKinds DEF DocTask, DocumentSeries, NoteTask, AnnulTask, NoteSeries
    <2>3. /\ Counts' /\ Unique' /\ TasksKnow' /\ DocsKnown' /\ AmountsAddUp'
          /\ Issued' = Issued /\ \A q \in Payments : NumbersOf(q)' = NumbersOf(q)
      BY <1>3, <2>1, <2>2, TakeStep DEF DocRead
    <2>4. clerk'[c] = {t} /\ \A d \in Clerks \ {c} : clerk'[d] = clerk[d]
      BY <2>1 DEF FiscalIInv, FiscalTypeOK, Take
    <2>5. NumbersOf(p) = {}
      BY <1>3 DEF DocRead, NumbersOf
    <2>6. \A q \in Payments \ {p} : Passed(q)' \subseteq Passed(q)
      BY <2>1, <2>4 DEF Passed
    <2>7. DocumentsCovered'
      BY <2>3, <2>5, <2>6, CoveredShrinks, CoveredStarts DEF FiscalIInv, DocumentsCovered
    <2>. QED  BY <2>3, <2>7
  <1>4. ASSUME NEW c \in Clerks, NEW t \in NoteTask \cup AnnulTask, Take(c, t),
               t.step # "save", t.doc \in docs, UNCHANGED <<amount, settled, tables>>
        PROVE  Rest
    <2>1. /\ Counts' /\ Unique' /\ TasksKnow' /\ DocsKnown' /\ AmountsAddUp'
          /\ Issued' = Issued /\ \A q \in Payments : NumbersOf(q)' = NumbersOf(q)
      BY <1>4, TakeStep
    <2>2. clerk'[c] = {t} /\ \A d \in Clerks \ {c} : clerk'[d] = clerk[d]
      BY <1>4 DEF FiscalIInv, FiscalTypeOK, Take
    <2>3. t \notin DocTask
      BY DEF DocTask, DocumentSeries, NoteTask, AnnulTask, NoteSeries
    <2>4. \A q \in Payments : Passed(q)' \subseteq Passed(q)
      BY <2>2, <2>3 DEF Passed
    <2>5. DocumentsCovered'
      BY <2>1, <2>4, CoveredShrinks DEF FiscalIInv, DocumentsCovered
    <2>. QED  BY <2>1, <2>5
  <1>5. ASSUME NEW c \in Clerks, NEW d \in docs, AnnulRead(c, d)
        PROVE  Rest
    <2>1. PICK t \in AnnulTask : Take(c, t) /\ t.step # "save" /\ t.doc = d
      BY <1>5, NewTasks DEF FiscalIInv
    <2>. QED  BY <1>4, <1>5, <2>1 DEF AnnulRead
  <1>6. ASSUME NEW c \in Clerks, NEW d \in docs, NEW q \in Percentages,
               NoteRead(c, d, q)
        PROVE  Rest
    <2>1. PICK t \in NoteTask : Take(c, t) /\ t.step # "save" /\ t.doc = d
      BY <1>6, NewTasks DEF FiscalIInv
    <2>. QED  BY <1>4, <1>6, <2>1 DEF NoteRead
  <1>7. ASSUME NEW c \in Clerks, NEW t \in clerk[c],
               \/ Number(c, t) \/ DocSave(c, t) \/ NoteSave(c, t)
               \/ Refused(c, t) \/ AnnulSave(c, t)
        PROVE  Rest
    BY <1>7, NumberStep, DocSaveStep, NoteSaveStep, AnnulSaveStep, CloseStep DEF Refused
  <1>8. ASSUME NEW c \in Clerks, ClerkFail(c)
        PROVE  Rest
    BY <1>8, CloseStep DEF ClerkFail
  <1>9. ASSUME UNCHANGED fiscalVars
        PROVE  Rest
    BY <1>9, IdleStep DEF fiscalVars
  <1>. HIDE DEF Rest
  <1>10. Rest
    BY <1>2, <1>3, <1>5, <1>6, <1>7, <1>8, <1>9 DEF FiscalNext, Commit
  <1>11. OneCounter'
    <2>1. FiscalTypeOK' => (OneCounter' <=> Counts' /\ Unique')
      BY CounterParts, PTL
    <2>. QED  BY <1>1, <1>10, <2>1 DEF Rest
  <1>. QED  BY <1>1, <1>10, <1>11 DEF FiscalIInv, Rest

-----------------------------------------------------------------------------
(***************************************************************************)
(* Theorems                                                                *)
(***************************************************************************)

LEMMA FiscalInvariant == FiscalSpec => []FiscalIInv
  <1>1. FiscalInit => FiscalIInv
    BY FiscalInitInv
  <1>2. FiscalIInv /\ [FiscalNext]_fiscalVars => FiscalIInv'
    BY FiscalStep
  <1>. QED  BY <1>1, <1>2, PTL DEF FiscalSpec

\* The tables and the requests stay within their types, whatever number of
\* payments, amounts and requests there is.
THEOREM FiscalTypeCorrect == FiscalSpec => []FiscalTypeOK
  <1>1. FiscalIInv => FiscalTypeOK
    BY DEF FiscalIInv
  <1>. QED  BY <1>1, FiscalInvariant, PTL

\* Two first requests of a series may both insert its row, and still there is
\* one row, which counts exactly the numbers that are used.
THEOREM SeriesHaveOneCounter == FiscalSpec => []OneCounter
  <1>1. FiscalIInv => OneCounter
    BY DEF FiscalIInv
  <1>. QED  BY <1>1, FiscalInvariant, PTL

\* Under the lock of the row no request takes a number in vain.
THEOREM LockServesAll == FiscalSpec => []OnlyFirstRefused
  <1>1. FiscalIInv => OnlyFirstRefused
    <2>. SUFFICES ASSUME FiscalIInv, NEW c \in Clerks, NEW t \in clerk[c],
                         t.step = "save", ~IsFree(t)
                  PROVE  t.by = c /\ t.n = 1
      BY DEF OnlyFirstRefused
    <2>1. t \in DocTask \cup NoteTask /\ t.series \in Series
      BY TaskKinds DEF FiscalIInv, FiscalTypeOK
    <2>2. ASSUME NEW r \in rows,
                 r.series = t.series /\ r.by = t.by /\ t.n = r.last + 1
          PROVE  FALSE
      <3>1. Counts
        BY CounterParts DEF FiscalIInv
      <3>2. /\ \A q \in rows : q.series = t.series => q = r
            /\ \A n \in Nat : <<t.series, n>> \in Issued <=> n \in 1..r.last
        BY <2>1, <2>2, <3>1 DEF Counts
      <3>3. r.last \in Nat \ {0}
        BY DEF FiscalIInv, FiscalTypeOK, SeriesRow
      <3>. QED  BY <2>2, <3>2, <3>3 DEF IsFree
    <2>. QED  BY <2>2 DEF FiscalIInv, TasksKnow
  <1>. QED  BY <1>1, FiscalInvariant, PTL

\* The transactions over fiscal_series implement the numbering of the tax
\* office.
THEOREM DocumentsKeepNumbering == FiscalSpec => KeepsNumbering
  <1>1. FiscalInit => Numbers!NumberingInit
    BY DEF FiscalInit, Numbers!NumberingInit, Issued
  <1>2. FiscalIInv /\ [FiscalNext]_fiscalVars => [Numbers!NumberingNext]_Issued
    BY FiscalStep
  <1>. QED
    BY <1>1, <1>2, FiscalInvariant, PTL
    DEF FiscalSpec, KeepsNumbering, Numbers!NumberingSpec

\* One payment never gets more documents than there are requests at once.
THEOREM FewDocumentsPerPayment == FiscalSpec => []DocumentsBounded
  <1>1. FiscalIInv => DocumentsBounded
    <2>. SUFFICES ASSUME FiscalIInv, NEW p \in Payments
                  PROVE  Cardinality(NumbersOf(p)) <= Cardinality(Clerks)
      BY DEF DocumentsBounded
    <2>1. IsFiniteSet(Passed(p)) /\ IsFiniteSet(NumbersOf(p))
      BY ClerksAssumption, FS_Subset DEF Passed, FiscalIInv, DocumentsCovered
    <2>2. /\ Cardinality(Passed(p)) \in Nat /\ Cardinality(NumbersOf(p)) \in Nat
          /\ Cardinality(Clerks) \in Nat
      BY <2>1, ClerksAssumption, FS_CardinalityType
    <2>. QED  BY <2>2 DEF FiscalIInv, DocumentsCovered
  <1>. QED  BY <1>1, FiscalInvariant, PTL

\* For every amount and percentage net, tax and total agree, and the notes
\* are shares of documents that stay as they were issued.
THEOREM AmountsAgree == FiscalSpec => []AmountsAddUp
  <1>1. FiscalIInv => AmountsAddUp
    BY DEF FiscalIInv
  <1>. QED  BY <1>1, FiscalInvariant, PTL

=============================================================================

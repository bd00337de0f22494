------------------------------ MODULE Payments ------------------------------
(***************************************************************************)
(* payments.service.ts over the tables of Registrations and CheckIns: the  *)
(* payment intent, the PayPal capture, the voucher an attendee reports and *)
(* the review of it by a treasurer.                                        *)
(*                                                                         *)
(* Payment.registration is one-to-one with a unique column, so a payment   *)
(* is named by its registration.  No handler opens a transaction: each     *)
(* loads the payment with its registration, and saves the two entities one *)
(* after the other, as they were loaded but for the columns it sets.  In   *)
(* between it waits for PayPal, for the mail server or for the database.   *)
(* A teller carries such a request as a TellerTask.                        *)
(***************************************************************************)
EXTENDS CheckIns

CONSTANTS
    Tellers   \* payment requests that may be in progress at once

VARIABLES
    pay,      \* the payments table: attendee -> payment row
    teller,   \* per teller: the request in progress (at most one task)
    captured, \* PayPal's books: attendees whose money was taken
    vouched   \* attendees whose voucher a treasurer decided to approve

moneyVars == <<pay, teller, captured, vouched>>
paymentVars == <<checkInVars, moneyVars>>

PaymentStatus ==
    {"PENDING", "WAITING_APPROVAL", "COMPLETED", "REJECTED", "REFUNDED",
     "PARTIALLY_REFUNDED", "EXPIRED", "FAILED", "CHARGEBACK",
     "CHARGEBACK_REVERSED"}

\* `order': transactionId is the id of a PayPal order.
\* `disputed': chargebackAt is set.
PayRow == [status   : PaymentStatus \cup {"ABSENT"},
           order    : BOOLEAN,
           disputed : BOOLEAN]

NoPayment == [status |-> "ABSENT", order |-> FALSE, disputed |-> FALSE]

TellerStep == {"insert", "capture", "savePaid", "confirm",
               "report", "approveSeat", "approvePay", "reject"}

TellerTask == [step : TellerStep, id : Attendees, pay : PayRow, row : Row]

MoneyTypeOK ==
    /\ pay \in [Attendees -> PayRow]
    /\ teller \in [Tellers -> SUBSET TellerTask]
    /\ captured \subseteq Attendees
    /\ vouched \subseteq Attendees

MoneyInit ==
    /\ pay = [a \in Attendees |-> NoPayment]
    /\ teller = [p \in Tellers |-> {}]
    /\ captured = {}
    /\ vouched = {}

-----------------------------------------------------------------------------

\* The registration is loaded with the payment; only the two handlers that
\* save it carry it.
Load(p, step, a, payment) ==
    /\ teller[p] = {}
    /\ teller' = [teller EXCEPT ![p] =
                    {[step |-> step, id |-> a, pay |-> payment,
                      row  |-> IF step \in {"capture", "approveSeat"}
                                 THEN reg[a] ELSE NoRow]}]

Answer(p) == teller' = [teller EXCEPT ![p] = {}]

GoTo(p, t, step) == teller' = [teller EXCEPT ![p] = {[t EXCEPT !.step = step]}]

SavePay(id, payment) == pay' = [pay EXCEPT ![id] = payment]

\* The two refusals of createPaymentIntent().
Payable(a) == reg[a].status \notin {"ABSENT", "CONFIRMED", "CANCELLED"}

\* A payment that exists and was not completed: the only thing that report,
\* review and capture ask of it.
Open(a) == pay[a].status \notin {"ABSENT", "COMPLETED"}

\* createPaymentIntent(): load the registration (and, for PayPal, create the
\* order there) ...
IntentRead(p, a, viaPaypal) ==
    /\ Payable(a)
    /\ Load(p, "insert", a,
            [status |-> "PENDING", order |-> viaPaypal, disputed |-> FALSE])
    /\ UNCHANGED <<checkInVars, pay, captured, vouched>>

\* ... and insert the payment; the unique column refuses a second one.
IntentInsert(p, t) ==
    /\ t.step = "insert"
    /\ IF pay[t.id].status = "ABSENT" THEN SavePay(t.id, t.pay) ELSE UNCHANGED pay
    /\ Answer(p)
    /\ UNCHANGED <<checkInVars, captured, vouched>>

\* completePaypalPayment(): load and check ...
PaypalRead(p, a) ==
    /\ Open(a)
    /\ pay[a].order
    /\ Load(p, "capture", a, pay[a])
    /\ UNCHANGED <<checkInVars, pay, captured, vouched>>

\* A refused capture taken for a success.
PaypalCaptureMutant(p, t) ==
    /\ t.step = "capture"
    /\ GoTo(p, t, "savePaid")
    /\ UNCHANGED <<checkInVars, pay, captured, vouched>>

\* ... ask PayPal for the money.  PayPal captures an order once; the reply
\* may be lost to the 10 s timeout although the money moved.  (A capture that
\* PayPal refuses throws: TellerFail.)
PaypalCapture(p, t) ==
    /\ t.step = "capture"
    /\ t.id \notin captured
    /\ captured' = captured \cup {t.id}
    /\ GoTo(p, t, "savePaid") \/ Answer(p)
    /\ UNCHANGED <<checkInVars, pay, vouched>>

\* ... save the payment ...
PaypalSavePay(p, t) ==
    /\ t.step = "savePaid"
    /\ SavePay(t.id, [t.pay EXCEPT !.status = "COMPLETED"])
    /\ GoTo(p, t, "confirm")
    /\ UNCHANGED <<checkInVars, captured, vouched>>

\* ... then confirm the registration.  The mails that follow change no row.
PaypalSaveSeat(p, t) ==
    /\ t.step = "confirm"
    /\ Save(t.id, [t.row EXCEPT !.status = "CONFIRMED"])
    /\ Answer(p)
    /\ UNCHANGED <<overdue, sweep, offered, told, aborts, doorVars,
                   pay, captured, vouched>>

\* reportPayment(): the attendee reports a transfer or a Yape voucher.
ReportRead(p, a) ==
    /\ Open(a)
    /\ Load(p, "report", a, pay[a])
    /\ UNCHANGED <<checkInVars, pay, captured, vouched>>

ReportSave(p, t) ==
    /\ t.step = "report"
    /\ SavePay(t.id, [t.pay EXCEPT !.status = "WAITING_APPROVAL"])
    /\ Answer(p)
    /\ UNCHANGED <<checkInVars, captured, vouched>>

\* reviewPayment(): the treasurer decides ...
ReviewRead(p, a, isApproved) ==
    /\ Open(a)
    /\ Load(p, IF isApproved THEN "approveSeat" ELSE "reject", a, pay[a])
    /\ vouched' = IF isApproved THEN vouched \cup {a} ELSE vouched
    /\ UNCHANGED <<checkInVars, pay, captured>>

\* ... the registration is confirmed first ...
ApproveSaveSeat(p, t) ==
    /\ t.step = "approveSeat"
    /\ Save(t.id, [t.row EXCEPT !.status = "CONFIRMED"])
    /\ GoTo(p, t, "approvePay")
    /\ UNCHANGED <<overdue, sweep, offered, told, aborts, doorVars,
                   pay, captured, vouched>>

\* ... and the payment last, after the ticket mail and the fiscal document.
ApproveSavePay(p, t) ==
    /\ t.step = "approvePay"
    /\ SavePay(t.id, [t.pay EXCEPT !.status = "COMPLETED"])
    /\ Answer(p)
    /\ UNCHANGED <<checkInVars, captured, vouched>>

\* The branch taken the wrong way round.
RejectSaveMutant(p, t) ==
    /\ t.step = "reject"
    /\ SavePay(t.id, [t.pay EXCEPT !.status = "COMPLETED"])
    /\ Answer(p)
    /\ UNCHANGED <<checkInVars, captured, vouched>>

RejectSave(p, t) ==
    /\ t.step = "reject"
    /\ SavePay(t.id, [t.pay EXCEPT !.status = "REJECTED"])
    /\ Answer(p)
    /\ UNCHANGED <<checkInVars, captured, vouched>>

\* A request dies between two of its steps: PayPal refuses, the mail server
\* or the database throws, the process restarts.
TellerFail(p) ==
    /\ teller[p] # {}
    /\ Answer(p)
    /\ UNCHANGED <<checkInVars, pay, captured, vouched>>

TellerStart(p) ==
    \E a \in Attendees :
        \/ \E viaPaypal \in BOOLEAN : IntentRead(p, a, viaPaypal)
        \/ PaypalRead(p, a)
        \/ ReportRead(p, a)
        \/ \E isApproved \in BOOLEAN : ReviewRead(p, a, isApproved)

TellerGoOn(p) ==
    \E t \in teller[p] :
        \/ IntentInsert(p, t)
        \/ PaypalCapture(p, t)
        \/ PaypalSavePay(p, t)
        \/ PaypalSaveSeat(p, t)
        \/ ReportSave(p, t)
        \/ ApproveSaveSeat(p, t)
        \/ ApproveSavePay(p, t)
        \/ RejectSave(p, t)

MoneyNext == \E p \in Tellers : TellerStart(p) \/ TellerGoOn(p) \/ TellerFail(p)

PaymentsInit == CheckInsInit /\ MoneyInit

PaymentsNext ==
    \/ CheckInsNext /\ UNCHANGED moneyVars
    \/ MoneyNext

PaymentsSpec == PaymentsInit /\ [][PaymentsNext]_paymentVars

-----------------------------------------------------------------------------
(***************************************************************************)
(* Properties                                                              *)
(***************************************************************************)

\* A seat that costs money is confirmed, or admitted, only if PayPal took the
\* money or a treasurer approved the voucher: no interleaving of capture,
\* review, expiry and check-in, each of which writes back a row it read long
\* ago, confirms a seat nobody paid for.
Vouched(a) == a \in captured \cup vouched

NoSeatWithoutMoney ==
    \A a \in Attendees :
        reg[a].status \in {"CONFIRMED", "ATTENDED"} /\ ~reg[a].free => Vouched(a)

\* A payment is COMPLETED only if the money is really there.
NoCompletionWithoutMoney ==
    \A a \in Attendees : pay[a].status = "COMPLETED" => Vouched(a)

\* Nobody is checked into a session on a ticket nobody paid for.
OnlyPaidAttend ==
    \A v \in ins : reg[v[1]].free \/ Vouched(v[1])

\* A seat whose loss was announced, to its owner or to the waiting list, holds
\* a place again only for somebody the door let in meanwhile or whose money
\* arrived after all.  Both happen: a payment confirms an expired row, and a
\* desk saves over it the row it read before.  Nothing else does, and no job
\* announces a seat it has not released.
AnnouncedIsExcused ==
    \A a \in (offered \cup told) \cap Holders : a \in inside \/ Vouched(a)

=============================================================================

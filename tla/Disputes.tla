------------------------------ MODULE Disputes ------------------------------
(***************************************************************************)
(* Money that goes back: refunds.service.ts (request, review, process) and *)
(* chargeback.service.ts (initiate, confirm, reverse) over the tables of   *)
(* Payments.                                                               *)
(*                                                                         *)
(* A refund handler is a chain of reads and saves without a transaction.   *)
(* processChargeback() reads the payment with its registration and then    *)
(* saves both in one transaction, as it read them.  A clerk carries such a *)
(* request as a ClerkTask.                                                 *)
(*                                                                         *)
(* Left out: person.flagRisk, which no handler reads, and certificates.    *)
(* Their column ownerType is NOT NULL and no code sets it, so none can be  *)
(* inserted for a registration made here and revokeCertificates() finds    *)
(* nothing to revoke.                                                      *)
(***************************************************************************)
EXTENDS Payments

CONSTANTS
    Clerks,     \* administrator requests that may be in progress at once
    MaxRequests \* bound: refunds one registration may ask for

ASSUME RequestsAssumption == MaxRequests \in Nat

VARIABLES
    refund,    \* the refunds table: <<attendee, n>> -> n-th refund asked for
    clerk,     \* per clerk: the request in progress (at most one task)
    approved,  \* refunds an administrator approved
    contested  \* attendees whose seat a dispute or a refund has taken away

backVars == <<refund, clerk, approved, contested>>
disputeVars == <<paymentVars, backVars>>

RefundStatus ==
    {"REQUESTED", "PENDING_REVIEW", "APPROVED", "PROCESSING", "COMPLETED",
     "REJECTED", "CANCELLED"}

\* `full': refundPercentage = 100.
RefundRow == [status : RefundStatus \cup {"ABSENT"}, full : BOOLEAN]

NoRefund == [status |-> "ABSENT", full |-> FALSE]

RefundId == Attendees \X (1..MaxRequests)

ClerkStep == {"check", "request", "decide", "process", "payBack",
              "cancelSeat", "complete", "initiate", "confirmLoss", "reverse"}

\* A request for a refund has no id yet: n = 0.
ClerkTask == [step : ClerkStep, id : Attendees, n : 0..MaxRequests,
              refund : RefundRow, pay : PayRow, row : Row]

DisputesTypeOK ==
    /\ refund \in [RefundId -> RefundRow]
    /\ clerk \in [Clerks -> SUBSET ClerkTask]
    /\ approved \subseteq RefundId
    /\ contested \subseteq Attendees

BackInit ==
    /\ refund = [i \in RefundId |-> NoRefund]
    /\ clerk = [c \in Clerks |-> {}]
    /\ approved = {}
    /\ contested = {}

-----------------------------------------------------------------------------

Take(c, task) == clerk[c] = {} /\ clerk' = [clerk EXCEPT ![c] = {task}]

Close(c) == clerk' = [clerk EXCEPT ![c] = {}]

Proceed(c, t, step) == clerk' = [clerk EXCEPT ![c] = {[t EXCEPT !.step = step]}]

SaveRefund(t, row) == refund' = [refund EXCEPT ![<<t.id, t.n>>] = row]

\* What the chargeback handlers load: the payment with its registration.
Dispute(c, step, a) ==
    Take(c, [step |-> step, id |-> a, n |-> 0,
             refund |-> NoRefund, pay |-> pay[a], row |-> reg[a]])

Contest(a) == contested' = contested \cup {a}

\* The refunds a second request is refused for.
LiveStatus == {"REQUESTED", "PENDING_REVIEW", "APPROVED", "PROCESSING"}

Live(a) == \E n \in 1..MaxRequests : refund[<<a, n>>].status \in LiveStatus

-----------------------------------------------------------------------------
(***************************************************************************)
(* Refunds                                                                 *)
(***************************************************************************)

\* What requestRefund() asks of the registration it loads with its payment.
\* The event is not over.
Refundable(a) ==
    reg[a].status = "CONFIRMED" /\ ~reg[a].attended /\ pay[a].status = "COMPLETED"

\* requestRefund(): load and check ...
RequestRead(c, a) ==
    /\ Refundable(a)
    /\ Take(c, [step |-> "check", id |-> a, n |-> 0,
                refund |-> NoRefund, pay |-> NoPayment, row |-> NoRow])
    /\ UNCHANGED <<paymentVars, refund, approved, contested>>

\* ... look for a request that is still open ...
RequestCheck(c, t) ==
    /\ t.step = "check"
    /\ ~Live(t.id)
    /\ Proceed(c, t, "request")
    /\ UNCHANGED <<paymentVars, refund, approved, contested>>

\* The status taken from the payment's enum.
RequestInsertMutant(c, t, share) ==
    /\ t.step = "request"
    /\ \E n \in 1..MaxRequests :
          /\ refund[<<t.id, n>>] = NoRefund
          /\ refund' = [refund EXCEPT ![<<t.id, n>>] =
                           [status |-> "PENDING", full |-> share = 100]]
    /\ Close(c)
    /\ UNCHANGED <<paymentVars, approved, contested>>

\* ... and insert, with the share the policies give so many days before the
\* event.  A share of 0 is rejected at once.
RequestInsert(c, t, share) ==
    /\ t.step = "request"
    /\ \E n \in 1..MaxRequests :
          /\ refund[<<t.id, n>>] = NoRefund
          /\ \A m \in 1..(n - 1) : refund[<<t.id, m>>] # NoRefund
          /\ refund' = [refund EXCEPT ![<<t.id, n>>] =
                           [status |-> IF share = 0 THEN "REJECTED" ELSE "REQUESTED",
                            full   |-> share = 100]]
    /\ Close(c)
    /\ UNCHANGED <<paymentVars, approved, contested>>

\* reviewRefund(): load ...
ReviewRefundRead(c, a, n) ==
    /\ refund[<<a, n>>].status = "REQUESTED"
    /\ Take(c, [step |-> "decide", id |-> a, n |-> n,
                refund |-> refund[<<a, n>>], pay |-> NoPayment, row |-> NoRow])
    /\ UNCHANGED <<paymentVars, refund, approved, contested>>

\* ... and save the decision; who approves may change the share.
ReviewRefundSave(c, t, isApproved, full) ==
    /\ t.step = "decide"
    /\ \/ /\ isApproved
          /\ SaveRefund(t, [status |-> "APPROVED", full |-> full])
          /\ approved' = approved \cup {<<t.id, t.n>>}
       \/ /\ ~isApproved
          /\ SaveRefund(t, [t.refund EXCEPT !.status = "REJECTED"])
          /\ UNCHANGED approved
    /\ Close(c)
    /\ UNCHANGED <<paymentVars, contested>>

\* processRefund(): load the refund, its payment and its registration ...
ProcessRead(c, a, n) ==
    /\ refund[<<a, n>>].status = "APPROVED"
    /\ Take(c, [step |-> "process", id |-> a, n |-> n,
                refund |-> refund[<<a, n>>], pay |-> pay[a], row |-> reg[a]])
    /\ UNCHANGED <<paymentVars, refund, approved, contested>>

\* ... mark the refund ...
ProcessStart(c, t) ==
    /\ t.step = "process"
    /\ SaveRefund(t, [t.refund EXCEPT !.status = "PROCESSING"])
    /\ Proceed(c, t, "payBack")
    /\ UNCHANGED <<paymentVars, approved, contested>>

\* ... save the payment (a partial refund leaves its status) ...
PayBack(c, t) ==
    /\ t.step = "payBack"
    /\ SavePay(t.id, IF t.refund.full THEN [t.pay EXCEPT !.status = "REFUNDED"]
                                      ELSE t.pay)
    /\ Proceed(c, t, "cancelSeat")
    /\ UNCHANGED <<checkInVars, teller, captured, vouched,
                   refund, approved, contested>>

\* ... save the registration ...
CancelSeat(c, t) ==
    /\ t.step = "cancelSeat"
    /\ Save(t.id, [t.row EXCEPT !.status = "CANCELLED"])
    /\ Contest(t.id)
    /\ Proceed(c, t, "complete")
    /\ UNCHANGED <<overdue, sweep, offered, told, aborts, doorVars, moneyVars,
                   refund, approved>>

\* ... and, after the credit note, the refund.
ProcessComplete(c, t) ==
    /\ t.step = "complete"
    /\ SaveRefund(t, [t.refund EXCEPT !.status = "COMPLETED"])
    /\ Close(c)
    /\ UNCHANGED <<paymentVars, approved, contested>>

-----------------------------------------------------------------------------
(***************************************************************************)
(* Chargebacks                                                             *)
(***************************************************************************)

\* A chargeback of any payment.
InitiateReadMutant(c, a) ==
    /\ pay[a].status # "ABSENT"
    /\ Dispute(c, "initiate", a)
    /\ UNCHANGED <<paymentVars, refund, approved, contested>>

InitiateRead(c, a) ==
    /\ pay[a].status = "COMPLETED"
    /\ Dispute(c, "initiate", a)
    /\ UNCHANGED <<paymentVars, refund, approved, contested>>

\* initiateChargeback(): the payment stays COMPLETED, with chargebackAt set.
Initiate(c, t) ==
    /\ t.step = "initiate"
    /\ SavePay(t.id, [t.pay EXCEPT !.disputed = TRUE])
    /\ Save(t.id, [t.row EXCEPT !.status = "IN_DISPUTE"])
    /\ Contest(t.id)
    /\ Close(c)
    /\ UNCHANGED <<overdue, sweep, offered, told, aborts, doorVars,
                   teller, captured, vouched, refund, approved>>

ConfirmRead(c, a) ==
    /\ pay[a].disputed
    /\ pay[a].status # "CHARGEBACK"
    /\ Dispute(c, "confirmLoss", a)
    /\ UNCHANGED <<paymentVars, refund, approved, contested>>

\* confirmChargeback(): the bank took the money back.
Confirm(c, t) ==
    /\ t.step = "confirmLoss"
    /\ SavePay(t.id, [t.pay EXCEPT !.status = "CHARGEBACK"])
    /\ Save(t.id, [t.row EXCEPT !.status = "CANCELLED_BY_CHARGEBACK"])
    /\ Contest(t.id)
    /\ Close(c)
    /\ UNCHANGED <<overdue, sweep, offered, told, aborts, doorVars,
                   teller, captured, vouched, refund, approved>>

ReverseRead(c, a) ==
    /\ pay[a].disputed
    /\ Dispute(c, "reverse", a)
    /\ UNCHANGED <<paymentVars, refund, approved, contested>>

\* reverseChargeback(): the dispute is won.  Only a seat that is still in
\* dispute is restored.
Reverse(c, t) ==
    /\ t.step = "reverse"
    /\ SavePay(t.id, [t.pay EXCEPT !.status = "CHARGEBACK_REVERSED"])
    /\ IF t.row.status = "IN_DISPUTE"
         THEN Save(t.id, [t.row EXCEPT !.status = "CONFIRMED"])
         ELSE UNCHANGED reg
    /\ Close(c)
    /\ UNCHANGED <<overdue, sweep, offered, told, aborts, doorVars,
                   teller, captured, vouched, refund, approved, contested>>

-----------------------------------------------------------------------------

\* A request is refused, fails or dies between two of its steps.
ClerkFail(c) ==
    /\ clerk[c] # {}
    /\ Close(c)
    /\ UNCHANGED <<paymentVars, refund, approved, contested>>

ClerkStart(c) ==
    \E a \in Attendees :
        \/ RequestRead(c, a)
        \/ \E n \in 1..MaxRequests : ReviewRefundRead(c, a, n) \/ ProcessRead(c, a, n)
        \/ InitiateRead(c, a)
        \/ ConfirmRead(c, a)
        \/ ReverseRead(c, a)

ClerkGoOn(c) ==
    \E t \in clerk[c] :
        \/ RequestCheck(c, t)
        \/ \E share \in {0, 50, 100} : RequestInsert(c, t, share)
        \/ \E isApproved, full \in BOOLEAN : ReviewRefundSave(c, t, isApproved, full)
        \/ ProcessStart(c, t)
        \/ PayBack(c, t)
        \/ CancelSeat(c, t)
        \/ ProcessComplete(c, t)
        \/ Initiate(c, t)
        \/ Confirm(c, t)
        \/ Reverse(c, t)

BackNext == \E c \in Clerks : ClerkStart(c) \/ ClerkGoOn(c) \/ ClerkFail(c)

DisputesInit == PaymentsInit /\ BackInit

DisputesNext ==
    \/ PaymentsNext /\ UNCHANGED backVars
    \/ BackNext

DisputesSpec == DisputesInit /\ [][DisputesNext]_disputeVars

-----------------------------------------------------------------------------
(***************************************************************************)
(* Properties                                                              *)
(***************************************************************************)

\* Money goes back, and the bank is asked for it back, only where it had come
\* in: no interleaving of captures, reviews and disputes makes a refund or a
\* chargeback out of a payment nobody made.
OnlyPaidIsReturned ==
    /\ \A i \in RefundId : refund[i].status # "ABSENT" => Vouched(i[1])
    /\ \A a \in Attendees : pay[a].disputed => Vouched(a)

\* No refund is processed that an administrator did not approve at some time,
\* however late the reviews of several administrators are saved.  Proved, for
\* any number of them, and checked by no run.  It does not say that a refund is
\* processed once: two of them may do it at the same time.
ReturnsAreApproved ==
    \A i \in RefundId : refund[i].status \in {"PROCESSING", "COMPLETED"} => i \in approved

\* Who may come back into the stock count unchecked, now that disputes give
\* seats back.
Released == Excused \cup contested

Book == INSTANCE SeatLedger
          WITH granted <- Granted, counted <- Reserved, excused <- Released

\* The disputes too keep the promise of SeatLedger: a dispute that is won
\* restores only a seat that a dispute or a refund took away, now or earlier,
\* or one that was late or let in.
DisputesKeepLedger == Book!LedgerSpec

=============================================================================

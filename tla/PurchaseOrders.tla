--------------------------- MODULE PurchaseOrders ---------------------------
(***************************************************************************)
(* purchase-orders.service.ts: seats for several people in one order, its  *)
(* expiry and its cancellation, over the tables of Payments, and the guard *)
(* that limits the open orders of one buyer.                               *)
(*                                                                         *)
(* create() is one SERIALIZABLE transaction, preceded by the guard, which  *)
(* counts on a connection of its own.  expire() and cancel() are READ      *)
(* COMMITTED transactions without a lock: they read the order with its     *)
(* registrations and then save all of them as they were read.  A request,  *)
(* or the cron job "orders", carries such a transaction as an OrderTask.   *)
(*                                                                         *)
(* The registrations of an order have its expiresAt, so the jobs of        *)
(* Registrations sweep them too.  Their owners pay for them one by one in  *)
(* Payments: markAsPaid() has no caller but create(), for an order whose   *)
(* total is 0.                                                             *)
(***************************************************************************)
EXTENDS Payments

CONSTANTS
    Buyers,     \* requests of buyers that may be in progress at once
    MaxOrders,  \* bound: orders ever made
    MaxPending  \* RateLimitConfig.MAX_PENDING_ORDERS_PER_PERSON

ASSUME OrdersAssumption == MaxOrders \in Nat
ASSUME PendingAssumption == MaxPending \in Nat \ {0}
ASSUME BuyersAssumption == IsFiniteSet(Buyers) /\ "orders" \notin Buyers

VARIABLES
    order,     \* the purchase_orders table, with the registrations of each
    request,   \* per buyer, and for the cron job: the work in progress
    withdrawn  \* attendees whose seat a cancelled order has given back

orderVars == <<order, request, withdrawn>>
purchaseVars == <<paymentVars, orderVars>>

OrderId == 1..MaxOrders

PurchaseOrderStatus == {"PENDING", "PAID", "EXPIRED", "CANCELLED"}

OrderRow == [status  : PurchaseOrderStatus \cup {"ABSENT"},
             members : SUBSET Attendees]

NoOrder == [status |-> "ABSENT", members |-> {}]

\* A request that passed the guard has read no order: id = 0.
OrderTask == [step : {"create", "cancel", "expire"},
              id   : 0..MaxOrders,
              rows : [Attendees -> Row]]

OrdersTypeOK ==
    /\ order \in [OrderId -> OrderRow]
    /\ request \in [Buyers \cup {"orders"} -> SUBSET OrderTask]
    /\ withdrawn \subseteq Attendees

OrdersInit0 ==
    /\ order = [o \in OrderId |-> NoOrder]
    /\ request = [b \in Buyers \cup {"orders"} |-> {}]
    /\ withdrawn = {}

-----------------------------------------------------------------------------

\* The order with its registrations, as a transaction loads it.
LoadOrder(b, step, o) ==
    /\ request[b] = {}
    /\ request' = [request EXCEPT ![b] =
                      {[step |-> step, id |-> o,
                        rows |-> [a \in Attendees |->
                                     IF a \in order[o].members THEN reg[a] ELSE NoRow]]}]

Finish(b) == request' = [request EXCEPT ![b] = {}]

\* The order and every registration it was loaded with get the status.
SaveOrder(t, status) ==
    /\ order' = [order EXCEPT ![t.id].status = status]
    /\ reg' = [a \in Attendees |->
                  IF a \in order[t.id].members
                    THEN [t.rows[a] EXCEPT !.status = status]
                    ELSE reg[a]]

Ordered == UNION {order[o].members : o \in OrderId}

PendingOrders == {o \in OrderId : order[o].status = "PENDING"}

OrderOverdue(o) == order[o].members \subseteq overdue

\* if (reservedCount >= stock), the test of a single registration.
FitsStockMutant(S) == Cardinality(Reserved) < Stock

\* reservedCount + quantity > ticket.stock is refused.
FitsStock(S) == Cardinality(Reserved) + Cardinality(S) <= Stock

-----------------------------------------------------------------------------
(***************************************************************************)
(* Actions                                                                 *)
(***************************************************************************)

\* pendingOrders > maxPending.
GuardPassMutant(b) ==
    /\ request[b] = {}
    /\ Cardinality(PendingOrders) <= MaxPending
    /\ request' = [request EXCEPT ![b] =
                      {[step |-> "create", id |-> 0, rows |-> [a \in Attendees |-> NoRow]]}]
    /\ UNCHANGED <<paymentVars, order, withdrawn>>

\* PendingOrdersLimitGuard.canActivate(): one buyer, and one address, makes
\* every order of the model.
GuardPass(b) ==
    /\ request[b] = {}
    /\ Cardinality(PendingOrders) < MaxPending
    /\ request' = [request EXCEPT ![b] =
                      {[step |-> "create", id |-> 0, rows |-> [a \in Attendees |-> NoRow]]}]
    /\ UNCHANGED <<paymentVars, order, withdrawn>>

\* create(): the items of one ticket, for the people in S.  (maxPerOrder
\* binds one item only, and an order may have several of them.)  An order
\* whose total is 0 is marked as paid in the same transaction.
OrderCreate(b, t, o, S, free) ==
    /\ t.step = "create"
    /\ order[o] = NoOrder
    /\ \A p \in 1..(o - 1) : order[p] # NoOrder
    /\ S # {}
    /\ FitsStock(S)
    /\ \A a \in S : ~AlreadyRegistered(a) /\ IndexAccepts(a)
    /\ order' = [order EXCEPT ![o] = [status  |-> IF free THEN "PAID" ELSE "PENDING",
                                      members |-> S]]
    /\ reg' = [a \in Attendees |->
                  IF a \in S
                    THEN [status   |-> IF free THEN "CONFIRMED" ELSE "PENDING",
                          attended |-> FALSE,
                          free     |-> free]
                    ELSE reg[a]]
    /\ Finish(b)
    /\ UNCHANGED <<overdue, sweep, offered, told, aborts, doorVars, moneyVars, withdrawn>>

\* Time reaches the expiresAt of the order and of its registrations.
OrderDeadline(o) ==
    /\ order[o] # NoOrder
    /\ ~OrderOverdue(o)
    /\ overdue' = overdue \cup order[o].members
    /\ UNCHANGED <<reg, sweep, offered, told, aborts, doorVars, moneyVars, orderVars>>

\* cancel(): read and check ...
CancelRead(b, o) ==
    /\ order[o].status = "PENDING"
    /\ LoadOrder(b, "cancel", o)
    /\ UNCHANGED <<paymentVars, order, withdrawn>>

\* ... save and commit.
CancelSave(b, t) ==
    /\ t.step = "cancel"
    /\ SaveOrder(t, "CANCELLED")
    /\ withdrawn' = withdrawn \cup order[t.id].members
    /\ Finish(b)
    /\ UNCHANGED <<overdue, sweep, offered, told, aborts, doorVars, moneyVars>>

\* The job without its condition on expiresAt.
ExpireReadMutant(o) ==
    /\ order[o].status = "PENDING"
    /\ LoadOrder("orders", "expire", o)
    /\ UNCHANGED <<paymentVars, order, withdrawn>>

\* expirePendingOrders() calls expire() for one order after the other, which
\* reads it again and refuses one that is not PENDING: what the job found at
\* the start of its round adds nothing to this guard.
ExpireRead(o) ==
    /\ order[o].status = "PENDING"
    /\ OrderOverdue(o)
    /\ LoadOrder("orders", "expire", o)
    /\ UNCHANGED <<paymentVars, order, withdrawn>>

\* The status of the documentation.
ExpireSaveWrongEnum(t) ==
    /\ SaveOrder(t, "CANCELLED_BY_EXPIRY")
    /\ Finish("orders")
    /\ UNCHANGED <<overdue, sweep, offered, told, aborts, doorVars, moneyVars, withdrawn>>

\* ... save and commit, whatever became of the registrations meanwhile.
ExpireSave(t) ==
    /\ SaveOrder(t, "EXPIRED")
    /\ Finish("orders")
    /\ UNCHANGED <<overdue, sweep, offered, told, aborts, doorVars, moneyVars, withdrawn>>

\* A request is refused, fails or dies; its transaction is rolled back.
RequestFail(b) ==
    /\ b \in Buyers
    /\ request[b] # {}
    /\ Finish(b)
    /\ UNCHANGED <<paymentVars, order, withdrawn>>

\* The job logs an order that failed and goes on; the next round tries again.
ExpireFail ==
    /\ request["orders"] # {}
    /\ aborts < MaxAborts
    /\ aborts' = aborts + 1
    /\ Finish("orders")
    /\ UNCHANGED <<reg, overdue, sweep, offered, told, doorVars, moneyVars, order, withdrawn>>

BuyerNext(b) ==
    \/ GuardPass(b)
    \/ \E t \in request[b], o \in OrderId, S \in SUBSET Attendees, free \in BOOLEAN :
          OrderCreate(b, t, o, S, free)
    \/ \E o \in OrderId : CancelRead(b, o)
    \/ \E t \in request[b] : CancelSave(b, t)
    \/ RequestFail(b)

ExpireNext ==
    \/ \E o \in OrderId : ExpireRead(o)
    \/ \E t \in request["orders"] : ExpireSave(t)

OrderNext ==
    \/ \E b \in Buyers : BuyerNext(b)
    \/ \E o \in OrderId : OrderDeadline(o)
    \/ ExpireNext
    \/ ExpireFail

OrdersInit == PaymentsInit /\ OrdersInit0

\* A registration of an order has no deadline of its own.
OrdersNext ==
    \/ /\ PaymentsNext
       /\ (overdue' \ overdue) \cap Ordered = {}
       /\ UNCHANGED orderVars
    \/ OrderNext

OrdersSpec == OrdersInit /\ [][OrdersNext]_purchaseVars

-----------------------------------------------------------------------------
(***************************************************************************)
(* Properties                                                              *)
(***************************************************************************)

\* An order, or a registration, expires only when its time is over, although
\* two jobs write back rows they read before the deadline of another order.
OrdersExpireLate ==
    /\ \A o \in OrderId : order[o].status = "EXPIRED" => OrderOverdue(o)
    /\ \A a \in Attendees : reg[a].status = "EXPIRED" => a \in overdue

\* Orders and single registrations share the stock: the seats that are not
\* late, not inside and not given back by a cancelled order stay within it.
OrdersWithinStock == Cardinality(Reserved \ (Excused \cup withdrawn)) <= Stock

\* The guard counts before create() inserts, so requests sent together pass
\* it together: orders and requests on their way exceed the limit by as many
\* as may be sent at once less one, and by no more.
OnTheirWay == {b \in Buyers : \E t \in request[b] : t.step = "create"}

PendingBounded ==
    Cardinality(PendingOrders) + Cardinality(OnTheirWay)
        <= MaxPending + Cardinality(Buyers) - 1

=============================================================================

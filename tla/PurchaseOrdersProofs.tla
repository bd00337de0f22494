------------------------- MODULE PurchaseOrdersProofs -------------------------
(***************************************************************************)
(* The limit of open orders, for every limit, every number of requests and *)
(* every number of orders.  The guard counts before create() inserts, so   *)
(* the bound is on the open orders together with the requests that have    *)
(* passed the guard; it is inductive once the tables have their shape.     *)
(*                                                                         *)
(* Then what orders do to the seats.  A cancelled order takes rows out of  *)
(* the count whose owners are neither late nor inside, so that `Accounted' *)
(* of SeatsProofs is too much; SeatsIInv says what is left, once for       *)
(* everybody who holds rows in memory.                                     *)
(***************************************************************************)
EXTENDS PurchaseOrders, SeatsProofs

\* The two tables are functions with the right domains.
Shaped ==
    /\ order \in [OrderId -> OrderRow]
    /\ request = [b \in Buyers \cup {"orders"} |-> request[b]]

OrdersIInv == Shaped /\ PendingBounded

-----------------------------------------------------------------------------

\* The two sets of the bound are finite.
Finite ==
    /\ IsFiniteSet(PendingOrders) /\ Cardinality(PendingOrders) \in Nat
    /\ IsFiniteSet(OnTheirWay) /\ Cardinality(OnTheirWay) \in Nat
    /\ Cardinality(OnTheirWay) <= Cardinality(Buyers) /\ Cardinality(Buyers) \in Nat

LEMMA BothFinite == Finite
<1>1. IsFiniteSet(OrderId)
  BY FS_Interval, OrdersAssumption DEF OrderId
<1>2. PendingOrders \subseteq OrderId /\ OnTheirWay \subseteq Buyers
  BY DEF PendingOrders, OnTheirWay
<1>3. QED
  BY <1>1, <1>2, BuyersAssumption, FS_Subset, FS_CardinalityType DEF Finite

\* A step after which there is no new open order and no new request.
LEMMA FewerPending ==
  ASSUME PendingBounded, PendingOrders' \subseteq PendingOrders, OnTheirWay' \subseteq OnTheirWay
  PROVE  PendingBounded'
<1>1. Finite /\ Finite'
  BY BothFinite, PTL
<1>2. Cardinality(PendingOrders') <= Cardinality(PendingOrders)
      /\ Cardinality(OnTheirWay') <= Cardinality(OnTheirWay)
  BY <1>1, FS_Subset DEF Finite
<1>3. QED
  BY <1>1, <1>2, PendingAssumption DEF PendingBounded, Finite

\* What one caller does leaves the tasks of the others alone.
LEMMA TaskReplaced ==
  ASSUME Shaped, NEW b \in Buyers \cup {"orders"}, NEW S,
         request' = [request EXCEPT ![b] = S]
  PROVE  /\ request' = [c \in Buyers \cup {"orders"} |-> request'[c]]
         /\ \A c \in Buyers \cup {"orders"} : request'[c] = IF c = b THEN S ELSE request[c]
BY DEF Shaped

\* A transaction of expire() or cancel() opens no order.
LEMMA StatusSaved ==
  ASSUME Shaped, NEW t, NEW s \in PurchaseOrderStatus, s # "PENDING",
         order' = [order EXCEPT ![t.id].status = s]
  PROVE  order' \in [OrderId -> OrderRow] /\ PendingOrders' \subseteq PendingOrders
<1>1. order' \in [OrderId -> OrderRow]
  BY DEF Shaped, OrderRow
<1>2. \A o \in OrderId : order'[o].status \in {order[o].status, s}
  BY DEF Shaped, OrderRow
<1>3. QED
  BY <1>1, <1>2 DEF PendingOrders

-----------------------------------------------------------------------------

LEMMA GuardKeeps ==
  ASSUME OrdersIInv, NEW b \in Buyers, GuardPass(b)
  PROVE  OrdersIInv'
<1> DEFINE task == {[step |-> "create", id |-> 0, rows |-> [a \in Attendees |-> NoRow]]}
<1>1. /\ Cardinality(PendingOrders) < MaxPending
      /\ request' = [request EXCEPT ![b] = task]
      /\ UNCHANGED order
  BY DEF GuardPass
<1>2. Shaped'
  BY <1>1, TaskReplaced DEF OrdersIInv, Shaped
<1>3. PendingOrders' = PendingOrders
  BY <1>1 DEF PendingOrders
<1>4. Finite /\ Finite'
  BY BothFinite, PTL
<1>5. PendingBounded'
  BY <1>1, <1>3, <1>4, PendingAssumption DEF PendingBounded, Finite
<1>6. QED
  BY <1>2, <1>5 DEF OrdersIInv

LEMMA CreateKeeps ==
  ASSUME OrdersIInv, NEW b \in Buyers, NEW t \in request[b], NEW o \in OrderId,
         NEW S \in SUBSET Attendees, NEW free \in BOOLEAN, OrderCreate(b, t, o, S, free)
  PROVE  OrdersIInv'
<1> DEFINE row == [status |-> IF free THEN "PAID" ELSE "PENDING", members |-> S]
<1>1. /\ t.step = "create"
      /\ order' = [order EXCEPT ![o] = row]
      /\ request' = [request EXCEPT ![b] = {}]
  BY DEF OrderCreate, Finish
<1>2. row \in OrderRow
  BY DEF OrderRow, PurchaseOrderStatus
<1>3. Shaped'
  BY <1>1, <1>2, TaskReplaced DEF OrdersIInv, Shaped
<1>4. PendingOrders' \subseteq PendingOrders \cup {o}
  BY <1>1 DEF PendingOrders, OrdersIInv, Shaped
<1>5. b \in OnTheirWay /\ OnTheirWay' \subseteq OnTheirWay \ {b}
  BY <1>1, TaskReplaced DEF OnTheirWay, OrdersIInv
<1>6. Finite /\ Finite'
  BY BothFinite, PTL
<1>7. /\ IsFiniteSet(PendingOrders \cup {o})
      /\ Cardinality(PendingOrders \cup {o}) \in
            {Cardinality(PendingOrders), Cardinality(PendingOrders) + 1}
  BY <1>6, FS_AddElement DEF Finite
<1>8. IsFiniteSet(OnTheirWay \ {b})
      /\ Cardinality(OnTheirWay \ {b}) = Cardinality(OnTheirWay) - 1
  BY <1>5, <1>6, FS_RemoveElement DEF Finite
<1>9. Cardinality(PendingOrders') <= Cardinality(PendingOrders) + 1
  <2>1. Cardinality(PendingOrders') <= Cardinality(PendingOrders \cup {o})
    BY <1>4, <1>7, FS_Subset
  <2>2. QED
    BY <1>6, <1>7, <2>1 DEF Finite
<1>10. Cardinality(OnTheirWay') <= Cardinality(OnTheirWay) - 1
  BY <1>5, <1>8, FS_Subset
<1>11. PendingBounded'
  BY <1>6, <1>9, <1>10, PendingAssumption DEF PendingBounded, OrdersIInv, Finite
<1>12. QED
  BY <1>3, <1>11 DEF OrdersIInv

\* A caller that reads an order, gives up, or commits a status that is not
\* PENDING.
LEMMA OthersKeep ==
  ASSUME OrdersIInv, NEW b \in Buyers \cup {"orders"}, NEW T,
         \A u \in T : u.step # "create",
         request' = [request EXCEPT ![b] = T],
         order' \in [OrderId -> OrderRow], PendingOrders' \subseteq PendingOrders
  PROVE  OrdersIInv'
<1>1. Shaped'
  BY TaskReplaced DEF OrdersIInv, Shaped
<1>2. OnTheirWay' \subseteq OnTheirWay
  BY TaskReplaced DEF OnTheirWay, OrdersIInv
<1>3. QED
  BY <1>1, <1>2, FewerPending DEF OrdersIInv

\* A caller that is done holds no task.
LEMMA FinishKeeps ==
  ASSUME OrdersIInv, NEW b \in Buyers \cup {"orders"}, Finish(b),
         order' \in [OrderId -> OrderRow], PendingOrders' \subseteq PendingOrders
  PROVE  OrdersIInv'
<1> DEFINE none == {}
<1>1. request' = [request EXCEPT ![b] = none] /\ \A u \in none : u.step # "create"
  BY DEF Finish
<1> HIDE DEF none
<1>2. QED
  BY <1>1, OthersKeep

LEMMA OrdersIInvStep == OrdersIInv /\ [OrdersNext]_purchaseVars => OrdersIInv'
<1> SUFFICES ASSUME OrdersIInv, [OrdersNext]_purchaseVars
             PROVE  OrdersIInv'
  OBVIOUS
<1>0. order \in [OrderId -> OrderRow]
  BY DEF OrdersIInv, Shaped
<1>1. CASE UNCHANGED <<order, request>>
  <2>1. PendingOrders' = PendingOrders /\ OnTheirWay' = OnTheirWay /\ Shaped'
    BY <1>1 DEF PendingOrders, OnTheirWay, OrdersIInv, Shaped
  <2>2. QED
    BY <2>1, FewerPending DEF OrdersIInv
<1>2. ASSUME NEW b \in Buyers \cup {"orders"}, NEW o \in OrderId, NEW step \in {"cancel", "expire"},
             LoadOrder(b, step, o), UNCHANGED order
      PROVE  OrdersIInv'
  <2> DEFINE task == [step |-> step, id |-> o,
                      rows |-> [a \in Attendees |->
                                   IF a \in order[o].members THEN reg[a] ELSE NoRow]]
  <2>1. request' = [request EXCEPT ![b] = {task}]
    BY <1>2 DEF LoadOrder
  <2>2. task.step # "create" /\ PendingOrders' = PendingOrders
    BY <1>2 DEF PendingOrders
  <2>3. \A u \in {task} : u.step # "create"
    BY <2>2
  <2> HIDE DEF task
  <2>4. QED
    BY <1>0, <1>2, <2>1, <2>2, <2>3, OthersKeep
<1>3. ASSUME NEW b \in Buyers \cup {"orders"}, NEW t, NEW s \in {"EXPIRED", "CANCELLED"},
             SaveOrder(t, s), Finish(b)
      PROVE  OrdersIInv'
  <2>1. order' = [order EXCEPT ![t.id].status = s]
    BY <1>3 DEF SaveOrder
  <2>2. s \in PurchaseOrderStatus /\ s # "PENDING"
    BY DEF PurchaseOrderStatus
  <2>3. order' \in [OrderId -> OrderRow] /\ PendingOrders' \subseteq PendingOrders
    BY <2>1, <2>2, StatusSaved DEF OrdersIInv
  <2>4. QED
    BY <1>3, <2>3, FinishKeeps
<1>4. ASSUME NEW b \in Buyers \cup {"orders"}, Finish(b), UNCHANGED order
      PROVE  OrdersIInv'
  <2>1. PendingOrders' = PendingOrders
    BY <1>4 DEF PendingOrders
  <2>2. QED
    BY <1>0, <1>4, <2>1, FinishKeeps
<1>5. ASSUME NEW b \in Buyers, BuyerNext(b)
      PROVE  OrdersIInv'
  <2>1. CASE GuardPass(b)
    BY <2>1, GuardKeeps
  <2>2. CASE \E t \in request[b], o \in OrderId, S \in SUBSET Attendees, free \in BOOLEAN :
                OrderCreate(b, t, o, S, free)
    BY <2>2, CreateKeeps
  <2>3. CASE \E o \in OrderId : CancelRead(b, o)
    BY <2>3, <1>2 DEF CancelRead
  <2>4. CASE \E t \in request[b] : CancelSave(b, t)
    BY <2>4, <1>3 DEF CancelSave
  <2>5. CASE RequestFail(b)
    BY <2>5, <1>4 DEF RequestFail
  <2>6. QED
    BY <1>5, <2>1, <2>2, <2>3, <2>4, <2>5 DEF BuyerNext
<1>6. CASE \E o \in OrderId : OrderDeadline(o)
  BY <1>1, <1>6 DEF OrderDeadline, orderVars
<1>7. CASE ExpireNext \/ ExpireFail
  BY <1>2, <1>3, <1>4, <1>7 DEF ExpireNext, ExpireRead, ExpireSave, ExpireFail
<1>8. QED
  BY <1>1, <1>5, <1>6, <1>7 DEF OrdersNext, OrderNext, purchaseVars, orderVars

LEMMA OrdersIInvInit == OrdersInit => OrdersIInv
<1> SUFFICES ASSUME OrdersInit
             PROVE  OrdersIInv
  OBVIOUS
<1>1. Shaped
  BY DEF OrdersInit, OrdersInit0, Shaped, OrderRow, NoOrder
<1>2. PendingOrders = {} /\ OnTheirWay = {}
  BY DEF OrdersInit, OrdersInit0, PendingOrders, OnTheirWay, NoOrder
<1>3. Finite
  BY BothFinite
<1>4. PendingBounded
  BY <1>2, <1>3, FS_EmptySet, PendingAssumption DEF PendingBounded, Finite
<1>5. QED
  BY <1>1, <1>4 DEF OrdersIInv

\* Requests sent together pass the guard together, and exceed the limit of
\* open orders by no more than their number less one.
THEOREM OrdersBounded == OrdersSpec => []PendingBounded
<1>1. OrdersSpec => []OrdersIInv
  BY OrdersIInvInit, OrdersIInvStep, PTL DEF OrdersSpec
<1>2. QED
  BY <1>1, PTL DEF OrdersIInv

-----------------------------------------------------------------------------
(***************************************************************************)
(* Orders and the seats                                                    *)
(***************************************************************************)

\* Who may be out of the count.
Out == Excused \cup withdrawn

\* A row that does not count belongs to somebody who may be out, and an
\* expired one to somebody late.
Fine(a, row) ==
    /\ row.status \in CountedStatus \cup {"ABSENT"} \/ a \in Out
    /\ row.status = "EXPIRED" => a \in overdue

\* ... after the step.
FineNext(a, row) ==
    /\ row.status \in CountedStatus \cup {"ABSENT"} \/ a \in Out'
    /\ row.status = "EXPIRED" => a \in overdue'

Present(a) == a \in Attendees /\ reg[a].status # "ABSENT"

\* A row in memory.
Known(a, row) ==
    Present(a) /\ row \in Row /\ row.status # "ABSENT" /\ Fine(a, row)

RowsFine == \A a \in Attendees : Fine(a, reg[a])

BatchesSure ==
    \A k \in CronJobs : \A t \in sweep[k] : Known(t.id, t.row) /\ t.id \in overdue

DesksSure == \A d \in Desks : \A t \in desk[d] : Known(t.id, t.row)

TellerSure(t) ==
    /\ Present(t.id)
    /\ t.step \in {"capture", "savePaid", "confirm", "approveSeat"}
          => Known(t.id, t.row)

TellersSure ==
    /\ \A a \in Attendees : pay[a].status # "ABSENT" => Present(a)
    /\ \A p \in Tellers : \A t \in teller[p] : TellerSure(t)

\* A transaction holds the registrations of an order, and one that is about
\* to expire it found them late.
TaskSure(t) ==
    t.step # "create" =>
        /\ t.id \in OrderId
        /\ order[t.id].status # "ABSENT"
        /\ \A a \in order[t.id].members : Known(a, t.rows[a])
        /\ t.step = "expire" => OrderOverdue(t.id)

RequestsSure ==
    /\ \A o \in OrderId : order[o].status # "ABSENT" =>
          \A a \in order[o].members : Present(a)
    /\ \A o \in OrderId : order[o].status = "EXPIRED" => OrderOverdue(o)
    /\ \A b \in Buyers \cup {"orders"} : \A t \in request[b] : TaskSure(t)
    /\ \A t \in request["orders"] : t.step = "expire"

SeatTypes == RegTypeOK /\ DoorTypeOK /\ MoneyTypeOK /\ OrdersTypeOK

SeatsIInv ==
    /\ SeatTypes
    /\ RowsFine /\ BatchesSure /\ DesksSure /\ TellersSure /\ RequestsSure
    /\ OrdersWithinStock

-----------------------------------------------------------------------------

\* What every step does to the table: it leaves a row alone, inserts one that
\* counts, or writes one that is fine over one that exists.
Moves ==
    /\ reg' \in [Attendees -> Row]
    /\ overdue \subseteq overdue' /\ Out \subseteq Out'
    /\ \A a \in Attendees :
          \/ reg'[a] = reg[a]
          \/ reg[a].status = "ABSENT" /\ reg'[a].status \in CountedStatus
          \/ Present(a) /\ reg'[a].status # "ABSENT" /\ FineNext(a, reg'[a])

LEMMA QuietMoves ==
  ASSUME SeatsIInv, UNCHANGED reg, overdue \subseteq overdue', Out \subseteq Out'
  PROVE  Moves
BY DEF SeatsIInv, SeatTypes, RegTypeOK, Moves

LEMMA SaveMoves ==
  ASSUME SeatsIInv, NEW a, NEW r \in Row, Present(a), Save(a, r), r.status # "ABSENT",
         overdue \subseteq overdue', Out \subseteq Out', FineNext(a, r)
  PROVE  Moves
<1>1. a \in Attendees /\ RegTypeOK
  BY DEF Present, SeatsIInv, SeatTypes
<1>2. \A b \in Attendees : reg'[b] = IF b = a THEN r ELSE reg[b]
  BY <1>1, RowAfterSave
<1>3. reg' \in [Attendees -> Row]
  BY <1>1, SaveType
<1>4. QED
  BY <1>2, <1>3 DEF Moves

LEMMA PresentStays ==
  ASSUME Moves, NEW a, Present(a)
  PROVE  Present(a)'
BY DEF Moves, Present, CountedStatus

LEMMA KnownStays ==
  ASSUME Moves, NEW a, NEW row, Known(a, row)
  PROVE  Known(a, row)'
BY PresentStays DEF Known, Fine, Moves

LEMMA RowsStayFine ==
  ASSUME SeatsIInv, Moves
  PROVE  RowsFine'
<1> SUFFICES ASSUME NEW a \in Attendees
             PROVE  Fine(a, reg[a])'
  BY DEF RowsFine
<1>1. CASE reg'[a] = reg[a]
  BY <1>1 DEF SeatsIInv, RowsFine, Moves, Fine
<1>2. CASE reg'[a].status \in CountedStatus
  BY <1>2 DEF CountedStatus, Fine
<1>3. CASE FineNext(a, reg'[a])
  BY <1>3 DEF Fine, FineNext
<1>4. QED
  BY <1>1, <1>2, <1>3 DEF Moves

\* A row that was just read.
LEMMA ReadIsKnown ==
  ASSUME SeatsIInv, NEW a, Present(a)
  PROVE  Known(a, reg[a])
BY DEF SeatsIInv, SeatTypes, RegTypeOK, Present, Known, RowsFine

\* Whoever does not take part in a step keeps what he knows.
LEMMA OthersStaySure ==
  ASSUME SeatsIInv, Moves
  PROVE  /\ UNCHANGED sweep => BatchesSure'
         /\ UNCHANGED desk => DesksSure'
         /\ UNCHANGED <<pay, teller>> => TellersSure'
         /\ UNCHANGED <<order, request>> => RequestsSure'
<1> USE DEF SeatsIInv
<1>1. ASSUME UNCHANGED sweep
      PROVE  BatchesSure'
  BY <1>1, KnownStays DEF BatchesSure, Moves
<1>2. ASSUME UNCHANGED desk
      PROVE  DesksSure'
  BY <1>2, KnownStays DEF DesksSure
<1>3. ASSUME UNCHANGED <<pay, teller>>
      PROVE  TellersSure'
  BY <1>3, KnownStays, PresentStays DEF TellersSure, TellerSure
<1>4. ASSUME UNCHANGED <<order, request>>
      PROVE  RequestsSure'
  <2>1. \A o \in OrderId : order'[o].status # "ABSENT" =>
           \A a \in order'[o].members : Present(a)'
    BY <1>4, PresentStays DEF RequestsSure
  <2>2. \A o \in OrderId : OrderOverdue(o) => OrderOverdue(o)'
    BY <1>4 DEF OrderOverdue, Moves
  <2>3. ASSUME NEW t, TaskSure(t)
        PROVE  TaskSure(t)'
    <3>1. \A a : Known(a, t.rows[a]) => Known(a, t.rows[a])'
      BY KnownStays
    <3>2. QED
      BY <1>4, <2>2, <2>3, <3>1 DEF TaskSure
  <2>4. QED
    BY <1>4, <2>1, <2>2, <2>3 DEF RequestsSure
<1>5. QED
  BY <1>1, <1>2, <1>3, <1>4

-----------------------------------------------------------------------------

\* Nobody but those in S is inserted, and they fit.
LEMMA StockAfter ==
  ASSUME SeatsIInv, Moves, NEW S \in SUBSET Attendees,
         S = {} \/ FitsStock(S),
         \A a \in Attendees \ S : reg[a].status = "ABSENT" => reg'[a] = reg[a]
  PROVE  OrdersWithinStock'
<1>1. ASSUME NEW a \in Reserved', a \notin Out', a \notin S
      PROVE  a \in Reserved \ Out
  <2>1. a \in Attendees /\ reg'[a].status \in CountedStatus /\ a \notin Out
    BY <1>1 DEF Reserved, Moves
  <2>2. reg[a].status # "ABSENT"
    BY <1>1, <2>1 DEF CountedStatus
  <2>3. reg[a].status \in CountedStatus
    BY <2>1, <2>2 DEF SeatsIInv, RowsFine, Fine
  <2>4. QED
    BY <2>1, <2>3 DEF Reserved
<1>2. /\ IsFiniteSet(Reserved) /\ IsFiniteSet(Reserved \ Out) /\ IsFiniteSet(S)
      /\ IsFiniteSet(Reserved' \ Out')
  <2>1. Reserved \ Out \subseteq Attendees /\ Reserved' \ Out' \subseteq Attendees
    BY DEF Reserved
  <2>2. QED
    BY <2>1, ReservedFinite, AttendeesAssumption, FS_Subset
<1>3. /\ Cardinality(Reserved) \in Nat /\ Cardinality(S) \in Nat
      /\ Cardinality(Reserved \ Out) \in Nat /\ Cardinality(Reserved' \ Out') \in Nat
  BY <1>2, FS_CardinalityType
<1>4. Cardinality(Reserved' \ Out') <= Stock
  <2>1. CASE S = {}
    <3>1. Reserved' \ Out' \subseteq Reserved \ Out
      BY <1>1, <2>1
    <3>2. Cardinality(Reserved' \ Out') <= Cardinality(Reserved \ Out)
      BY <1>2, <3>1, FS_Subset
    <3>3. Cardinality(Reserved \ Out) <= Stock
      BY DEF SeatsIInv, OrdersWithinStock, Out
    <3>4. QED
      BY <1>3, <3>2, <3>3, StockAssumption
  <2>2. CASE FitsStock(S)
    <3>1. Reserved' \ Out' \subseteq Reserved \cup S
      BY <1>1
    <3>2. /\ IsFiniteSet(Reserved \cup S)
          /\ Cardinality(Reserved \cup S)
                = Cardinality(Reserved) + Cardinality(S) - Cardinality(Reserved \cap S)
      BY <1>2, FS_Union
    <3>3. Cardinality(Reserved \cap S) \in Nat
      BY <1>2, FS_Intersection, FS_CardinalityType
    <3>4. Cardinality(Reserved' \ Out') <= Cardinality(Reserved \cup S)
      BY <3>1, <3>2, FS_Subset
    <3>5. Cardinality(Reserved) + Cardinality(S) <= Stock
      BY <2>2 DEF FitsStock
    <3>6. QED
      BY <1>3, <3>2, <3>3, <3>4, <3>5, StockAssumption
  <2>3. QED
    BY <2>1, <2>2
<1>5. QED
  BY <1>4 DEF OrdersWithinStock, Out

\* A step that inserts nobody.
LEMMA NoneInserted ==
  ASSUME SeatsIInv, Moves, \A a \in Attendees : reg[a].status = "ABSENT" => reg'[a] = reg[a]
  PROVE  OrdersWithinStock'
<1>1. {} \in SUBSET Attendees
  OBVIOUS
<1>2. QED
  BY <1>1, StockAfter

-----------------------------------------------------------------------------

LEMMA SeatsKept ==
  ASSUME SeatsIInv, Moves, SeatTypes', BatchesSure', DesksSure', TellersSure',
         RequestsSure', OrdersWithinStock'
  PROVE  SeatsIInv'
BY RowsStayFine DEF SeatsIInv

\* A single registration, its deadline, and the cron jobs.
LEMMA SeatsReg ==
  ASSUME SeatsIInv, RegNext, UNCHANGED <<doorVars, moneyVars, orderVars>>
  PROVE  SeatsIInv'
<1>1. SeatTypes'
  BY RegTypeStep DEF SeatsIInv, SeatTypes, doorVars, moneyVars, orderVars,
     DoorTypeOK, MoneyTypeOK, OrdersTypeOK
<1>2. UNCHANGED <<desk, inside, pay, teller, order, request, withdrawn>>
  BY DEF doorVars, moneyVars, orderVars
<1>3. RegTypeOK
  BY DEF SeatsIInv, SeatTypes
<1>4. ASSUME Moves, BatchesSure', OrdersWithinStock'
      PROVE  SeatsIInv'
  BY <1>1, <1>2, <1>4, OthersStaySure, SeatsKept
<1>5. ASSUME NEW a \in Attendees, NEW free \in BOOLEAN, Create(a, free)
      PROVE  SeatsIInv'
  <2> DEFINE row == [status   |-> IF free THEN "CONFIRMED" ELSE "PENDING",
                     attended |-> FALSE,
                     free     |-> free]
  <2>1. InStock /\ reg[a].status = "ABSENT" /\ Save(a, row) /\ UNCHANGED <<overdue, sweep>>
    BY <1>5 DEF Create, IndexAccepts
  <2>2. row \in Row /\ row.status \in CountedStatus
    BY DEF Row, RegistrationStatus, CountedStatus
  <2> HIDE DEF row
  <2>3. \A b \in Attendees : reg'[b] = IF b = a THEN row ELSE reg[b]
    BY <1>3, <2>1, RowAfterSave
  <2>4. Moves
    BY <1>1, <1>2, <2>1, <2>2, <2>3 DEF SeatTypes, RegTypeOK, Moves, Out, Excused
  <2>5. FitsStock({a})
    <3>1. Cardinality({a}) = 1 /\ Cardinality(Reserved) \in Nat
      BY ReservedFinite, FS_Singleton, FS_CardinalityType
    <3>2. QED
      BY <2>1, <3>1, StockAssumption DEF InStock, FitsStock
  <2>6. OrdersWithinStock'
    BY <2>3, <2>4, <2>5, StockAfter
  <2>7. QED
    BY <1>4, <2>1, <2>4, <2>6, OthersStaySure
<1>6. ASSUME NEW a \in Attendees, Deadline(a)
      PROVE  SeatsIInv'
  <2>1. UNCHANGED <<reg, sweep>> /\ overdue \subseteq overdue'
    BY <1>6 DEF Deadline
  <2>2. Moves
    BY <1>2, <2>1, QuietMoves DEF Out, Excused
  <2>3. QED
    BY <1>4, <2>1, <2>2, OthersStaySure, NoneInserted
<1>7. ASSUME NEW k \in CronJobs, SweepFind(k)
      PROVE  SeatsIInv'
  <2> DEFINE batch == {[id |-> a, row |-> reg[a], saved |-> FALSE] :
                          a \in {x \in Attendees : Expirable(x)}}
  <2>1. UNCHANGED <<reg, overdue>> /\ sweep' = [sweep EXCEPT ![k] = batch]
    BY <1>7 DEF SweepFind
  <2>2. Moves
    BY <1>2, <2>1, QuietMoves DEF Out, Excused
  <2>3. ASSUME NEW t \in batch
        PROVE  Known(t.id, t.row) /\ t.id \in overdue
    <3>1. t.id \in Attendees /\ t.row = reg[t.id] /\ Expirable(t.id)
      OBVIOUS
    <3>2. Present(t.id) /\ t.id \in overdue
      BY <3>1 DEF Expirable, Present
    <3>3. QED
      BY <3>1, <3>2, ReadIsKnown
  <2> HIDE DEF batch
  <2>4. \A j \in CronJobs : sweep'[j] = IF j = k THEN batch ELSE sweep[j]
    BY <1>3, <2>1 DEF RegTypeOK
  <2>5. BatchesSure'
    BY <2>1, <2>2, <2>3, <2>4, KnownStays DEF SeatsIInv, BatchesSure
  <2>6. QED
    BY <1>4, <2>1, <2>2, <2>5, NoneInserted
<1>8. ASSUME NEW k \in CronJobs, NEW t \in sweep[k], SweepSave(k, t)
      PROVE  SeatsIInv'
  <2> DEFINE row == [t.row EXCEPT !.status = "EXPIRED"]
             done == [t EXCEPT !.saved = TRUE]
  <2>1. /\ Save(t.id, row)
        /\ sweep' = [sweep EXCEPT ![k] = (sweep[k] \ {t}) \cup {done}]
        /\ UNCHANGED overdue
    BY <1>8 DEF SweepSave
  <2>2. t.id \in overdue /\ Known(t.id, t.row) /\ t \in SweepTask
    BY <1>3 DEF SeatsIInv, BatchesSure, RegTypeOK
  <2>3. row \in Row /\ row.status = "EXPIRED"
    BY <2>2 DEF SweepTask, Row, RegistrationStatus
  <2>4. done.id = t.id /\ done.row = t.row
    BY <2>2 DEF SweepTask
  <2> HIDE DEF row, done
  <2>5. FineNext(t.id, row) /\ overdue \subseteq overdue' /\ Out \subseteq Out'
    BY <1>2, <2>1, <2>2, <2>3 DEF FineNext, Out, Excused
  <2>6. Moves
    BY <2>1, <2>2, <2>3, <2>5, SaveMoves DEF Known
  <2>7. \A a \in Attendees : reg[a].status = "ABSENT" => reg'[a] = reg[a]
    BY <1>3, <2>1, <2>2, RowAfterSave DEF Known, Present
  <2>8. \A j \in CronJobs : \A u \in sweep'[j] : u = done \/ u \in sweep[j]
    BY <1>3, <2>1 DEF RegTypeOK
  <2>9. Known(done.id, done.row) /\ done.id \in overdue
    BY <2>2, <2>4
  <2>10. BatchesSure'
    BY <2>1, <2>6, <2>8, <2>9, KnownStays DEF SeatsIInv, BatchesSure
  <2>11. QED
    BY <1>4, <2>6, <2>7, <2>10, NoneInserted
<1>9. ASSUME UNCHANGED <<reg, overdue>>, NEW k \in CronJobs, NEW T \in SUBSET sweep[k],
             sweep' = [sweep EXCEPT ![k] = T]
      PROVE  SeatsIInv'
  <2>1. Moves
    BY <1>2, <1>9, QuietMoves DEF Out, Excused
  <2>2. \A j \in CronJobs : sweep'[j] \subseteq sweep[j]
    BY <1>3, <1>9 DEF RegTypeOK
  <2>3. BatchesSure'
    BY <1>9, <2>1, <2>2, KnownStays DEF SeatsIInv, BatchesSure
  <2>4. QED
    BY <1>4, <1>9, <2>1, <2>3, NoneInserted
<1>10. ASSUME NEW k \in CronJobs, NEW t \in sweep[k], SweepAnnounce(k, t)
      PROVE  SeatsIInv'
  BY <1>9, <1>10, sweep[k] \ {t} \in SUBSET sweep[k] DEF SweepAnnounce
<1>11. ASSUME NEW k \in CronJobs, SweepAbort(k)
      PROVE  SeatsIInv'
  BY <1>9, <1>11, {} \in SUBSET sweep[k] DEF SweepAbort
<1>12. QED
  BY <1>5, <1>6, <1>7, <1>8, <1>10, <1>11 DEF RegNext

-----------------------------------------------------------------------------

\* The types a save keeps, and the row it writes over one that is known.
LEMMA KnownSaved ==
  ASSUME SeatsIInv, NEW a, NEW old, NEW r \in Row, Known(a, old), Save(a, r),
         r.status # "ABSENT", overdue \subseteq overdue', Out \subseteq Out', FineNext(a, r)
  PROVE  Moves /\ OrdersWithinStock'
<1>1. Present(a) /\ a \in Attendees /\ RegTypeOK
  BY DEF Known, Present, SeatsIInv, SeatTypes
<1>2. Moves
  BY <1>1, SaveMoves
<1>3. \A b \in Attendees : reg[b].status = "ABSENT" => reg'[b] = reg[b]
  BY <1>1, RowAfterSave DEF Present
<1>4. QED
  BY <1>2, <1>3, NoneInserted

\* The door.
LEMMA SeatsDoor ==
  ASSUME SeatsIInv, DoorNext, UNCHANGED <<moneyVars, orderVars>>
  PROVE  SeatsIInv'
<1>1. UNCHANGED <<pay, teller, order, request, withdrawn>> /\ MoneyTypeOK' /\ OrdersTypeOK'
  BY DEF moneyVars, orderVars, SeatsIInv, SeatTypes, MoneyTypeOK, OrdersTypeOK
<1>2. RegTypeOK /\ DoorTypeOK
  BY DEF SeatsIInv, SeatTypes
<1> DEFINE rest == <<overdue, sweep, offered, told, aborts>>
<1>3. ASSUME UNCHANGED rest, Moves, DoorTypeOK', DesksSure', OrdersWithinStock'
      PROVE  SeatsIInv'
  <2>1. RegTypeOK'
    BY <1>2, <1>3 DEF RegTypeOK, Moves
  <2>2. QED
    BY <1>1, <1>3, <2>1, OthersStaySure, SeatsKept DEF SeatTypes
<1>4. ASSUME NEW d \in Desks, NEW T, T = {} \/ T = desk[d], Moves, inside \subseteq inside',
             UNCHANGED overdue, desk' = [desk EXCEPT ![d] = T]
      PROVE  DesksSure' /\ desk' \in [Desks -> SUBSET DeskTask]
  <2>1. desk' \in [Desks -> SUBSET DeskTask] /\ \A e \in Desks : desk'[e] \subseteq desk[e]
    BY <1>2, <1>4 DEF DoorTypeOK
  <2>2. QED
    BY <1>4, <2>1, KnownStays DEF SeatsIInv, DesksSure
<1>5. ASSUME NEW d \in Desks, NEW u \in DeskTask, Moves, Known(u.id, u.row)',
             desk' = [desk EXCEPT ![d] = {u}]
      PROVE  DesksSure' /\ desk' \in [Desks -> SUBSET DeskTask]
  <2>1. desk' \in [Desks -> SUBSET DeskTask]
    BY <1>2, <1>5 DEF DoorTypeOK
  <2>2. \A e \in Desks : \A t \in desk'[e] : t = u \/ t \in desk[e]
    BY <1>2, <1>5 DEF DoorTypeOK
  <2>3. QED
    BY <1>5, <2>1, <2>2, KnownStays DEF SeatsIInv, DesksSure
<1>6. ASSUME UNCHANGED <<reg, overdue>>, inside \subseteq inside'
      PROVE  Moves /\ OrdersWithinStock'
  <2>1. Moves
    BY <1>1, <1>6, QuietMoves DEF Out, Excused
  <2>2. QED
    BY <1>6, <2>1, NoneInserted
\* Reading a row.
<1>7. ASSUME NEW d \in Desks, NEW step \in DeskStep, NEW a \in Attendees, NEW in \in SUBSET Sessions,
             Begin(d, step, a, in), reg[a].status # "ABSENT",
             UNCHANGED <<regVars, ins, outs, inside>>
      PROVE  SeatsIInv'
  <2>0. PICK u : u = [step |-> step, id |-> a, row |-> reg[a], in |-> in]
    OBVIOUS
  <2>1. desk' = [desk EXCEPT ![d] = {u}] /\ UNCHANGED <<reg, rest, ins, outs, inside>>
    BY <1>7, <2>0 DEF Begin, regVars
  <2>2. u \in DeskTask /\ u.id = a /\ u.row = reg[a]
    BY <1>2, <1>7, <2>0 DEF DeskTask, RegTypeOK
  <2>3. Known(u.id, u.row)
    BY <1>7, <2>2, ReadIsKnown DEF Present
  <2>4. Moves /\ OrdersWithinStock'
    BY <1>6, <2>1
  <2>5. Known(u.id, u.row)'
    BY <2>3, <2>4, KnownStays
  <2>6. DesksSure' /\ desk' \in [Desks -> SUBSET DeskTask]
    BY <1>5, <2>1, <2>2, <2>4, <2>5
  <2>7. DoorTypeOK'
    BY <1>2, <2>1, <2>6 DEF DoorTypeOK
  <2>8. QED
    BY <1>3, <2>1, <2>4, <2>6, <2>7
\* Saving it with other columns.
<1>8. ASSUME NEW d \in Desks, NEW t \in desk[d], NEW r \in Row, Save(t.id, r), Done(d), Admit(t.id),
             r.status \in {t.row.status, "ATTENDED"},
             UNCHANGED <<rest, ins, outs>>
      PROVE  SeatsIInv'
  <2>1. Known(t.id, t.row) /\ t.id \in Attendees
    BY DEF SeatsIInv, DesksSure, Known, Present
  <2>2. /\ desk' = [desk EXCEPT ![d] = {}]
        /\ inside' = inside \cup {t.id}
        /\ UNCHANGED <<overdue, withdrawn>>
    BY <1>1, <1>8 DEF Done, Admit
  <2>3. r.status # "ABSENT" /\ FineNext(t.id, r) /\ Out \subseteq Out'
    BY <1>8, <2>1, <2>2 DEF Known, Fine, FineNext, Out, Excused
  <2>4. Moves /\ OrdersWithinStock'
    BY <1>8, <2>1, <2>2, <2>3, KnownSaved
  <2>5. DesksSure' /\ desk' \in [Desks -> SUBSET DeskTask]
    BY <1>4, <2>2, <2>4
  <2>6. DoorTypeOK'
    BY <1>2, <1>8, <2>1, <2>2, <2>5 DEF DoorTypeOK
  <2>7. QED
    BY <1>3, <1>8, <2>4, <2>5, <2>6
\* Going on, or answering.
<1>9. ASSUME NEW d \in Desks, NEW t \in desk[d], NEW step \in DeskStep,
             Done(d) \/ Continue(d, t, step),
             UNCHANGED regVars, inside' \in {inside, inside \cup {t.id}},
             ins' \subseteq Visit, outs' \subseteq Visit
      PROVE  SeatsIInv'
  <2> DEFINE u == [t EXCEPT !.step = step]
  <2>1. t \in DeskTask /\ t.id \in Attendees /\ Known(t.id, t.row)
    BY <1>2 DEF DoorTypeOK, DeskTask, SeatsIInv, DesksSure
  <2>2. UNCHANGED <<reg, rest>> /\ inside \subseteq inside' /\ inside' \subseteq Attendees
    BY <1>2, <1>9, <2>1 DEF regVars, DoorTypeOK
  <2>3. Moves /\ OrdersWithinStock'
    BY <1>6, <2>2
  <2>4. DesksSure' /\ desk' \in [Desks -> SUBSET DeskTask]
    <3>1. CASE Done(d)
      BY <1>4, <2>2, <2>3, <3>1 DEF Done
    <3>2. CASE Continue(d, t, step)
      <4>1. u \in DeskTask /\ u.id = t.id /\ u.row = t.row
        BY <2>1 DEF DeskTask
      <4>2. desk' = [desk EXCEPT ![d] = {u}]
        BY <3>2 DEF Continue
      <4> HIDE DEF u
      <4>3. Known(u.id, u.row)'
        BY <2>1, <2>3, <4>1, KnownStays
      <4>4. QED
        BY <1>5, <2>3, <4>1, <4>2, <4>3
    <3>3. QED
      BY <1>9, <3>1, <3>2
  <2>5. DoorTypeOK'
    BY <1>9, <2>2, <2>4 DEF DoorTypeOK
  <2>6. QED
    BY <1>3, <2>2, <2>3, <2>4, <2>5
<1>10. ASSUME NEW d \in Desks, DeskStart(d)
       PROVE  SeatsIInv'
  <2>1. PICK a \in Attendees :
           \/ LegacyRead(d, a) \/ EventRead(d, a)
           \/ \E s \in Sessions : SessionRead(d, a, s) \/ OutRead(d, a, s)
    BY <1>10 DEF DeskStart
  <2>2. ValidTicket(a) => reg[a].status # "ABSENT"
    BY DEF ValidTicket
  <2>3. {"save", "saveAttended", "lookup", "leave"} \subseteq DeskStep
    BY DEF DeskStep
  <2>4. CASE LegacyRead(d, a) \/ EventRead(d, a)
    BY <1>7, <2>2, <2>3, <2>4, {} \in SUBSET Sessions DEF LegacyRead, EventRead
  <2>5. ASSUME NEW s \in Sessions, SessionRead(d, a, s) \/ OutRead(d, a, s)
        PROVE  SeatsIInv'
    BY <1>7, <2>2, <2>3, <2>5, {s} \in SUBSET Sessions DEF SessionRead, OutRead
  <2>6. QED
    BY <2>1, <2>4, <2>5
<1>11. ASSUME NEW d \in Desks, NEW t \in desk[d], LegacySave(d, t) \/ AttendedSave(d, t)
       PROVE  SeatsIInv'
  <2>1. t.row \in Row
    BY <1>2 DEF DoorTypeOK, DeskTask
  <2>2. CASE LegacySave(d, t)
    <3> DEFINE r == [t.row EXCEPT !.attended = TRUE]
    <3>1. r \in Row /\ r.status = t.row.status
      BY <2>1 DEF Row
    <3>2. Save(t.id, r) /\ Done(d) /\ Admit(t.id) /\ UNCHANGED <<rest, ins, outs>>
      BY <2>2 DEF LegacySave
    <3> HIDE DEF r
    <3>3. QED
      BY <1>8, <3>1, <3>2
  <2>3. CASE AttendedSave(d, t)
    <3> DEFINE r == [t.row EXCEPT !.attended = TRUE, !.status = "ATTENDED"]
    <3>1. r \in Row /\ r.status = "ATTENDED"
      BY <2>1 DEF Row, RegistrationStatus
    <3>2. Save(t.id, r) /\ Done(d) /\ Admit(t.id) /\ UNCHANGED <<rest, ins, outs>>
      BY <2>3 DEF AttendedSave
    <3> HIDE DEF r
    <3>3. QED
      BY <1>8, <3>1, <3>2
  <2>4. QED
    BY <1>11, <2>2, <2>3
<1>12. ASSUME NEW d \in Desks, NEW t \in desk[d],
              SessionLookup(d, t) \/ SessionAttend(d, t) \/ OutSave(d, t)
       PROVE  SeatsIInv'
  <2>1. t.id \in Attendees /\ t.in \subseteq Sessions /\ ins \subseteq Visit /\ outs \subseteq Visit
    BY <1>2 DEF DoorTypeOK, DeskTask
  <2>2. {t.id} \X t.in \subseteq Visit
    BY <2>1 DEF Visit
  <2>3. {"attend", "saveAttended"} \subseteq DeskStep
    BY DEF DeskStep
  <2>4. CASE SessionLookup(d, t)
    BY <1>9, <2>1, <2>3, <2>4 DEF SessionLookup, Admit
  <2>5. CASE SessionAttend(d, t)
    BY <1>9, <2>1, <2>2, <2>3, <2>5 DEF SessionAttend, Admit
  <2>6. CASE OutSave(d, t)
    BY <1>9, <2>1, <2>2, <2>3, <2>6 DEF OutSave
  <2>7. QED
    BY <1>12, <2>4, <2>5, <2>6
<1>13. ASSUME NEW d \in Desks, DeskFail(d)
       PROVE  SeatsIInv'
  <2>1. PICK t \in desk[d] : TRUE
    BY <1>13 DEF DeskFail
  <2>2. QED
    BY <1>2, <1>9, <1>13, <2>1, "save" \in DeskStep DEF DeskFail, DoorTypeOK, DeskStep
<1>14. QED
  BY <1>10, <1>11, <1>12, <1>13 DEF DoorNext, DeskGoOn

-----------------------------------------------------------------------------

\* The payments.
LEMMA SeatsMoney ==
  ASSUME SeatsIInv, MoneyNext, UNCHANGED orderVars
  PROVE  SeatsIInv'
<1>1. UNCHANGED <<order, request, withdrawn>> /\ OrdersTypeOK'
  BY DEF orderVars, SeatsIInv, SeatTypes, OrdersTypeOK
<1>2. RegTypeOK /\ MoneyTypeOK /\ TellersSure
  BY DEF SeatsIInv, SeatTypes
<1> DEFINE rest == <<overdue, sweep, offered, told, aborts, doorVars>>
<1>3. ASSUME UNCHANGED rest, Moves, OrdersWithinStock', TellersSure', MoneyTypeOK'
      PROVE  SeatsIInv'
  <2>1. RegTypeOK' /\ DoorTypeOK' /\ UNCHANGED <<sweep, desk>>
    BY <1>2, <1>3 DEF RegTypeOK, DoorTypeOK, doorVars, Moves, SeatsIInv, SeatTypes
  <2>2. QED
    BY <1>1, <1>3, <2>1, OthersStaySure, SeatsKept DEF SeatTypes
<1>4. ASSUME UNCHANGED checkInVars
      PROVE  Moves /\ OrdersWithinStock' /\ UNCHANGED rest
  <2>1. UNCHANGED <<reg, overdue, inside, withdrawn, rest>>
    BY <1>1, <1>4 DEF checkInVars, regVars, doorVars
  <2>2. Moves
    BY <2>1, QuietMoves DEF Out, Excused
  <2>3. QED
    BY <2>1, <2>2, NoneInserted
<1>5. ASSUME NEW t, Moves, TellerSure(t)
      PROVE  TellerSure(t)'
  BY <1>5, KnownStays, PresentStays DEF TellerSure
\* The payments a step saves, and the request it leaves.
<1>6. ASSUME NEW p \in Tellers, NEW T \in SUBSET TellerTask, Moves, UNCHANGED rest, OrdersWithinStock',
             \A u \in T : TellerSure(u)', teller' = [teller EXCEPT ![p] = T],
             pay' \in [Attendees -> PayRow],
             \A a \in Attendees : pay'[a] = pay[a] \/ Present(a),
             captured' \subseteq Attendees, vouched' \subseteq Attendees
      PROVE  SeatsIInv'
  <2>1. teller' \in [Tellers -> SUBSET TellerTask]
        /\ \A q \in Tellers : teller'[q] = IF q = p THEN T ELSE teller[q]
    BY <1>2, <1>6 DEF MoneyTypeOK
  <2>2. \A q \in Tellers : \A t \in teller'[q] : TellerSure(t)'
    BY <1>2, <1>5, <1>6, <2>1 DEF TellersSure
  <2>3. \A a \in Attendees : pay'[a].status # "ABSENT" => Present(a)'
    BY <1>2, <1>6, PresentStays DEF TellersSure
  <2>4. TellersSure' /\ MoneyTypeOK'
    BY <1>6, <2>1, <2>2, <2>3 DEF TellersSure, MoneyTypeOK
  <2>5. QED
    BY <1>3, <1>6, <2>4
<1>7. ASSUME NEW p \in Tellers, NEW step \in TellerStep, NEW a \in Attendees, NEW payment \in PayRow,
             Load(p, step, a, payment), Present(a),
             step \in {"insert", "capture", "report", "approveSeat", "reject"},
             UNCHANGED <<checkInVars, pay>>, vouched' \in {vouched, vouched \cup {a}}, UNCHANGED captured
      PROVE  SeatsIInv'
  <2>0. PICK u : u = [step |-> step, id |-> a, pay |-> payment,
                      row  |-> IF step \in {"capture", "approveSeat"} THEN reg[a] ELSE NoRow]
    OBVIOUS
  <2>1. teller' = [teller EXCEPT ![p] = {u}]
    BY <1>7, <2>0 DEF Load
  <2>2. NoRow \in Row
    BY DEF NoRow, Row
  <2>3. u \in TellerTask /\ u.id = a /\ u.step = step
        /\ (step \in {"capture", "approveSeat"} => u.row = reg[a])
    BY <1>2, <1>7, <2>0, <2>2 DEF TellerTask, RegTypeOK
  <2>4. TellerSure(u)
    BY <1>7, <2>3, ReadIsKnown DEF TellerSure
  <2>5. Moves /\ OrdersWithinStock' /\ UNCHANGED rest
    BY <1>4, <1>7
  <2>6. TellerSure(u)'
    BY <1>5, <2>4, <2>5
  <2>7. /\ pay' \in [Attendees -> PayRow] /\ \A b \in Attendees : pay'[b] = pay[b]
        /\ captured' \subseteq Attendees /\ vouched' \subseteq Attendees
    BY <1>2, <1>7 DEF MoneyTypeOK
  <2>8. {u} \in SUBSET TellerTask /\ \A v \in {u} : TellerSure(v)'
    BY <2>3, <2>6
  <2>9. QED
    BY <1>6, <2>1, <2>5, <2>7, <2>8
<1>8. ASSUME NEW p \in Tellers, NEW t \in teller[p], NEW step \in TellerStep,
             Answer(p) \/ GoTo(p, t, step),
             step \in {"savePaid", "confirm"} => t.step \in {"capture", "savePaid"},
             step \in {"savePaid", "confirm", "approvePay"},
             Moves, OrdersWithinStock', UNCHANGED rest,
             pay' \in [Attendees -> PayRow],
             \A a \in Attendees : pay'[a] = pay[a] \/ a = t.id,
             captured' \subseteq Attendees, vouched' \subseteq Attendees
      PROVE  SeatsIInv'
  <2>1. t \in TellerTask /\ TellerSure(t) /\ Present(t.id)
    BY <1>2 DEF MoneyTypeOK, TellersSure, TellerSure
  <2>2. \A a \in Attendees : pay'[a] = pay[a] \/ Present(a)
    BY <1>8, <2>1
  <2>3. CASE Answer(p)
    <3>1. teller' = [teller EXCEPT ![p] = {}]
      BY <2>3 DEF Answer
    <3>2. QED
      BY <1>6, <1>8, <2>2, <3>1, {} \in SUBSET TellerTask
  <2>4. CASE GoTo(p, t, step)
    <3> DEFINE u == [t EXCEPT !.step = step]
    <3>1. teller' = [teller EXCEPT ![p] = {u}]
      BY <2>4 DEF GoTo
    <3>2. u \in TellerTask /\ u.id = t.id /\ u.row = t.row /\ u.step = step
      BY <2>1 DEF TellerTask
    <3> HIDE DEF u
    <3>3. TellerSure(u)
      BY <1>8, <2>1, <3>2 DEF TellerSure
    <3>4. {u} \in SUBSET TellerTask /\ \A v \in {u} : TellerSure(v)'
      BY <1>5, <1>8, <3>2, <3>3
    <3>5. QED
      BY <1>6, <1>8, <2>2, <3>1, <3>4
  <2>5. QED
    BY <1>8, <2>3, <2>4
<1>9. ASSUME NEW a \in Attendees, Payable(a) \/ Open(a)
      PROVE  Present(a)
  BY <1>2, <1>9 DEF Payable, Open, TellersSure, Present
<1>10. ASSUME NEW a \in Attendees
       PROVE  pay[a] \in PayRow
  BY <1>2 DEF MoneyTypeOK
<1>11. {"insert", "capture", "savePaid", "confirm", "report", "approveSeat", "approvePay", "reject"}
          \subseteq TellerStep
  BY DEF TellerStep
<1>12. ASSUME NEW p \in Tellers, TellerStart(p)
       PROVE  SeatsIInv'
  <2>1. PICK a \in Attendees :
           \/ \E viaPaypal \in BOOLEAN : IntentRead(p, a, viaPaypal)
           \/ PaypalRead(p, a)
           \/ ReportRead(p, a)
           \/ \E isApproved \in BOOLEAN : ReviewRead(p, a, isApproved)
    BY <1>12 DEF TellerStart
  <2>2. ASSUME NEW viaPaypal \in BOOLEAN, IntentRead(p, a, viaPaypal)
        PROVE  SeatsIInv'
    <3>1. [status |-> "PENDING", order |-> viaPaypal, disputed |-> FALSE] \in PayRow
      BY DEF PayRow, PaymentStatus
    <3>2. QED
      BY <1>7, <1>9, <1>11, <2>2, <3>1 DEF IntentRead
  <2>3. CASE PaypalRead(p, a)
    BY <1>7, <1>9, <1>10, <1>11, <2>3 DEF PaypalRead
  <2>4. CASE ReportRead(p, a)
    BY <1>7, <1>9, <1>10, <1>11, <2>4 DEF ReportRead
  <2>5. ASSUME NEW isApproved \in BOOLEAN, ReviewRead(p, a, isApproved)
        PROVE  SeatsIInv'
    <3>1. CASE isApproved
      BY <1>7, <1>9, <1>10, <1>11, <2>5, <3>1 DEF ReviewRead
    <3>2. CASE ~isApproved
      BY <1>7, <1>9, <1>10, <1>11, <2>5, <3>2 DEF ReviewRead
    <3>3. QED
      BY <3>1, <3>2
  <2>6. QED
    BY <2>1, <2>2, <2>3, <2>4, <2>5
<1>13. ASSUME NEW p \in Tellers, NEW t \in teller[p], NEW payment \in PayRow, NEW step \in TellerStep,
              UNCHANGED pay \/ SavePay(t.id, payment),
              Answer(p) \/ GoTo(p, t, step),
              step \in {"savePaid", "confirm"} => t.step \in {"capture", "savePaid"},
              step \in {"savePaid", "confirm", "approvePay"},
              UNCHANGED <<checkInVars, vouched>>, captured' \in {captured, captured \cup {t.id}}
       PROVE  SeatsIInv'
  <2>1. t.id \in Attendees
    BY <1>2 DEF MoneyTypeOK, TellerTask
  <2>2. /\ pay' \in [Attendees -> PayRow]
        /\ \A a \in Attendees : pay'[a] = pay[a] \/ a = t.id
    BY <1>2, <1>13, <2>1 DEF MoneyTypeOK, SavePay
  <2>3. captured' \subseteq Attendees /\ vouched' \subseteq Attendees
    BY <1>2, <1>13, <2>1 DEF MoneyTypeOK
  <2>4. Moves /\ OrdersWithinStock' /\ UNCHANGED rest
    BY <1>4, <1>13
  <2>5. QED
    BY <1>8, <1>13, <2>2, <2>3, <2>4
<1>14. ASSUME NEW p \in Tellers, NEW t \in teller[p], NEW step \in TellerStep,
              t.step \in {"confirm", "approveSeat"},
              Save(t.id, [t.row EXCEPT !.status = "CONFIRMED"]),
              Answer(p) \/ GoTo(p, t, step), step = "approvePay",
              UNCHANGED <<rest, pay, captured, vouched>>
       PROVE  SeatsIInv'
  <2>1. t.id \in Attendees /\ Known(t.id, t.row)
    BY <1>2, <1>14 DEF MoneyTypeOK, TellerTask, TellersSure, TellerSure
  <2> DEFINE r == [t.row EXCEPT !.status = "CONFIRMED"]
  <2>2. r \in Row /\ r.status = "CONFIRMED"
    BY <2>1 DEF Known, Row, RegistrationStatus
  <2>3. Save(t.id, r)
    BY <1>14
  <2> HIDE DEF r
  <2>4. UNCHANGED <<overdue, inside, withdrawn>>
    BY <1>1, <1>14 DEF doorVars
  <2>5. overdue \subseteq overdue' /\ Out \subseteq Out' /\ FineNext(t.id, r)
    BY <2>2, <2>4 DEF Out, Excused, FineNext, CountedStatus
  <2>6. Moves /\ OrdersWithinStock'
    BY <2>1, <2>2, <2>3, <2>5, KnownSaved
  <2>7. pay' \in [Attendees -> PayRow] /\ (\A a \in Attendees : pay'[a] = pay[a] \/ a = t.id)
        /\ captured' \subseteq Attendees /\ vouched' \subseteq Attendees
    BY <1>2, <1>14 DEF MoneyTypeOK
  <2>8. /\ step \in {"savePaid", "confirm"} => t.step \in {"capture", "savePaid"}
        /\ step \in {"savePaid", "confirm", "approvePay"}
    BY <1>14
  <2>9. UNCHANGED rest /\ (Answer(p) \/ GoTo(p, t, step))
    BY <1>14
  <2>10. QED
    BY <1>8, <2>6, <2>7, <2>8, <2>9
<1>15. ASSUME NEW p \in Tellers, TellerGoOn(p)
       PROVE  SeatsIInv'
  <2>1. PICK t \in teller[p] :
           \/ IntentInsert(p, t) \/ PaypalCapture(p, t) \/ PaypalSavePay(p, t)
           \/ PaypalSaveSeat(p, t) \/ ReportSave(p, t) \/ ApproveSaveSeat(p, t)
           \/ ApproveSavePay(p, t) \/ RejectSave(p, t)
    BY <1>15 DEF TellerGoOn
  <2>2. t.pay \in PayRow
    BY <1>2 DEF MoneyTypeOK, TellerTask
  <2>3. \A s \in PaymentStatus : [t.pay EXCEPT !.status = s] \in PayRow
    BY <2>2 DEF PayRow
  <2>4. {"COMPLETED", "WAITING_APPROVAL", "REJECTED"} \subseteq PaymentStatus
    BY DEF PaymentStatus
  <2>5. CASE IntentInsert(p, t)
    BY <1>11, <1>13, <2>2, <2>5 DEF IntentInsert
  <2>6. CASE PaypalCapture(p, t)
    BY <1>11, <1>13, <2>2, <2>6 DEF PaypalCapture
  <2>7. CASE PaypalSavePay(p, t)
    BY <1>11, <1>13, <2>3, <2>4, <2>7 DEF PaypalSavePay
  <2>8. CASE PaypalSaveSeat(p, t)
    BY <1>11, <1>14, <2>8 DEF PaypalSaveSeat
  <2>9. CASE ReportSave(p, t)
    BY <1>11, <1>13, <2>3, <2>4, <2>9 DEF ReportSave
  <2>10. CASE ApproveSaveSeat(p, t)
    BY <1>11, <1>14, <2>10 DEF ApproveSaveSeat
  <2>11. CASE ApproveSavePay(p, t)
    BY <1>11, <1>13, <2>3, <2>4, <2>11 DEF ApproveSavePay
  <2>12. CASE RejectSave(p, t)
    BY <1>11, <1>13, <2>3, <2>4, <2>12 DEF RejectSave
  <2>13. QED
    BY <2>1, <2>5, <2>6, <2>7, <2>8, <2>9, <2>10, <2>11, <2>12
<1>16. ASSUME NEW p \in Tellers, TellerFail(p)
       PROVE  SeatsIInv'
  <2>1. PICK t \in teller[p] : TRUE
    BY <1>16 DEF TellerFail
  <2>2. t.pay \in PayRow
    BY <1>2 DEF MoneyTypeOK, TellerTask
  <2>3. QED
    BY <1>11, <1>13, <1>16, <2>1, <2>2 DEF TellerFail
<1>17. QED
  BY <1>12, <1>15, <1>16 DEF MoneyNext

-----------------------------------------------------------------------------

\* An order keeps its people, and is never deleted.
OrdersStay ==
    \A o \in OrderId : order[o].status # "ABSENT" =>
        order'[o].status # "ABSENT" /\ order'[o].members = order[o].members

LEMMA TaskStays ==
  ASSUME Moves, OrdersStay, NEW t, TaskSure(t)
  PROVE  TaskSure(t)'
<1>1. \A a : Known(a, t.rows[a]) => Known(a, t.rows[a])'
  BY KnownStays
<1>2. QED
  BY <1>1 DEF TaskSure, OrdersStay, OrderOverdue, Moves

\* One caller replaces his task.
LEMMA RequestReplaced ==
  ASSUME SeatsIInv, Moves, OrdersStay, NEW b \in Buyers \cup {"orders"},
         NEW T \in SUBSET OrderTask, request' = [request EXCEPT ![b] = T],
         \A t \in T : TaskSure(t)' /\ (b = "orders" => t.step = "expire"),
         \A o \in OrderId : order'[o].status # "ABSENT" =>
            \A a \in order'[o].members : Present(a)',
         \A o \in OrderId : order'[o].status = "EXPIRED" => OrderOverdue(o)'
  PROVE  RequestsSure' /\ request' \in [Buyers \cup {"orders"} -> SUBSET OrderTask]
<1>1. RequestsSure /\ request \in [Buyers \cup {"orders"} -> SUBSET OrderTask]
  BY DEF SeatsIInv, SeatTypes, OrdersTypeOK
<1>2. request' \in [Buyers \cup {"orders"} -> SUBSET OrderTask]
      /\ \A c \in Buyers \cup {"orders"} : request'[c] = IF c = b THEN T ELSE request[c]
  BY <1>1
<1>3. \A c \in Buyers \cup {"orders"} : \A t \in request'[c] : TaskSure(t)'
  BY <1>1, <1>2, TaskStays DEF RequestsSure
<1>4. \A t \in request'["orders"] : t.step = "expire"
  BY <1>1, <1>2 DEF RequestsSure
<1>5. QED
  BY <1>2, <1>3, <1>4 DEF RequestsSure

\* What an order takes part in.
LEMMA SeatsTouched ==
  ASSUME SeatsIInv, UNCHANGED <<doorVars, moneyVars, sweep, offered, told>>,
         overdue' \subseteq Attendees, aborts' \in 0..MaxAborts,
         Moves, OrdersTypeOK', RequestsSure', OrdersWithinStock'
  PROVE  SeatsIInv'
<1>1. UNCHANGED <<desk, pay, teller>>
  BY DEF doorVars, moneyVars
<1>2. RegTypeOK' /\ DoorTypeOK' /\ MoneyTypeOK'
  BY DEF SeatsIInv, SeatTypes, RegTypeOK, DoorTypeOK, MoneyTypeOK, Moves, doorVars, moneyVars
<1>3. QED
  BY <1>1, <1>2, OthersStaySure, SeatsKept DEF SeatTypes

\* A caller who writes no row.
LEMMA SeatsQuiet ==
  ASSUME SeatsIInv, UNCHANGED <<doorVars, moneyVars, sweep, offered, told, reg, overdue, order, withdrawn>>,
         aborts' \in 0..MaxAborts, NEW b \in Buyers \cup {"orders"},
         NEW T \in SUBSET OrderTask, request' = [request EXCEPT ![b] = T],
         \A t \in T : TaskSure(t) /\ (b = "orders" => t.step = "expire")
  PROVE  SeatsIInv'
<1>1. UNCHANGED inside
  BY DEF doorVars
<1>2. Moves
  BY <1>1, QuietMoves DEF Out, Excused
<1>3. OrdersStay
  BY DEF OrdersStay
<1>4. \A t \in T : TaskSure(t)' /\ (b = "orders" => t.step = "expire")
  BY <1>2, <1>3, TaskStays
<1>5. /\ \A o \in OrderId : order'[o].status # "ABSENT" =>
            \A a \in order'[o].members : Present(a)'
      /\ \A o \in OrderId : order'[o].status = "EXPIRED" => OrderOverdue(o)'
  BY <1>2, PresentStays DEF SeatsIInv, RequestsSure, OrderOverdue
<1>6. RequestsSure' /\ request' \in [Buyers \cup {"orders"} -> SUBSET OrderTask]
  BY <1>2, <1>3, <1>4, <1>5, RequestReplaced
<1>7. OrdersTypeOK' /\ overdue' \subseteq Attendees
  BY <1>6 DEF SeatsIInv, SeatTypes, OrdersTypeOK, RegTypeOK
<1>8. OrdersWithinStock'
  BY <1>2, NoneInserted
<1>9. QED
  BY <1>2, <1>6, <1>7, <1>8, SeatsTouched

\* The seats of an order are taken together.
LEMMA SeatsOrderCreate ==
  ASSUME SeatsIInv, NEW b \in Buyers, NEW t \in request[b], NEW o \in OrderId,
         NEW S \in SUBSET Attendees, NEW free \in BOOLEAN, OrderCreate(b, t, o, S, free)
  PROVE  SeatsIInv'
<1> DEFINE row == [status   |-> IF free THEN "CONFIRMED" ELSE "PENDING",
                   attended |-> FALSE,
                   free     |-> free]
           new == [status |-> IF free THEN "PAID" ELSE "PENDING", members |-> S]
<1>1. /\ order[o] = NoOrder /\ FitsStock(S)
      /\ \A a \in S : reg[a].status = "ABSENT"
      /\ order' = [order EXCEPT ![o] = new]
      /\ reg' = [a \in Attendees |-> IF a \in S THEN row ELSE reg[a]]
      /\ request' = [request EXCEPT ![b] = {}]
      /\ UNCHANGED <<overdue, sweep, offered, told, aborts, doorVars, moneyVars, withdrawn>>
  BY DEF OrderCreate, IndexAccepts, Finish
<1>2. row \in Row /\ row.status \in CountedStatus /\ row.status # "ABSENT"
  BY DEF Row, RegistrationStatus, CountedStatus
<1>3. new \in OrderRow /\ new.status \notin {"ABSENT", "EXPIRED"} /\ new.members = S
  BY DEF OrderRow, PurchaseOrderStatus
<1> HIDE DEF row, new
<1>4. RegTypeOK /\ OrdersTypeOK /\ RequestsSure
  BY DEF SeatsIInv, SeatTypes
<1>5. Moves
  BY <1>1, <1>2, <1>4 DEF RegTypeOK, Moves, Out, Excused, doorVars
<1>6. order' \in [OrderId -> OrderRow]
      /\ \A p \in OrderId : order'[p] = IF p = o THEN new ELSE order[p]
  BY <1>1, <1>3, <1>4 DEF OrdersTypeOK
<1>7. OrdersStay
  BY <1>1, <1>6 DEF OrdersStay, NoOrder
<1>8. \A p \in OrderId : order'[p].status # "ABSENT" =>
         \A a \in order'[p].members : Present(a)'
  <2>1. \A a \in S : Present(a)'
    BY <1>1, <1>2 DEF Present
  <2>2. QED
    BY <1>3, <1>4, <1>5, <1>6, <2>1, PresentStays DEF RequestsSure
<1>9. \A p \in OrderId : order'[p].status = "EXPIRED" => OrderOverdue(p)'
  BY <1>1, <1>3, <1>4, <1>6 DEF RequestsSure, OrderOverdue
<1>10. RequestsSure' /\ request' \in [Buyers \cup {"orders"} -> SUBSET OrderTask]
  BY <1>1, <1>5, <1>7, <1>8, <1>9, {} \in SUBSET OrderTask, RequestReplaced
<1>11. /\ OrdersTypeOK' /\ overdue' \subseteq Attendees /\ aborts' \in 0..MaxAborts
       /\ UNCHANGED <<doorVars, moneyVars, sweep, offered, told>>
  BY <1>1, <1>4, <1>6, <1>10 DEF OrdersTypeOK, RegTypeOK
<1>12. OrdersWithinStock'
  BY <1>1, <1>5, StockAfter
<1>13. QED
  BY <1>5, <1>10, <1>11, <1>12, SeatsTouched

\* An order and its registrations are written back with a status that does
\* not count.
LEMMA SeatsOrderSave ==
  ASSUME SeatsIInv, NEW b \in Buyers \cup {"orders"}, NEW t \in request[b],
         NEW s \in {"CANCELLED", "EXPIRED"}, SaveOrder(t, s), Finish(b),
         UNCHANGED <<overdue, sweep, offered, told, aborts, doorVars, moneyVars>>,
         t.step # "create", s = "EXPIRED" => t.step = "expire",
         withdrawn' = IF s = "EXPIRED" THEN withdrawn ELSE withdrawn \cup order[t.id].members
  PROVE  SeatsIInv'
<1> DEFINE M == order[t.id].members
<1>1. RegTypeOK /\ OrdersTypeOK /\ RequestsSure
  BY DEF SeatsIInv, SeatTypes
<1>2. /\ t.id \in OrderId /\ order[t.id].status # "ABSENT" /\ M \subseteq Attendees
      /\ \A a \in M : Known(a, t.rows[a])
      /\ s = "EXPIRED" => M \subseteq overdue
  BY <1>1 DEF RequestsSure, TaskSure, OrdersTypeOK, OrderRow, OrderOverdue
<1>3. \A a \in Attendees :
         reg'[a] = IF a \in M THEN [t.rows[a] EXCEPT !.status = s] ELSE reg[a]
  BY DEF SaveOrder
<1>4. \A a \in M : reg'[a] \in Row /\ reg'[a].status = s
  <2>1. ASSUME NEW a \in M
        PROVE  reg'[a] \in Row /\ reg'[a].status = s
    <3>1. t.rows[a] \in Row /\ a \in Attendees
      BY <1>2, <2>1 DEF Known
    <3>2. s \in RegistrationStatus
      BY DEF RegistrationStatus
    <3>3. reg'[a] = [t.rows[a] EXCEPT !.status = s]
      BY <1>3, <2>1, <3>1
    <3>4. QED
      BY <3>1, <3>2, <3>3, StatusType DEF Row
  <2>2. QED
    BY <2>1
<1>5. reg' \in [Attendees -> Row]
  <2>1. \A a \in Attendees : reg'[a] \in Row
    BY <1>1, <1>3, <1>4 DEF RegTypeOK
  <2>2. reg' = [a \in Attendees |-> reg'[a]]
    BY DEF SaveOrder
  <2>3. QED
    BY <2>1, <2>2
<1>6. overdue \subseteq overdue' /\ Out \subseteq Out' /\ M \subseteq Out'
  BY <1>2 DEF Out, Excused, doorVars
<1>7. \A a \in M : Present(a) /\ reg'[a].status # "ABSENT" /\ FineNext(a, reg'[a])
  BY <1>2, <1>4, <1>6 DEF Known, FineNext
<1>8. Moves
  BY <1>3, <1>5, <1>6, <1>7 DEF Moves
<1>9. \A a \in Attendees : reg[a].status = "ABSENT" => reg'[a] = reg[a]
  BY <1>3, <1>7 DEF Present
<1>10. OrdersWithinStock'
  BY <1>8, <1>9, NoneInserted
<1>11. /\ order' \in [OrderId -> OrderRow]
       /\ \A p \in OrderId : order'[p].members = order[p].members
       /\ \A p \in OrderId : order'[p].status = IF p = t.id THEN s ELSE order[p].status
  BY <1>1, <1>2 DEF SaveOrder, OrdersTypeOK, OrderRow, PurchaseOrderStatus
<1>12. OrdersStay
  BY <1>11 DEF OrdersStay
<1>13. /\ \A o \in OrderId : order'[o].status # "ABSENT" =>
             \A a \in order'[o].members : Present(a)'
       /\ \A o \in OrderId : order'[o].status = "EXPIRED" => OrderOverdue(o)'
  BY <1>1, <1>2, <1>8, <1>11, PresentStays DEF RequestsSure, OrderOverdue
<1>14. RequestsSure' /\ request' \in [Buyers \cup {"orders"} -> SUBSET OrderTask]
  BY <1>8, <1>12, <1>13, {} \in SUBSET OrderTask, RequestReplaced DEF Finish
<1>15. OrdersTypeOK' /\ overdue' \subseteq Attendees /\ aborts' \in 0..MaxAborts
  BY <1>1, <1>2, <1>11, <1>14 DEF OrdersTypeOK, RegTypeOK
<1>16. QED
  BY <1>8, <1>10, <1>14, <1>15, SeatsTouched

LEMMA SeatsOrder ==
  ASSUME SeatsIInv, OrderNext
  PROVE  SeatsIInv'
<1>1. RegTypeOK /\ OrdersTypeOK /\ RequestsSure
  BY DEF SeatsIInv, SeatTypes
<1>2. aborts \in 0..MaxAborts /\ "orders" \notin Buyers
  BY <1>1, BuyersAssumption DEF RegTypeOK
<1>3. ASSUME NEW b \in Buyers, GuardPass(b)
      PROVE  SeatsIInv'
  <2> DEFINE u == [step |-> "create", id |-> 0, rows |-> [a \in Attendees |-> NoRow]]
  <2>1. /\ request' = [request EXCEPT ![b] = {u}]
        /\ UNCHANGED <<doorVars, moneyVars, sweep, offered, told, reg, overdue, order, withdrawn, aborts>>
    BY <1>3 DEF GuardPass, paymentVars, checkInVars, regVars
  <2>2. {u} \in SUBSET OrderTask /\ \A t \in {u} : t.step = "create"
    BY OrdersAssumption DEF OrderTask, NoRow, Row
  <2> HIDE DEF u
  <2>3. \A t \in {u} : TaskSure(t) /\ (b = "orders" => t.step = "expire")
    BY <1>2, <2>2 DEF TaskSure
  <2>4. QED
    BY <1>2, <2>1, <2>2, <2>3, SeatsQuiet
<1>4. ASSUME NEW b \in Buyers \cup {"orders"}, NEW o \in OrderId, NEW step \in {"cancel", "expire"},
             order[o].status = "PENDING", LoadOrder(b, step, o),
             step = "expire" => OrderOverdue(o), b = "orders" => step = "expire",
             UNCHANGED <<paymentVars, order, withdrawn>>
      PROVE  SeatsIInv'
  <2>0. PICK u : u = [step |-> step, id |-> o,
                      rows |-> [a \in Attendees |->
                                   IF a \in order[o].members THEN reg[a] ELSE NoRow]]
    OBVIOUS
  <2>1. /\ request' = [request EXCEPT ![b] = {u}]
        /\ UNCHANGED <<doorVars, moneyVars, sweep, offered, told, reg, overdue, order, withdrawn, aborts>>
    BY <1>4, <2>0 DEF LoadOrder, paymentVars, checkInVars, regVars
  <2>2. u.rows \in [Attendees -> Row]
    BY <1>1, <2>0 DEF RegTypeOK, NoRow, Row
  <2>3. u \in OrderTask
    BY <2>0, <2>2, OrdersAssumption DEF OrderTask, OrderId
  <2>4. \A a \in order[o].members : a \in Attendees /\ Present(a) /\ u.rows[a] = reg[a]
    BY <1>1, <1>4, <2>0 DEF RequestsSure, Present
  <2>5. \A a \in order[o].members : Known(a, u.rows[a])
    BY <2>4, ReadIsKnown
  <2>6. TaskSure(u) /\ u.step = step
    BY <1>4, <2>0, <2>5 DEF TaskSure
  <2>7. {u} \in SUBSET OrderTask /\ \A t \in {u} : TaskSure(t) /\ (b = "orders" => t.step = "expire")
    BY <1>4, <2>3, <2>6
  <2>8. QED
    BY <1>2, <2>1, <2>7, SeatsQuiet
<1>5. ASSUME NEW b \in Buyers \cup {"orders"}, Finish(b), aborts' \in 0..MaxAborts,
             UNCHANGED <<doorVars, moneyVars, sweep, offered, told, reg, overdue, order, withdrawn>>
      PROVE  SeatsIInv'
  <2>1. request' = [request EXCEPT ![b] = {}]
    BY <1>5 DEF Finish
  <2>2. QED
    BY <1>5, <2>1, {} \in SUBSET OrderTask, SeatsQuiet
<1>6. ASSUME NEW o \in OrderId, OrderDeadline(o)
      PROVE  SeatsIInv'
  <2>1. /\ overdue' = overdue \cup order[o].members
        /\ UNCHANGED <<reg, sweep, offered, told, aborts, doorVars, moneyVars, orderVars>>
    BY <1>6 DEF OrderDeadline
  <2>2. UNCHANGED <<inside, order, request, withdrawn>> /\ OrdersTypeOK'
    BY <1>1, <2>1 DEF orderVars, doorVars, OrdersTypeOK
  <2>3. overdue \subseteq overdue' /\ overdue' \subseteq Attendees
    BY <1>1, <2>1 DEF RegTypeOK, OrdersTypeOK, OrderRow
  <2>4. Moves
    BY <2>1, <2>2, <2>3, QuietMoves DEF Out, Excused
  <2>5. QED
    BY <1>2, <2>1, <2>2, <2>3, <2>4, OthersStaySure, NoneInserted, SeatsTouched
<1>7. ASSUME NEW b \in Buyers, NEW t \in request[b], CancelSave(b, t)
      PROVE  SeatsIInv'
  <2>1. "CANCELLED" # "EXPIRED" /\ t.step = "cancel"
    BY <1>7 DEF CancelSave
  <2>2. /\ SaveOrder(t, "CANCELLED") /\ Finish(b)
        /\ withdrawn' = withdrawn \cup order[t.id].members
        /\ UNCHANGED <<overdue, sweep, offered, told, aborts, doorVars, moneyVars>>
    BY <1>7 DEF CancelSave
  <2>3. QED
    BY <2>1, <2>2, SeatsOrderSave
<1>8. ASSUME NEW t \in request["orders"], ExpireSave(t)
      PROVE  SeatsIInv'
  <2>1. t.step = "expire"
    BY <1>1 DEF RequestsSure
  <2>2. /\ SaveOrder(t, "EXPIRED") /\ Finish("orders")
        /\ UNCHANGED <<overdue, sweep, offered, told, aborts, doorVars, moneyVars, withdrawn>>
    BY <1>8 DEF ExpireSave
  <2>3. QED
    BY <2>1, <2>2, SeatsOrderSave
<1>9. ASSUME NEW b \in Buyers, BuyerNext(b)
      PROVE  SeatsIInv'
  <2>1. CASE \E t \in request[b], o \in OrderId, S \in SUBSET Attendees, free \in BOOLEAN :
                OrderCreate(b, t, o, S, free)
    BY <2>1, SeatsOrderCreate
  <2>2. CASE \E o \in OrderId : CancelRead(b, o)
    BY <1>2, <1>4, <2>2 DEF CancelRead
  <2>3. CASE RequestFail(b)
    BY <1>2, <1>5, <2>3 DEF RequestFail, paymentVars, checkInVars, regVars
  <2>4. QED
    BY <1>3, <1>7, <1>9, <2>1, <2>2, <2>3 DEF BuyerNext
<1>10. CASE ExpireNext
  BY <1>4, <1>8, <1>10 DEF ExpireNext, ExpireRead
<1>11. CASE ExpireFail
  <2>1. aborts' \in 0..MaxAborts
    BY <1>2, <1>11, AbortsAssumption DEF ExpireFail
  <2>2. QED
    BY <1>5, <1>11, <2>1 DEF ExpireFail
<1>12. QED
  BY <1>6, <1>9, <1>10, <1>11 DEF OrderNext

LEMMA SeatsIInvStep == SeatsIInv /\ [OrdersNext]_purchaseVars => SeatsIInv'
<1> SUFFICES ASSUME SeatsIInv, [OrdersNext]_purchaseVars
             PROVE  SeatsIInv'
  OBVIOUS
<1>1. CASE RegNext /\ UNCHANGED <<doorVars, moneyVars, orderVars>>
  BY <1>1, SeatsReg
<1>2. CASE DoorNext /\ UNCHANGED <<moneyVars, orderVars>>
  BY <1>2, SeatsDoor
<1>3. CASE MoneyNext /\ UNCHANGED orderVars
  BY <1>3, SeatsMoney
<1>4. CASE OrderNext
  BY <1>4, SeatsOrder
<1>5. CASE UNCHANGED purchaseVars
  <2>1. /\ UNCHANGED <<doorVars, moneyVars, sweep, offered, told, reg, overdue, order, withdrawn, aborts>>
        /\ UNCHANGED <<inside, request>>
    BY <1>5 DEF purchaseVars, paymentVars, checkInVars, regVars, orderVars, doorVars
  <2>2. Moves
    BY <2>1, QuietMoves DEF Out, Excused
  <2>3. OrdersTypeOK' /\ overdue' \subseteq Attendees /\ aborts' \in 0..MaxAborts
    BY <2>1 DEF SeatsIInv, SeatTypes, OrdersTypeOK, RegTypeOK
  <2>4. QED
    BY <2>1, <2>2, <2>3, OthersStaySure, NoneInserted, SeatsTouched
<1>6. QED
  BY <1>1, <1>2, <1>3, <1>4, <1>5 DEF OrdersNext, PaymentsNext, CheckInsNext

LEMMA SeatsIInvInit == OrdersInit => SeatsIInv
<1> SUFFICES ASSUME OrdersInit
             PROVE  SeatsIInv
  OBVIOUS
<1> USE DEF OrdersInit, PaymentsInit, CheckInsInit
<1>1. RegTypeOK
  BY AbortsAssumption DEF RegInit, RegTypeOK, NoRow, Row
<1>2. DoorTypeOK /\ MoneyTypeOK
  BY DEF DoorInit, DoorTypeOK, MoneyInit, MoneyTypeOK, NoPayment, PayRow
<1>3. OrdersTypeOK
  BY DEF OrdersInit0, OrdersTypeOK, NoOrder, OrderRow
<1>4. RowsFine /\ BatchesSure /\ DesksSure
  BY DEF RegInit, DoorInit, NoRow, RowsFine, Fine, BatchesSure, DesksSure
<1>5. TellersSure
  BY DEF MoneyInit, NoPayment, TellersSure
<1>6. RequestsSure
  BY DEF OrdersInit0, NoOrder, RequestsSure
<1>7. OrdersWithinStock
  <2>1. Reserved \ (Excused \cup withdrawn) = {}
    BY DEF RegInit, NoRow, Reserved, CountedStatus
  <2>2. QED
    BY <2>1, FS_EmptySet, StockAssumption DEF OrdersWithinStock
<1>8. QED
  BY <1>1, <1>2, <1>3, <1>4, <1>5, <1>6, <1>7 DEF SeatsIInv, SeatTypes

\* Whoever holds rows in memory holds rows that exist, and writes out of the
\* count only who is late, inside or withdrawn.
THEOREM SeatsInvariant == OrdersSpec => []SeatsIInv
BY SeatsIInvInit, SeatsIInvStep, PTL DEF OrdersSpec

\* Type correctness of the orders and of the transactions in progress.
THEOREM OrdersTypeCorrect == OrdersSpec => []OrdersTypeOK
<1>1. SeatsIInv => OrdersTypeOK
  BY DEF SeatsIInv, SeatTypes
<1>2. QED
  BY <1>1, SeatsInvariant, PTL

\* No order and no registration expires before its deadline, for every number
\* of jobs, desks, payments and orders in progress.
THEOREM OrdersExpireOnTime == OrdersSpec => []OrdersExpireLate
<1>1. SeatsIInv => OrdersExpireLate
  BY DEF SeatsIInv, RowsFine, Fine, RequestsSure, OrdersExpireLate
<1>2. QED
  BY <1>1, SeatsInvariant, PTL

\* Orders and single registrations share the stock, for every stock.
THEOREM OrdersStayWithinStock == OrdersSpec => []OrdersWithinStock
<1>1. SeatsIInv => OrdersWithinStock
  BY DEF SeatsIInv
<1>2. QED
  BY <1>1, SeatsInvariant, PTL

=============================================================================

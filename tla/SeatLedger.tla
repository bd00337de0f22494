----------------------------- MODULE SeatLedger -----------------------------
(***************************************************************************)
(* What the stock of a ticket promises, without tables, jobs or requests.  *)
(*                                                                         *)
(* A seat is granted to a person once, and only while fewer seats are      *)
(* counted than there are in stock.  Whoever stops counting, or is known   *)
(* to be about to, is `excused', and only an excused person may come back  *)
(* into the count without a new check of the stock.  The promise is that   *)
(* nobody else is ever counted beyond the stock.                           *)
(***************************************************************************)
EXTENDS Integers, FiniteSets

CONSTANTS Attendees, Stock

VARIABLES
    granted, \* people who were ever granted a seat
    counted, \* people whose seat counts against the stock now
    excused  \* people who left the count once, or may leave it at any time

ledgerVars == <<granted, counted, excused>>

LedgerInit == granted = {} /\ counted = {} /\ excused = {}

Grant(a) ==
    /\ a \notin granted
    /\ Cardinality(counted) < Stock
    /\ granted' = granted \cup {a}
    /\ counted' = counted \cup {a}
    /\ UNCHANGED excused

Excuse(a) ==
    /\ a \in granted
    /\ excused' = excused \cup {a}
    /\ UNCHANGED <<granted, counted>>

Leave(a) ==
    /\ a \in counted
    /\ counted' = counted \ {a}
    /\ excused' = excused \cup {a}
    /\ UNCHANGED granted

Return(a) ==
    /\ a \in excused
    /\ counted' = counted \cup {a}
    /\ UNCHANGED <<granted, excused>>

LedgerNext ==
    \E a \in Attendees : Grant(a) \/ Excuse(a) \/ Leave(a) \/ Return(a)

LedgerSpec == LedgerInit /\ [][LedgerNext]_ledgerVars

-----------------------------------------------------------------------------

LedgerTypeOK ==
    /\ granted \subseteq Attendees
    /\ counted \subseteq granted
    /\ excused \subseteq granted

\* The seats that nobody excused never exceed the stock.
WithinStock == Cardinality(counted \ excused) <= Stock

=============================================================================

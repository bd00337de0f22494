----------------------------- MODULE Numbering -----------------------------
(***************************************************************************)
(* What the tax office asks of the numbers of fiscal documents, without    *)
(* tables or transactions: every series is used from 1 upwards, one number *)
(* at a time, no number twice and none left out.                           *)
(***************************************************************************)
EXTENDS Naturals

CONSTANT Series

VARIABLE used \* the numbers issued, <<series, number>>

InUse(s) == {i \in used : i[1] = s}

NumberingInit == used = {}

\* The number after those that were issued before.
Issue(s) ==
    \E last \in {0} \cup {i[2] : i \in used} :
        /\ InUse(s) = {s} \X (1..last)
        /\ used' = used \cup {<<s, last + 1>>}

NumberingNext == \E s \in Series : Issue(s)

NumberingSpec == NumberingInit /\ [][NumberingNext]_used

=============================================================================

------------------------------ MODULE MCEvents ------------------------------
(***************************************************************************)
(* One event with one speaker, two sessions at most and one room; two      *)
(* requests change it while a visitor reads it and the job completes it.   *)
(***************************************************************************)
EXTENDS Events

CONSTANTS s1, s2

MCSpans == {<<0, 3>>, <<1, 2>>}
MCSessions == {s1, s2}

Talk == [room |-> "R1", span |-> <<1, 2>>, speakers |-> {}]

\* No session yet, or one of them.
MCAgendas == {[s \in MCSessions |-> {}],
              [s \in MCSessions |-> IF s = s1 THEN {Talk} ELSE {}]}
=============================================================================

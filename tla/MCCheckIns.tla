----------------------------- MODULE MCCheckIns -----------------------------
(***************************************************************************)
(* Small instances of CheckIns for TLC.                                    *)
(***************************************************************************)
EXTENDS CheckIns, TLC

\* Attendees, and desks, are interchangeable; the run checks invariants and a
\* refinement without fairness, for which symmetry is sound.
Symmetry == Permutations(Attendees) \cup Permutations(Desks)

=============================================================================

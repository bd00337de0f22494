----------------------------- MODULE MCPayments -----------------------------
(***************************************************************************)
(* Small instances of Payments for TLC: two payment requests overlap, and  *)
(* are the same to every property.                                         *)
(***************************************************************************)
EXTENDS Payments, TLC

CONSTANTS p1, p2

MCTellers == {p1, p2}

Symmetry == Permutations(MCTellers)

=============================================================================

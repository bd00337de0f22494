-------------------------- MODULE MCPurchaseOrders --------------------------
(***************************************************************************)
(* Small instances of PurchaseOrders for TLC.                              *)
(***************************************************************************)
EXTENDS PurchaseOrders, TLC

\* Attendees, and buyers' requests, are interchangeable; the run checks
\* invariants only, for which symmetry is sound.
Symmetry == Permutations(Attendees) \cup Permutations(Buyers)

=============================================================================

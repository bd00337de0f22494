----------------------------- MODULE MCDisputes -----------------------------
(***************************************************************************)
(* Small instances of Disputes for TLC.                                    *)
(***************************************************************************)
EXTENDS Disputes

=============================================================================

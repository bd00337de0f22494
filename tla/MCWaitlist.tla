----------------------------- MODULE MCWaitlist -----------------------------
(***************************************************************************)
(* Small instances of Waitlist for TLC.                                    *)
(***************************************************************************)
EXTENDS Waitlist

=============================================================================

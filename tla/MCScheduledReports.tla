-------------------------- MODULE MCScheduledReports --------------------------
(***************************************************************************)
(* Two reports, the hourly job and two requests of administrators; two     *)
(* failures in place of five switch a report off.                          *)
(***************************************************************************)
EXTENDS ScheduledReports
=============================================================================

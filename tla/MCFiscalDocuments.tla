------------------------- MODULE MCFiscalDocuments -------------------------
(***************************************************************************)
(* Small instances of FiscalDocuments for TLC.                             *)
(***************************************************************************)
EXTENDS FiscalDocuments

=============================================================================

--------------------------- MODULE MCFrontendSession ---------------------------
(***************************************************************************)
(* The instance of FrontendSession for TLC.                                *)
(***************************************************************************)
EXTENDS FrontendSession

=============================================================================

-------------------------- MODULE MCFrontendAdapter --------------------------
(***************************************************************************)
(* The instance of FrontendAdapter that TLC checks.                        *)
(***************************************************************************)
EXTENDS FrontendAdapter
=============================================================================

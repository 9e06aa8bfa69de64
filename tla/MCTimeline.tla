----------------------------- MODULE MCTimeline -----------------------------
(***************************************************************************)
(* The instance of Timeline that TLC checks.                               *)
(***************************************************************************)
EXTENDS Timeline
=============================================================================

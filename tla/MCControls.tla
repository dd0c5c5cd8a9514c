----------------------------- MODULE MCControls -----------------------------
(***************************************************************************)
(* Controls for TLC, with fingers as model values.                         *)
(***************************************************************************)
EXTENDS Controls

CONSTANTS f1, f2

=============================================================================

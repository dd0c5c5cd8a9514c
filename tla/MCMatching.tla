----------------------------- MODULE MCMatching -----------------------------
(***************************************************************************)
(* Matching for TLC, with users as model values.                           *)
(***************************************************************************)
EXTENDS Matching

CONSTANTS ann, bob

=============================================================================

---------------------------- MODULE MCGameScene ----------------------------
(***************************************************************************)
(* GameScene for TLC.  The configurations give the clocks and lives of the *)
(* game small values; no definition is replaced.                           *)
(***************************************************************************)
EXTENDS GameScene

=============================================================================

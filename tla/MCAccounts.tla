----------------------------- MODULE MCAccounts -----------------------------
(***************************************************************************)
(* Accounts for TLC, with users as model values.                           *)
(***************************************************************************)
EXTENDS Accounts

CONSTANTS ann, bob

=============================================================================

---------------------------- MODULE MCMessaging ----------------------------
(***************************************************************************)
(* Messaging for TLC, with users and keys as model values.                 *)
(***************************************************************************)
EXTENDS Messaging

CONSTANTS ann, bob, k1, k2

MCLooking == {<<"chat", ann>>, <<"table", bob>>}

=============================================================================

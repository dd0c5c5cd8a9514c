------------------------------- MODULE MCDeck -------------------------------
(***************************************************************************)
(* Deck for TLC: users are alike.                                          *)
(***************************************************************************)
EXTENDS Deck, TLC

CONSTANTS u1, u2, u3, u4, u5, u6

UserSymmetry == Permutations(User)

=============================================================================

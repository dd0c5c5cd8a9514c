\* Six users and stacks of three, as in the code: up to three cards are still to
\* come at the search, or arrive later.
SPECIFICATION Spec
CONSTANTS
  u1 = u1
  u2 = u2
  u3 = u3
  u4 = u4
  u5 = u5
  u6 = u6
  User = {u1, u2, u3, u4, u5, u6}
  CardsToBeVisible = 3
SYMMETRY UserSymmetry
INVARIANTS
  OfferedOnce
  EverybodyOffered
  IInv
CHECK_DEADLOCK FALSE

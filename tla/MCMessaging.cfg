\* Two messages or images from either side, a chat on one side and the list of
\* conversations on the other, one kill or refusal.
SPECIFICATION FairSpec
CONSTANTS
  ann = ann
  bob = bob
  k1 = k1
  k2 = k2
  User = {ann, bob}
  Id = {k1, k2}
  Looking <- MCLooking
  MaxLosses = 1
INVARIANTS
  NoDoubles
  NoDanglingKey
  IInv
PROPERTIES
  ConversationSpec
  BothSides
  ShownInTheEnd
CHECK_DEADLOCK FALSE

\* Two users decide about each other; two kills, so that a like can be lost
\* on either side or twice on one; each user may log out once, with an answer
\* on its way.
SPECIFICATION FairSpec
CONSTANTS
  ann = ann
  bob = bob
  User = {ann, bob}
  MaxKills = 2
  MaxLogouts = 1
INVARIANTS
  MatchIsMutual
  IInv
  BothOrNeither
PROPERTIES
  MatchStays
  LikeBackMatches
CHECK_DEADLOCK FALSE

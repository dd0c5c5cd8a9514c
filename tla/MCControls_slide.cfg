\* A finger may slide off a button: does the player keep still off turn?
SPECIFICATION Spec
CONSTANTS
  f1 = f1
  f2 = f2
  Finger = {f1}
  Button = {"left"}
  Slides = TRUE
  Steps = {1, 2}
  WaitTime = 2
INVARIANT OffTurnStill

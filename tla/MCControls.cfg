\* Fingers stay on their button or are lifted: two of them, so that one button
\* can be touched twice; waits that overlap and that end together.
SPECIFICATION FairSpec
CONSTANTS
  f1 = f1
  f2 = f2
  Finger = {f1, f2}
  Button = {"left", "X"}
  Slides = FALSE
  Steps = {1, 2}
  WaitTime = 2
INVARIANTS
  PressedMoves
  OffTurnStill
  IInv
PROPERTY CameraTurns

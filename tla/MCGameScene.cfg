\* Two lives, so that a hit player is stunned before he dies; two bombs of one
\* player at a time; two frame lengths, so that clocks run out of step.
SPECIFICATION Spec
CONSTANTS
  MaxLife = 2
  MaxTime = 2
  AimTime = 1
  AttackTime = 1
  HitStun = 2
  Second = 2
  Steps = {1, 2}
  BombLife = 1
  EndWait = 1
  MaxBombs = 2
INVARIANTS
  IInv
  DeathNoticed
  WinnerSound
  ArmedOnlyInAim
  NoStunWithBomb
PROPERTIES
  VerdictRevised
  DuelSpec
CHECK_DEADLOCK FALSE

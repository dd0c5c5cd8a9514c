\* Can a player own two bombs at a time?
SPECIFICATION Spec
CONSTANTS
  MaxLife = 1
  MaxTime = 1
  AimTime = 1
  AttackTime = 1
  HitStun = 1
  Second = 1
  Steps = {1}
  BombLife = 1
  EndWait = 1
  MaxBombs = 2
INVARIANT OneBomb
CHECK_DEADLOCK FALSE

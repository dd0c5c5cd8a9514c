\* The smallest instance in which a player can own two bombs: the first hit
\* kills, every clock expires in one frame.
SPECIFICATION FairSpec
CONSTANTS
  MaxLife = 1
  MaxTime = 1
  AimTime = 1
  AttackTime = 1
  HitStun = 1
  Second = 1
  Steps = {1}
  BombLife = 1
  EndWait = 1
  MaxBombs = 2
PROPERTIES
  AttackEndsTurn
  AimNotStuck
  DeathEndsGame
CHECK_DEADLOCK FALSE

----------------------------- MODULE Character -----------------------------
(***************************************************************************)
(* One fighter of Bomb-Man: CharacterNode, the bombs that hang below it in *)
(* the scene graph, the GKStateMachine that drives it (IdleState,          *)
(* AimState, AttackState, DamageState, DeadState) and the part of          *)
(* GamePad.follow that decides between moving and aiming.  Each method is  *)
(* an operator from the node before the call to the node after it.         *)
(*                                                                         *)
(* Left to other modules: walking, jumping, facing and the look of the     *)
(* sprite.  The force of a throw and gravity are not modelled: wherever a  *)
(* bomb is, in the hand or in the air, it may meet something.              *)
(***************************************************************************)
EXTENDS TurnBase, Sequences

CONSTANTS
  AimTime,     \* time of the aiming animation (0.6 s)
  AttackTime,  \* time between two looks for a live bomb (1.0 s)
  HitStun      \* frames a hit player is stunned (60)

ASSUME AimTimeAssumption == AimTime \in Nat \ {0}
ASSUME AttackTimeAssumption == AttackTime \in Nat \ {0}
ASSUME HitStunAssumption == HitStun \in Nat \ {0}

PlayerAction == {"None", "Move", "Shoot"}
State == {"Idle", "Aim", "Attack", "Damage", "Dead"}

\* A child node named "bomb"; toss is the queued SKAction that will throw it.
Bomb == [toss : BOOLEAN]

CharacterNode ==
  [life : Int, action : PlayerAction, aim : BOOLEAN, bombReady : BOOLEAN,
   takeDamage : BOOLEAN, bombs : Seq(Bomb), state : State,
   aimTime : 0..AimTime, attackTime : 0..AttackTime, hitStun : 1..HitStun]

NewCharacter ==
  [life |-> MaxLife, action |-> "None", aim |-> FALSE, bombReady |-> FALSE,
   takeDamage |-> FALSE, bombs |-> <<>>, state |-> "Idle",
   aimTime |-> 0, attackTime |-> 0, hitStun |-> HitStun]

\* A clock that stops at the threshold it is compared with.
Advance(time, dt, limit) == IF time + dt < limit THEN time + dt ELSE limit

-----------------------------------------------------------------------------
(* Touch commands.  "left", "right" and "X" choose to move, "O" to aim.    *)

FollowMove(c) == [c EXCEPT !.action = "Move"]
FollowO(c) == IF c.action # "Move" THEN [c EXCEPT !.aim = TRUE] ELSE c

-----------------------------------------------------------------------------
(* Bombs.  childNode(withName: "bomb") is the eldest child of that name.   *)

SetNewBomb(c) ==
  [c EXCEPT !.bombs = Append(@, [toss |-> FALSE]),
            !.bombReady = TRUE]

\* throwBomb(): queues the toss on the eldest bomb.
ThrowBomb(c) ==
  IF c.bombReady /\ c.bombs # <<>> THEN [c EXCEPT !.bombs[1].toss = TRUE] ELSE c

\* Mutated RunToss: bombReady is not cleared.
TossKeepsReady(c) ==
  IF \E i \in DOMAIN c.bombs : c.bombs[i].toss
    THEN [c EXCEPT
            !.bombs = [i \in DOMAIN @ |-> [toss |-> FALSE]],
            !.aim = FALSE]
    ELSE c

\* The queued toss, run in the action phase of the next frame.
RunToss(c) ==
  IF \E i \in DOMAIN c.bombs : c.bombs[i].toss
    THEN [c EXCEPT
            !.bombs = [i \in DOMAIN @ |-> [toss |-> FALSE]],
            !.bombReady = FALSE,
            !.aim = FALSE]
    ELSE c

\* removeFromParent(): a node outside the scene runs no queued action.
Without(s, i) == SubSeq(s, 1, i - 1) \o SubSeq(s, i + 1, Len(s))
RemoveBomb(c, i) == [c EXCEPT !.bombs = Without(@, i)]

\* didBegin, branches BOMB | PLAYER and BOMB | PLAYER2.
TakeHit(c) == [c EXCEPT !.life = @ - 1, !.takeDamage = TRUE]

-----------------------------------------------------------------------------
(* The state machine, one update per frame.                                *)

IdleUpdate(c) ==
  IF c.takeDamage
    THEN [c EXCEPT !.state = IF c.life = 0 THEN "Dead" ELSE "Damage"]
    ELSE IF c.action # "Move" /\ c.aim /\ c.bombs = <<>>
           THEN [c EXCEPT !.state = "Aim"]
           ELSE c

\* Mutated ReadyBomb: the clock of the animation is not reset.
ClockKept(c, dt) ==
  IF c.bombReady
    THEN c
    ELSE IF c.aimTime >= AimTime
           THEN SetNewBomb(c)
           ELSE [c EXCEPT !.aimTime = Advance(@, dt, AimTime)]

\* The bomb appears when the animation is over.
ReadyBomb(c, dt) ==
  IF c.bombReady
    THEN c
    ELSE IF c.aimTime >= AimTime
           THEN SetNewBomb([c EXCEPT !.aimTime = 0])
           ELSE [c EXCEPT !.aimTime = Advance(@, dt, AimTime)]

AimUpdate(c, dt) ==
  LET ready == ReadyBomb(c, dt) IN
    IF ~ready.aim /\ ~ready.bombReady
      THEN [ready EXCEPT !.state = "Attack"]
      ELSE ready

\* Mutated AttackUpdate: the state is left without looking for a live bomb.
BombNotAwaited(c, dt) ==
  IF c.attackTime < AttackTime
    THEN [c EXCEPT !.attackTime = Advance(@, dt, AttackTime)]
    ELSE [c EXCEPT !.attackTime = 0, !.action = "Shoot", !.state = "Idle"]

AttackUpdate(c, dt) ==
  IF c.attackTime < AttackTime
    THEN [c EXCEPT !.attackTime = Advance(@, dt, AttackTime)]
    ELSE IF c.bombs = <<>>
           THEN [c EXCEPT !.attackTime = 0, !.action = "Shoot", !.state = "Idle"]
           ELSE [c EXCEPT !.attackTime = 0]

\* DamageState and DeadState count the same frames; only the first is left.
StunUpdate(c) ==
  IF c.hitStun > 1
    THEN [c EXCEPT !.hitStun = @ - 1]
    ELSE [c EXCEPT !.hitStun = HitStun, !.takeDamage = FALSE,
                   !.state = IF @ = "Damage" THEN "Idle" ELSE @]

StateMachineUpdate(c, dt) ==
  CASE c.state = "Idle"   -> IdleUpdate(c)
    [] c.state = "Aim"    -> AimUpdate(c, dt)
    [] c.state = "Attack" -> AttackUpdate(c, dt)
    [] OTHER              -> StunUpdate(c)

-----------------------------------------------------------------------------
(* What holds of a fighter in every state.                                 *)

\* A bomb that is ready was set when aimTime went back to zero; a player in
\* AimState who no longer aims leaves it before the clock has run again, or a
\* second bomb would appear unasked; a queued toss belongs to a ready bomb.
Aiming(c) ==
  /\ c.bombReady => c.state = "Aim" /\ c.aim /\ c.aimTime = 0
  /\ c.state = "Aim" /\ ~c.aim => c.aimTime = 0
  /\ (\E i \in DOMAIN c.bombs : c.bombs[i].toss) => c.bombReady

\* A player with a bomb in the scene is aiming or attacking.
BombKept(c) == c.bombs # <<>> => c.state \in {"Aim", "Attack"}

CharacterInv(c) == c \in CharacterNode /\ Aiming(c) /\ BombKept(c)

=============================================================================

----------------------------- MODULE GameScene -----------------------------
(***************************************************************************)
(* A duel of Bomb-Man: class GameScene, which owns the turn keeper and the *)
(* two fighters, together with the callbacks that change them.             *)
(*                                                                         *)
(* SpriteKit runs everything on one thread, a frame at a time:             *)
(*   input    touches and gestures, in any number and order, until the     *)
(*            frame starts                                                 *)
(*   update   GameScene.update(_:)                                         *)
(*   actions  the SKActions that are due                                   *)
(*   physics  the contacts of this step, each reported to didBegin(_:)     *)
(* didFinishUpdate moves the camera only, so it is not in this module.     *)
(***************************************************************************)
EXTENDS Character

CONSTANTS
  Second,    \* time of movement that costs one unit of the turn's timer
  Steps,     \* possible times between two frames
  BombLife,  \* updates after which a thrown bomb is removed
  EndWait,   \* time between the verdict and the end screen (3 s)
  MaxBombs   \* bound: bombs of one player in the scene at a time

ASSUME SceneAssumption ==
  /\ {Second, BombLife, EndWait, MaxBombs} \subseteq Nat \ {0}
  /\ Steps \subseteq Nat \ {0}

VARIABLES
  turnBase,   \* the turn keeper
  thePlayer,  \* the player the scene, the camera and the touch pad follow
  char,       \* the two fighters
  timer,      \* movement time since the last tick of the turn keeper
  bombTime,   \* updates for which the current player's bomb has been thrown
  endTime,    \* time since the verdict
  pause,      \* the close button was touched
  phase,      \* where in the frame the program is
  scene       \* "game" until another scene is presented or the program stops

vars == <<turnBase, thePlayer, char, timer, bombTime, endTime, pause, phase, scene>>

Phase == {"input", "actions", "physics"}
Scene == {"game", "end", "start", "crashed"}

TypeOK ==
  /\ turnBase \in TurnBaseNode
  /\ thePlayer \in Player
  /\ char \in [Player -> CharacterNode]
  /\ timer \in 0..Second
  /\ bombTime \in 0..BombLife
  /\ endTime \in 0..EndWait
  /\ pause \in BOOLEAN
  /\ phase \in Phase
  /\ scene \in Scene

\* didMove(to:): a fresh scene; only the static winner survives a game.
Init ==
  /\ turnBase \in {NewTurnBase(winner) : winner \in Player}
  /\ thePlayer = "P1"
  /\ char = [p \in Player |-> NewCharacter]
  /\ timer = 0
  /\ bombTime = 0
  /\ endTime = 0
  /\ pause = FALSE
  /\ phase = "input"
  /\ scene = "game"

life == [p \in Player |-> char[p].life]

-----------------------------------------------------------------------------
(* Input.  The touch pad's delegate is the GamePad of the current player.  *)

Playing(ph) == scene = "game" /\ phase = ph

PressMove ==
  /\ Playing("input")
  /\ char' = [char EXCEPT ![thePlayer] = FollowMove(@)]
  /\ UNCHANGED <<turnBase, thePlayer, timer, bombTime, endTime, pause, phase, scene>>

PressO ==
  /\ Playing("input")
  /\ Len(char[thePlayer].bombs) < MaxBombs
  /\ char' = [char EXCEPT ![thePlayer] = FollowO(@)]
  /\ UNCHANGED <<turnBase, thePlayer, timer, bombTime, endTime, pause, phase, scene>>

\* dragShoot, the gesture's end.
DragShoot ==
  /\ Playing("input")
  /\ char[turnBase.turn].state = "Aim"
  /\ char' = [char EXCEPT ![turnBase.turn] = ThrowBomb(@)]
  /\ UNCHANGED <<turnBase, thePlayer, timer, bombTime, endTime, pause, phase, scene>>

TouchPause ==
  /\ Playing("input")
  /\ pause' = TRUE
  /\ UNCHANGED <<turnBase, thePlayer, char, timer, bombTime, endTime, phase, scene>>

-----------------------------------------------------------------------------
(* GameScene.update(_:), in the order of the code.                         *)

Moving == char[thePlayer].action = "Move"
SecondOver(dt) == Moving /\ timer + dt >= Second

\* The turn keeper after the clock.
Clocked(dt) ==
  IF SecondOver(dt)
    THEN Tick(turnBase)
    ELSE IF char[thePlayer].action = "Shoot" THEN Refresh(turnBase) ELSE turnBase

\* "Refresh Player Action": of the player whose turn is over.
ActionRefreshed(tb) ==
  IF tb.changeTurn THEN [char EXCEPT ![thePlayer].action = "None"] ELSE char

TurnHandedOver(tb) == IF tb.changeTurn THEN DidChangeTurn(tb) ELSE tb

\* Mutated AnyDamage: both players must be hit.
AllDamage(ch) == \A p \in Player : ch[p].takeDamage

AnyDamage(ch) == \E p \in Player : ch[p].takeDamage

Judged(tb, ch) ==
  IF AnyDamage(ch)
    THEN UpdatePlayerHealth(tb, [p \in Player |-> ch[p].life])
    ELSE tb

Entities(ch, dt) == [p \in Player |-> StateMachineUpdate(ch[p], dt)]

\* updateBomb(), for the player p whose turn it is.
Overdue(c) == c.bombs # <<>> /\ ~c.aim /\ bombTime + 1 >= BombLife

\* Mutated BombsUpdated: an overdue bomb is not removed; a player without a
\* bomb stays armed.
BombKeptInScene(c) ==
  IF c.bombs = <<>> /\ c.aim /\ c.bombReady
    THEN [c EXCEPT !.aim = FALSE, !.bombReady = FALSE]
    ELSE c

StaysArmed(c) == IF Overdue(c) THEN RemoveBomb(c, 1) ELSE c

BombsUpdated(c) ==
  IF c.bombs = <<>>
    THEN IF c.aim /\ c.bombReady
           THEN [c EXCEPT !.aim = FALSE, !.bombReady = FALSE]
           ELSE c
    ELSE IF Overdue(c) THEN RemoveBomb(c, 1) ELSE c

BombTimeUpdated(c) ==
  IF c.bombs # <<>> /\ ~c.aim /\ ~Overdue(c) THEN bombTime + 1 ELSE 0

Update(dt) ==
  LET clocked  == Clocked(dt)
      player   == IF clocked.changeTurn THEN clocked.turn ELSE thePlayer
      fighters == ActionRefreshed(clocked)
      judged   == Judged(TurnHandedOver(clocked), fighters)
      moved    == Entities(fighters, dt)
  IN
  /\ Playing("input")
  /\ ~ (AnyDamage(char) /\ \E p \in Player : HeartMissing(life[p]))
  /\ timer' = IF SecondOver(dt) THEN 0 ELSE IF Moving THEN timer + dt ELSE timer
  /\ thePlayer' = player
  /\ turnBase' = judged
  /\ endTime' = IF turnBase.endGame THEN Advance(endTime, dt, EndWait) ELSE endTime
  /\ char' = [moved EXCEPT ![judged.turn] = BombsUpdated(@)]
  /\ bombTime' = BombTimeUpdated(moved[judged.turn])
  /\ phase' = "actions"
  /\ UNCHANGED <<pause, scene>>

\* The health bar has no heart to hide: the program stops.
Crash ==
  /\ Playing("input")
  /\ AnyDamage(char)
  /\ \E p \in Player : HeartMissing(life[p])
  /\ scene' = "crashed"
  /\ UNCHANGED <<turnBase, thePlayer, char, timer, bombTime, endTime, pause, phase>>

-----------------------------------------------------------------------------
(* Actions: queued tosses, and the waits that leave the scene.             *)

Leaving == (IF pause THEN {"start"} ELSE {})
             \cup (IF endTime = EndWait THEN {"end"} ELSE {})

RunActions ==
  /\ Playing("actions")
  /\ char' = [p \in Player |-> RunToss(char[p])]
  /\ pause' = FALSE
  /\ IF Leaving = {} THEN UNCHANGED scene ELSE scene' \in Leaving
  /\ phase' = "physics"
  /\ UNCHANGED <<turnBase, thePlayer, timer, bombTime, endTime>>

-----------------------------------------------------------------------------
(* Physics.  A bomb meets walls, the ground and the opponent of its owner. *)

BombHitsWall(p, i) ==
  /\ Playing("physics")
  /\ char' = [char EXCEPT ![p] = RemoveBomb(@, i)]
  /\ UNCHANGED <<turnBase, thePlayer, timer, bombTime, endTime, pause, phase, scene>>

BombHitsPlayer(p, i) ==
  /\ Playing("physics")
  /\ char' = [char EXCEPT ![p] = RemoveBomb(@, i), ![Other(p)] = TakeHit(@)]
  /\ UNCHANGED <<turnBase, thePlayer, timer, bombTime, endTime, pause, phase, scene>>

DidBegin ==
  \E p \in Player : \E i \in DOMAIN char[p].bombs :
    BombHitsWall(p, i) \/ BombHitsPlayer(p, i)

EndFrame ==
  /\ Playing("physics")
  /\ phase' = "input"
  /\ UNCHANGED <<turnBase, thePlayer, char, timer, bombTime, endTime, pause, scene>>

-----------------------------------------------------------------------------
Frame == (\E dt \in Steps : Update(dt)) \/ Crash \/ RunActions \/ EndFrame
Input == PressMove \/ PressO \/ DragShoot \/ TouchPause

Next == Input \/ Frame \/ DidBegin

\* SpriteKit keeps rendering frames, and every frame takes time.  Nothing
\* obliges a player to touch anything, nor a bomb to meet anything.
Fairness == WF_vars(Frame)

Spec == Init /\ [][Next]_vars
FairSpec == Spec /\ Fairness

-----------------------------------------------------------------------------
(* Safety.                                                                 *)

\* A death is never overlooked.  didBegin takes the life in the physics step
\* and sets takeDamage, update reads it before the state machine can clear it,
\* so a player without lives has the flag up or the verdict is in.
DeathNoticed ==
  \A p \in Player : char[p].life <= 0 => char[p].takeDamage \/ turnBase.endGame

\* The declared winner's opponent is dead, through double deaths and hits on
\* the dead, whatever the static winner was before this game.
WinnerSound == turnBase.endGame => char[Other(turnBase.winner)].life <= 0

\* bombReady, set by setNewBomb and cleared by the toss in a later frame or by
\* updateBomb, is up only while its player is in AimState and aiming: a stale
\* one would let throwBomb act, or keep the next bomb from appearing.
ArmedOnlyInAim ==
  \A p \in Player : char[p].bombReady => char[p].state = "Aim" /\ char[p].aim

\* Nobody stands idle, stunned or dead while a bomb of his is in the scene:
\* AttackState waits for the last of them, on and off turn.
NoStunWithBomb ==
  \A p \in Player : char[p].bombs # <<>> => char[p].state \in {"Aim", "Attack"}

\* The scene's player, whose GamePad gets the touches, and the turn keeper's,
\* whose bomb a drag throws, agree between any two callbacks, and no turn
\* change is left half done (didChangeTurn toggles the flag).
TurnAgrees == thePlayer = turnBase.turn /\ ~turnBase.changeTurn

\* The inductive invariant: each fighter's own (see CharacterInv), and the wait
\* for the end screen runs only after the verdict.
IInv ==
  /\ TypeOK
  /\ TurnAgrees
  /\ \A p \in Player : CharacterInv(char[p])
  /\ DeathNoticed
  /\ WinnerSound
  /\ endTime > 0 => turnBase.endGame

\* A verdict is revised in one direction only: from P1 to P2, when P1 is dead
\* as well (updatePlayerHealth looks at P1 first, every frame with damage).
VerdictRevised ==
  [][turnBase.endGame /\ turnBase'.winner # turnBase.winner
       => turnBase.winner = "P1" /\ char["P1"].life <= 0]_vars

\* The game implements the duel.
D == INSTANCE Duel WITH
       turn    <- turnBase.turn,
       verdict <- IF turnBase.endGame THEN turnBase.winner ELSE "none"
DuelSpec == D!Spec

-----------------------------------------------------------------------------
(* Liveness, under FairSpec.                                               *)

\* A throw ends the turn, although a touch between AttackState's "Shoot" and
\* the next update can overwrite it with "Move" (then the timer ends it), and
\* although a bomb may never meet anything (then updateBomb removes it).  The
\* exception is a player who touches O again while the bomb is in flight: that
\* raises aim, and updateBomb counts only while it is down (GameScene.swift:359).
AttackEndsTurn ==
  \A p \in Player :
    (thePlayer = p /\ char[p].state = "Attack")
      ~> \/ thePlayer # p
         \/ scene # "game"
         \/ char[p].aim /\ char[p].bombs # <<>>

\* A player on turn whose bomb blew up in his hand is not left aiming with
\* nothing to throw: updateBomb disarms him, and he gets a new bomb or leaves
\* AimState.
AimNotStuck ==
  \A p \in Player :
    (thePlayer = p /\ char[p].state = "Aim" /\ char[p].bombReady /\ char[p].bombs = <<>>)
      ~> \/ char[p].bombs # <<>>
         \/ char[p].state # "Aim"
         \/ thePlayer # p
         \/ scene # "game"

\* A death ends the game: the verdict comes and the scene is left.
DeathEndsGame ==
  (\E p \in Player : char[p].life <= 0) ~> scene # "game"

-----------------------------------------------------------------------------
(* What the comments of the code claim and the code does not do.           *)

\* GameScene.swift:277 "Refresh Player Action": a turn starts without an action
\* left over from before.
FreshTurn == [][thePlayer' # thePlayer => char'[thePlayer'].action = "None"]_vars

\* IdleState.swift:83 "Enter Aim state if no bomb exist" and
\* CharacterNode.swift:141 "Shoot only once": one bomb per player.
OneBomb == \A p \in Player : Len(char[p].bombs) <= 1

=============================================================================

------------------------------ MODULE TurnBase ------------------------------
(***************************************************************************)
(* The turn keeper of Bomb-Man, class TurnBaseNode of                      *)
(* CentralGameControl/TurnBase.swift: whose turn it is, the seconds that   *)
(* the turn has left, and the verdict of the duel.  The node has no thread *)
(* of its own: GameScene.update calls it, so each method is an operator    *)
(* from the node before the call to the node after it.                     *)
(***************************************************************************)
EXTENDS Integers

CONSTANTS
  MaxLife,   \* hearts a player starts with (MAX_LIFE)
  MaxTime    \* seconds of movement in a turn (MAX_TIME)

ASSUME MaxLifeAssumption == MaxLife \in Nat \ {0}
ASSUME MaxTimeAssumption == MaxTime \in Nat \ {0}

Player == {"P1", "P2"}
Other(p) == IF p = "P1" THEN "P2" ELSE "P1"

TurnBaseNode ==
  [turn : Player, changeTurn : BOOLEAN, timer : 1..MaxTime,
   endGame : BOOLEAN, winner : Player]

\* winner is static: a new game starts with the value the last one left.
NewTurnBase(winner) ==
  [turn |-> "P1", changeTurn |-> FALSE, timer |-> MaxTime,
   endGame |-> FALSE, winner |-> winner]

\* refresh(): the turn passes to the other player, with a full timer.
Refresh(tb) ==
  [tb EXCEPT !.turn = Other(@), !.changeTurn = TRUE, !.timer = MaxTime]

\* update(): one second of movement is spent; the last one ends the turn.
Tick(tb) ==
  IF tb.timer <= 1 THEN Refresh(tb) ELSE [tb EXCEPT !.timer = @ - 1]

DidChangeTurn(tb) == [tb EXCEPT !.changeTurn = ~@]

\* A health bar holds MaxLife hearts; hiding one that is not there is an
\* index out of range, which stops the program.
HeartMissing(life) == MaxLife - life > MaxLife

\* Mutated UpdatePlayerHealth: the dead player wins; P2 is looked at first; the
\* last life does not count.
DeadPlayerWins(tb, life) ==
  IF \E p \in Player : life[p] <= 0
    THEN [tb EXCEPT !.endGame = TRUE,
                    !.winner = IF life["P1"] <= 0 THEN "P1" ELSE "P2"]
    ELSE tb

P2LookedAtFirst(tb, life) ==
  IF \E p \in Player : life[p] <= 0
    THEN [tb EXCEPT !.endGame = TRUE,
                    !.winner = IF life["P2"] <= 0 THEN "P1" ELSE "P2"]
    ELSE tb

DeadBelowZero(tb, life) ==
  IF \E p \in Player : life[p] < 0
    THEN [tb EXCEPT !.endGame = TRUE,
                    !.winner = IF life["P1"] < 0 THEN "P2" ELSE "P1"]
    ELSE tb

\* updatePlayerHealth(): P1's death is looked at before P2's.
UpdatePlayerHealth(tb, life) ==
  IF \E p \in Player : life[p] <= 0
    THEN [tb EXCEPT !.endGame = TRUE,
                    !.winner = IF life["P1"] <= 0 THEN "P2" ELSE "P1"]
    ELSE tb

=============================================================================

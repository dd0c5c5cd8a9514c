-------------------------------- MODULE Duel --------------------------------
(***************************************************************************)
(* What a game of Bomb-Man promises, with no bombs, frames or timers: two  *)
(* players take turns, bombs cost lives, and a referee names a winner whose *)
(* opponent is dead.  GameScene implements this specification.             *)
(***************************************************************************)
EXTENDS Integers

CONSTANT MaxLife   \* lives a player starts with

VARIABLES
  turn,      \* whose turn it is
  life,      \* lives left, per player
  verdict,   \* the declared winner, or "none"
  scene      \* "game", or how the game was left

duelVars == <<turn, life, verdict, scene>>

Duelist == {"P1", "P2"}
Opponent(p) == IF p = "P1" THEN "P2" ELSE "P1"
Dead(p) == life[p] <= 0

Init ==
  /\ turn = "P1"
  /\ life = [p \in Duelist |-> MaxLife]
  /\ verdict = "none"
  /\ scene = "game"

\* A bomb hits player p.  A dead player can still be hit.
Strike(p) ==
  /\ scene = "game"
  /\ life' = [life EXCEPT ![p] = @ - 1]
  /\ UNCHANGED <<turn, verdict, scene>>

\* Once a frame: the turn may pass on, and once somebody is dead there is a
\* winner, whose opponent is dead.
Referee ==
  /\ scene = "game"
  /\ turn' \in Duelist
  /\ IF \E p \in Duelist : Dead(p)
       THEN verdict' \in {p \in Duelist : Dead(Opponent(p))}
       ELSE verdict' = verdict
  /\ UNCHANGED <<life, scene>>

\* The end screen needs a verdict; the start screen is one touch away; the
\* program stops only when a player is hit after losing the last life.
Leave ==
  /\ scene = "game"
  /\ \/ scene' = "end" /\ verdict # "none"
     \/ scene' = "start"
     \/ scene' = "crashed" /\ \E p \in Duelist : life[p] < 0
  /\ UNCHANGED <<turn, life, verdict>>

Next == (\E p \in Duelist : Strike(p)) \/ Referee \/ Leave

Spec == Init /\ [][Next]_duelVars

=============================================================================

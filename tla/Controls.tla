------------------------------ MODULE Controls ------------------------------
(***************************************************************************)
(* Who may move in a game of Bomb-Man, and when: the touch pad             *)
(* (TouchControlInputNode), the commands it sends to the GamePad of the    *)
(* player on turn, the hand-over of the pad at a turn change               *)
(* (GameScene.update) and the lock of the pad, which the camera releases   *)
(* (GameScene.didFinishUpdate).                                            *)
(*                                                                         *)
(* Why a turn ends and when a bomb is in the scene is GameScene's matter;  *)
(* here either may happen in any frame.                                    *)
(***************************************************************************)
EXTENDS Integers, FiniteSets

CONSTANTS
  Finger,    \* fingers that can touch the screen
  Button,    \* the buttons of the pad
  Slides,    \* whether a finger may slide off a button without being lifted
  Steps,     \* possible times between two frames
  WaitTime   \* time the camera waits (0.787 s)

ASSUME ControlsAssumption ==
  /\ Button \subseteq {"left", "right", "X", "O"}
  /\ Slides \in BOOLEAN
  /\ Steps \subseteq Nat \ {0}
  /\ WaitTime \in Nat \ {0}

VARIABLES
  finger,            \* where each finger is
  padTouch,          \* the fingers whose touch the pad receives
  pressedButtons,
  inputDelegate,     \* the player whose GamePad gets the commands
  moves,             \* the flags left, right and jump that are up, per player
  enabled,           \* isUserInteractionEnabled of the pad
  cameraNeedTurn,
  cameraFollowBomb,
  waits,             \* the camera's waits that have not ended
  bomb,              \* whether the player on turn has a bomb in the scene
  phase

padVars    == <<finger, padTouch, pressedButtons>>
cameraVars == <<cameraNeedTurn, cameraFollowBomb, waits, bomb>>
vars == <<padVars, inputDelegate, moves, enabled, cameraVars, phase>>

Player == {"P1", "P2"}
Other(p) == IF p = "P1" THEN "P2" ELSE "P1"
Place == Button \cup {"beside"}
Wait == [time : 1..WaitTime, for : {"follow", "turn"}]

TypeOK ==
  /\ finger \in [Finger -> Place \cup {"up"}]
  /\ padTouch \subseteq Finger
  /\ pressedButtons \subseteq Button
  /\ inputDelegate \in Player
  /\ moves \in [Player -> SUBSET (Button \ {"O"})]
  /\ {enabled, cameraNeedTurn, cameraFollowBomb, bomb} \subseteq BOOLEAN
  /\ waits \subseteq Wait
  /\ phase \in {"input", "actions", "finish"}

Init ==
  /\ finger = [f \in Finger |-> "up"]
  /\ padTouch = {}
  /\ pressedButtons = {}
  /\ inputDelegate = "P1"
  /\ moves = [p \in Player |-> {}]
  /\ enabled = TRUE
  /\ cameraNeedTurn = FALSE
  /\ cameraFollowBomb = FALSE
  /\ waits = {}
  /\ bomb = FALSE
  /\ phase = "input"

-----------------------------------------------------------------------------
(* Commands.                                                               *)

\* follow("left"), follow("right"), follow("X"); "O" moves nobody.
Follow(set, b) == set \cup ({b} \ {"O"})

\* Mutated Stopped: one stop stops everything.
StopsAll(set, buttons) == IF buttons = {} THEN set ELSE {}

\* follow("stop ...").
Stopped(set, buttons) == set \ buttons

\* follow("cancel ..."): GamePad knows "cancel X" only; it spells the others
\* "cance left" and "cance right".
Cancelled(set, b) == set \ ({b} \cap {"X"})

-----------------------------------------------------------------------------
(* Touches.  A touch that began while the pad was locked is never the      *)
(* pad's; a move or lift of the others may or may not reach a locked pad.  *)

Delivered(f) == f \in padTouch

Began(f, place) ==
  /\ phase = "input"
  /\ finger[f] = "up"
  /\ finger' = [finger EXCEPT ![f] = place]
  /\ padTouch' = IF enabled THEN padTouch \cup {f} ELSE padTouch
  /\ IF enabled /\ place \in Button \ pressedButtons
       THEN /\ pressedButtons' = pressedButtons \cup {place}
            /\ moves' = [moves EXCEPT ![inputDelegate] = Follow(@, place)]
       ELSE UNCHANGED <<pressedButtons, moves>>
  /\ UNCHANGED <<inputDelegate, enabled, cameraVars, phase>>

\* touchesMoved: off a button that is pressed, onto one that is not.
Moved(f, place) ==
  LET off == pressedButtons \cap {finger[f]}
      on  == (Button \cap {place}) \ pressedButtons
      cancelled == IF off = {} THEN moves[inputDelegate]
                               ELSE Cancelled(moves[inputDelegate], finger[f])
  IN
  /\ phase = "input"
  /\ finger[f] \notin {"up", place}
  /\ finger[f] \in Button => Slides
  /\ Delivered(f)
  /\ finger' = [finger EXCEPT ![f] = place]
  /\ pressedButtons' = (pressedButtons \ off) \cup on
  /\ moves' = [moves EXCEPT ![inputDelegate] =
                 IF on = {} THEN cancelled ELSE Follow(cancelled, place)]
  /\ UNCHANGED <<padTouch, inputDelegate, enabled, cameraVars, phase>>

\* touchUp of a finger, which may move once more as it is lifted.
Ended(f, place) ==
  LET up == pressedButtons \cap {finger[f], place} IN
  /\ phase = "input"
  /\ finger[f] # "up"
  /\ Delivered(f)
  /\ finger' = [finger EXCEPT ![f] = "up"]
  /\ padTouch' = padTouch \ {f}
  /\ pressedButtons' = pressedButtons \ up
  /\ moves' = [moves EXCEPT ![inputDelegate] = Stopped(@, up)]
  /\ UNCHANGED <<inputDelegate, enabled, cameraVars, phase>>

\* A move or a lift that the pad does not hear of.
Unheard(f, place) ==
  /\ phase = "input"
  /\ finger[f] \notin {"up", place}
  /\ Delivered(f) => ~enabled
  /\ finger[f] \in Button /\ place # "up" => Slides
  /\ finger' = [finger EXCEPT ![f] = place]
  /\ padTouch' = IF place = "up" THEN padTouch \ {f} ELSE padTouch
  /\ UNCHANGED <<pressedButtons, inputDelegate, moves, enabled, cameraVars, phase>>

-----------------------------------------------------------------------------
(* Frames.                                                                 *)

\* Mutated HandedOver: nothing is stopped but the jump; the fake touch-up
\* comes after the change of delegate.
NothingStopped(old) == [moves EXCEPT ![old] = @ \ {"X"}]

UpAfterHandOver(old) ==
  [moves EXCEPT ![Other(old)] = Stopped(@, pressedButtons), ![old] = @ \ {"X"}]

\* touchUp(touches: .init(), withEvent: nil) stops what the old player does
\* and the scene lets him land.
HandedOver(old) ==
  [moves EXCEPT ![old] = Stopped(@, pressedButtons) \ {"X"}]

TurnChange ==
  /\ moves' = HandedOver(inputDelegate)
  /\ pressedButtons' = {}
  /\ inputDelegate' = Other(inputDelegate)
  /\ cameraNeedTurn' = TRUE
  /\ enabled' = ~enabled

\* GameScene.update; IdleState puts the jump flag of a falling player down.
Update ==
  /\ phase = "input"
  /\ \/ TurnChange
     \/ /\ \E falling \in SUBSET Player :
             moves' = [p \in Player |-> IF p \in falling THEN moves[p] \ {"X"} ELSE moves[p]]
        /\ UNCHANGED <<pressedButtons, inputDelegate, cameraNeedTurn, enabled>>
  /\ bomb' \in BOOLEAN
  /\ phase' = "actions"
  /\ UNCHANGED <<finger, padTouch, cameraFollowBomb, waits>>

Due(dt) == {w \in waits : w.time <= dt}

\* Mutated Ends: the camera never leaves the bomb.
NeverEnds(due, for) == {w \in due : w.for = for /\ for = "turn"}

Ends(due, for) == {w \in due : w.for = for}

\* Every wait that ends puts its flag down; each one for the turn toggles the
\* lock of the pad.
RunActions(dt) ==
  LET due   == Due(dt)
      turns == Ends(due, "turn")
  IN
  /\ phase = "actions"
  /\ waits' = {[w EXCEPT !.time = @ - dt] : w \in waits \ due}
  /\ cameraFollowBomb' = (cameraFollowBomb /\ Ends(due, "follow") = {})
  /\ cameraNeedTurn' = (cameraNeedTurn /\ turns = {})
  /\ enabled' = IF Cardinality(turns) % 2 = 1 THEN ~enabled ELSE enabled
  /\ phase' = "finish"
  /\ UNCHANGED <<padVars, inputDelegate, moves, bomb>>

\* didFinishUpdate: follow the bomb; then wait; then wait for the turn.
DidFinishUpdate ==
  /\ phase = "finish"
  /\ cameraFollowBomb' = (cameraFollowBomb \/ bomb)
  /\ waits' = CASE bomb             -> waits
                [] cameraFollowBomb -> waits \cup {[time |-> WaitTime, for |-> "follow"]}
                [] cameraNeedTurn   -> waits \cup {[time |-> WaitTime, for |-> "turn"]}
                [] OTHER            -> waits
  /\ phase' = "input"
  /\ UNCHANGED <<padVars, inputDelegate, moves, enabled, cameraNeedTurn, bomb>>

-----------------------------------------------------------------------------
Frame == Update \/ (\E dt \in Steps : RunActions(dt)) \/ DidFinishUpdate

Touch ==
  \E f \in Finger :
    \/ \E place \in Place : Began(f, place) \/ Moved(f, place) \/ Ended(f, place)
    \/ \E place \in Place \cup {"up"} : Unheard(f, place)

Next == Touch \/ Frame

Spec == Init /\ [][Next]_vars
FairSpec == Spec /\ WF_vars(Frame)

-----------------------------------------------------------------------------
(* Properties.                                                             *)

\* A pressed direction moves the player on turn: no order of presses, slides,
\* lifts that went unheard and hand-overs separates the two.
PressedMoves ==
  pressedButtons \cap {"left", "right"} \subseteq moves[inputDelegate]

\* GameScene.swift:289 "Simulate touchConrtoller touchup to stop idiot keep
\* touching node": off turn, nobody moves.
OffTurnStill == \A p \in Player : p # inputDelegate => moves[p] = {}

\* The inductive invariant: as long as fingers do not slide, what moves the
\* player on turn is pressed, a jump apart, so the hand-over stops all of it.
IInv ==
  /\ TypeOK
  /\ PressedMoves
  /\ \/ Slides
     \/ moves[inputDelegate] \subseteq pressedButtons \cup {"X"} /\ OffTurnStill

\* The camera turns to the new player unless bombs of his keep it busy.
CameraTurns == cameraNeedTurn ~> ~cameraNeedTurn \/ bomb

\* GameScene.swift:292 "Turn controller": the player on turn gets the pad.
PadUnlocked == ~enabled ~> enabled

=============================================================================

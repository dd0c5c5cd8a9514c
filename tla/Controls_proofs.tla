-------------------------- MODULE Controls_proofs --------------------------
(***************************************************************************)
(* The touch pad for any number of fingers, any set of buttons and any     *)
(* timing of the camera.                                                   *)
(***************************************************************************)
EXTENDS Controls, TLAPS

\* There are two players, and no button is called "beside".
LEMMA PlaceFacts ==
  /\ Player = {"P1", "P2"}
  /\ \A p \in Player : Other(p) \in Player /\ Other(p) # p
                       /\ \A q \in Player : q = p \/ q = Other(p)
  /\ "beside" \notin Button /\ "up" \notin Button
BY ControlsAssumption DEF Player, Other

\* The pad starts untouched.
LEMMA InitIInv == Init => IInv
BY ControlsAssumption, PlaceFacts
   DEF Init, IInv, TypeOK, PressedMoves, OffTurnStill, Place, Wait

\* A handler that changes what the player on turn does, and what is pressed,
\* keeps the invariant if it keeps the two in step.
LEMMA HandlerStep ==
  ASSUME IInv, NEW m \in SUBSET (Button \ {"O"}), NEW pressed \in SUBSET Button,
         moves' = [moves EXCEPT ![inputDelegate] = m], pressedButtons' = pressed,
         finger' \in [Finger -> Place \cup {"up"}], padTouch' \in SUBSET Finger,
         UNCHANGED <<inputDelegate, enabled, cameraVars, phase>>,
         pressed \cap {"left", "right"} \subseteq m,
         ~Slides => m \subseteq pressed \cup {"X"}
  PROVE  IInv'
<1>1. moves \in [Player -> SUBSET (Button \ {"O"})] /\ inputDelegate \in Player
  BY DEF IInv, TypeOK
<1>2. /\ moves' \in [Player -> SUBSET (Button \ {"O"})]
      /\ moves'[inputDelegate] = m
      /\ \A p \in Player : p # inputDelegate => moves'[p] = moves[p]
  BY <1>1
<1>3. TypeOK'
  BY <1>2 DEF IInv, TypeOK, cameraVars
<1>4. PressedMoves'
  BY <1>2 DEF PressedMoves
<1>5. ~Slides => moves'[inputDelegate] \subseteq pressed \cup {"X"} /\ OffTurnStill'
  BY <1>2 DEF IInv, OffTurnStill
<1>6. QED BY <1>3, <1>4, <1>5 DEF IInv

\* touchesBegan.
LEMMA BeganIInv ==
  ASSUME IInv, NEW f \in Finger, NEW place \in Place, Began(f, place)
  PROVE  IInv'
<1>1. /\ inputDelegate \in Player /\ moves[inputDelegate] \in SUBSET (Button \ {"O"})
      /\ moves = [p \in Player |-> moves[p]] /\ pressedButtons \in SUBSET Button
  BY DEF IInv, TypeOK
<1>2. /\ finger' \in [Finger -> Place \cup {"up"}] /\ padTouch' \in SUBSET Finger
      /\ UNCHANGED <<inputDelegate, enabled, cameraVars, phase>>
  BY DEF IInv, TypeOK, Began
<1>3. CASE enabled /\ place \in Button \ pressedButtons
  <2> DEFINE m == Follow(moves[inputDelegate], place)
             pressed == pressedButtons \cup {place}
  <2>1. moves' = [moves EXCEPT ![inputDelegate] = m] /\ pressedButtons' = pressed
    BY <1>3 DEF Began
  <2>2. m \in SUBSET (Button \ {"O"}) /\ pressed \in SUBSET Button
    BY <1>1, <1>3 DEF Follow
  <2>3. pressed \cap {"left", "right"} \subseteq m
    BY DEF Follow, IInv, PressedMoves
  <2>4. ~Slides => m \subseteq pressed \cup {"X"}
    BY DEF Follow, IInv
  <2> HIDE DEF m, pressed
  <2>5. QED BY <1>2, <2>1, <2>2, <2>3, <2>4, HandlerStep
<1>4. CASE ~(enabled /\ place \in Button \ pressedButtons)
  <2>1. UNCHANGED <<moves, pressedButtons>>
    BY <1>4 DEF Began
  <2>2. QED BY <1>2, <2>1 DEF IInv, TypeOK, PressedMoves, OffTurnStill, cameraVars
<1>5. QED BY <1>3, <1>4

\* touchesMoved: sliding off a button may leave its player moving.
LEMMA MovedIInv ==
  ASSUME IInv, NEW f \in Finger, NEW place \in Place, Moved(f, place)
  PROVE  IInv'
<1> DEFINE old == moves[inputDelegate]
           off == pressedButtons \cap {finger[f]}
           on  == (Button \cap {place}) \ pressedButtons
           cancelled == IF off = {} THEN old ELSE Cancelled(old, finger[f])
           m == IF on = {} THEN cancelled ELSE Follow(cancelled, place)
           pressed == (pressedButtons \ off) \cup on
<1>1. /\ inputDelegate \in Player /\ old \in SUBSET (Button \ {"O"})
      /\ pressedButtons \in SUBSET Button
      /\ finger[f] \in Place
  BY DEF IInv, TypeOK, Moved
<1>2. /\ finger' \in [Finger -> Place \cup {"up"}] /\ padTouch' \in SUBSET Finger
      /\ UNCHANGED <<inputDelegate, enabled, cameraVars, phase>>
      /\ moves' = [moves EXCEPT ![inputDelegate] = m] /\ pressedButtons' = pressed
  BY DEF IInv, TypeOK, Moved
<1>3. cancelled \in SUBSET (Button \ {"O"}) /\ old \ cancelled \subseteq {"X"}
  BY <1>1 DEF Cancelled
<1>4. ~Slides => off = {} /\ cancelled = old
  BY <1>1, PlaceFacts DEF Moved, Place
<1>5. old \cap {"left", "right"} \subseteq cancelled
  BY <1>3
<1> HIDE DEF cancelled
<1>6. m \in SUBSET (Button \ {"O"}) /\ pressed \in SUBSET Button
  BY <1>1, <1>3 DEF Follow
<1>7. pressed \cap {"left", "right"} \subseteq m
  <2>1. pressedButtons \cap {"left", "right"} \subseteq cancelled
    BY <1>5 DEF IInv, PressedMoves
  <2>2. QED BY <2>1 DEF Follow
<1>8. ~Slides => m \subseteq pressed \cup {"X"}
  <2>1. ~Slides => cancelled \subseteq pressedButtons \cup {"X"}
    BY <1>4 DEF IInv
  <2>2. QED BY <1>4, <2>1 DEF Follow
<1> HIDE DEF m, pressed
<1>9. QED BY <1>2, <1>6, <1>7, <1>8, HandlerStep

\* touchUp of a finger.
LEMMA EndedIInv ==
  ASSUME IInv, NEW f \in Finger, NEW place \in Place, Ended(f, place)
  PROVE  IInv'
<1> DEFINE up == pressedButtons \cap {finger[f], place}
           m == Stopped(moves[inputDelegate], up)
           pressed == pressedButtons \ up
<1>1. /\ inputDelegate \in Player /\ moves[inputDelegate] \in SUBSET (Button \ {"O"})
      /\ pressedButtons \in SUBSET Button
  BY DEF IInv, TypeOK
<1>2. /\ finger' \in [Finger -> Place \cup {"up"}] /\ padTouch' \in SUBSET Finger
      /\ UNCHANGED <<inputDelegate, enabled, cameraVars, phase>>
      /\ moves' = [moves EXCEPT ![inputDelegate] = m] /\ pressedButtons' = pressed
  BY DEF IInv, TypeOK, Ended
<1>3. m \in SUBSET (Button \ {"O"}) /\ pressed \in SUBSET Button
  BY <1>1 DEF Stopped
<1>4. pressed \cap {"left", "right"} \subseteq m
  BY DEF Stopped, IInv, PressedMoves
<1>5. ~Slides => m \subseteq pressed \cup {"X"}
  BY DEF Stopped, IInv
<1> HIDE DEF m, pressed
<1>6. QED BY <1>2, <1>3, <1>4, <1>5, HandlerStep

\* GameScene.update: at a hand-over the old player has nothing pressed left,
\* the new one starts with nothing pressed.
LEMMA UpdateIInv == IInv /\ Update => IInv'
<1> SUFFICES ASSUME IInv, Update PROVE IInv'
  OBVIOUS
<1> DEFINE old == inputDelegate
<1>1. /\ old \in Player /\ moves \in [Player -> SUBSET (Button \ {"O"})]
      /\ pressedButtons \in SUBSET Button
  BY DEF IInv, TypeOK
<1>2. /\ bomb' \in BOOLEAN /\ phase' = "actions"
      /\ UNCHANGED <<finger, padTouch, cameraFollowBomb, waits>>
  BY DEF Update
<1>3. CASE TurnChange
  <2> DEFINE m == Stopped(moves[old], pressedButtons) \ {"X"}
  <2>1. /\ moves' = [moves EXCEPT ![old] = m] /\ pressedButtons' = {}
        /\ inputDelegate' = Other(old) /\ cameraNeedTurn' = TRUE /\ enabled' = ~enabled
    BY <1>3 DEF TurnChange, HandedOver
  <2>2. m \in SUBSET (Button \ {"O"})
    BY <1>1 DEF Stopped
  <2>3. ~Slides => m = {}
    BY DEF Stopped, IInv
  <2> HIDE DEF m
  <2>4. moves' \in [Player -> SUBSET (Button \ {"O"})] /\ moves'[old] = m
    BY <1>1, <2>1, <2>2
  <2>5. TypeOK'
    BY <1>1, <1>2, <2>1, <2>4, PlaceFacts DEF IInv, TypeOK
  <2>6. PressedMoves'
    BY <2>1 DEF PressedMoves
  <2>7. moves'[Other(old)] = moves[Other(old)]
    BY <1>1, <2>1, PlaceFacts
  <2>8. ~Slides => moves'[Other(old)] = {} /\ OffTurnStill'
    BY <1>1, <2>1, <2>3, <2>4, <2>7, PlaceFacts DEF IInv, OffTurnStill
  <2>9. QED BY <2>1, <2>5, <2>6, <2>8 DEF IInv
<1>4. CASE ~TurnChange
  <2>1. PICK falling \in SUBSET Player :
          moves' = [p \in Player |-> IF p \in falling THEN moves[p] \ {"X"} ELSE moves[p]]
    BY <1>4 DEF Update
  <2>2. UNCHANGED <<pressedButtons, inputDelegate, cameraNeedTurn, enabled>>
    BY <1>4 DEF Update
  <2>3. \A p \in Player : /\ moves'[p] \subseteq moves[p]
                          /\ moves[p] \cap {"left", "right"} \subseteq moves'[p]
    BY <2>1
  <2>4. moves' \in [Player -> SUBSET (Button \ {"O"})]
    BY <1>1, <2>1
  <2>5. TypeOK'
    BY <1>2, <2>2, <2>4 DEF IInv, TypeOK
  <2>6. PressedMoves'
    BY <1>1, <2>2, <2>3 DEF IInv, PressedMoves
  <2>7. ~Slides => moves'[inputDelegate] \subseteq pressedButtons \cup {"X"}
    BY <1>1, <2>3 DEF IInv
  <2>8. ~Slides => OffTurnStill'
    BY <2>2, <2>3 DEF IInv, OffTurnStill
  <2>9. QED BY <2>2, <2>5, <2>6, <2>7, <2>8 DEF IInv
<1>5. QED BY <1>3, <1>4

\* The camera's waits stay within their time and touch no button.
LEMMA CameraIInv ==
  ASSUME IInv, (\E dt \in Steps : RunActions(dt)) \/ DidFinishUpdate
  PROVE  IInv'
<1>1. UNCHANGED <<padVars, inputDelegate, moves>>
  BY DEF RunActions, DidFinishUpdate
<1>2. waits' \subseteq Wait
  <2>1. CASE \E dt \in Steps : RunActions(dt)
    <3>1. PICK dt \in Steps : RunActions(dt)
      BY <2>1
    <3>2. waits' = {[w EXCEPT !.time = @ - dt] : w \in waits \ Due(dt)}
      BY <3>1 DEF RunActions
    <3>3. ASSUME NEW w \in waits \ Due(dt)
          PROVE  [w EXCEPT !.time = @ - dt] \in Wait
      <4>1. w \in Wait /\ ~(w.time <= dt)  BY DEF IInv, TypeOK, Due
      <4>2. w.time \in 1..WaitTime /\ dt \in Nat \ {0} /\ WaitTime \in Nat
        BY <4>1, ControlsAssumption DEF Wait
      <4> DEFINE t == w.time - dt
      <4>3. t \in 1..WaitTime  BY <4>1, <4>2
      <4> HIDE DEF t
      <4>4. [w EXCEPT !.time = t] \in Wait  BY <4>1, <4>3 DEF Wait
      <4>5. QED BY <4>4 DEF t
    <3>4. QED BY <3>2, <3>3
  <2>2. CASE DidFinishUpdate
    <3>1. WaitTime \in 1..WaitTime  BY ControlsAssumption
    <3>2. QED BY <2>2, <3>1 DEF DidFinishUpdate, IInv, TypeOK, Wait
  <2>3. QED BY <2>1, <2>2
<1>3. /\ {enabled', cameraNeedTurn', cameraFollowBomb', bomb'} \subseteq BOOLEAN
      /\ phase' \in {"input", "actions", "finish"}
  BY DEF RunActions, DidFinishUpdate, IInv, TypeOK
<1>4. QED BY <1>1, <1>2, <1>3 DEF IInv, TypeOK, PressedMoves, OffTurnStill, padVars

\* IInv is inductive.
LEMMA NextIInv == IInv /\ [Next]_vars => IInv'
<1> SUFFICES ASSUME IInv, [Next]_vars PROVE IInv'
  OBVIOUS
<1>1. CASE Touch
  <2>1. PICK f \in Finger :
          \/ \E place \in Place : Began(f, place) \/ Moved(f, place) \/ Ended(f, place)
          \/ \E place \in Place \cup {"up"} : Unheard(f, place)
    BY <1>1 DEF Touch
  <2>2. CASE \E place \in Place : Began(f, place) \/ Moved(f, place) \/ Ended(f, place)
    BY <2>2, BeganIInv, MovedIInv, EndedIInv
  <2>3. CASE \E place \in Place \cup {"up"} : Unheard(f, place)
    BY <2>3 DEF Unheard, IInv, TypeOK, PressedMoves, OffTurnStill, cameraVars
  <2>4. QED BY <2>1, <2>2, <2>3
<1>2. CASE Frame
  BY <1>2, UpdateIInv, CameraIInv DEF Frame
<1>3. CASE UNCHANGED vars
  BY <1>3 DEF vars, padVars, cameraVars, IInv, TypeOK, PressedMoves, OffTurnStill
<1>4. QED BY <1>1, <1>2, <1>3 DEF Next

\* IInv holds in every state, sliding fingers or not.
THEOREM Invariance == Spec => []IInv
<1>1. Init => IInv  BY InitIInv
<1>2. IInv /\ [Next]_vars => IInv'  BY NextIInv
<1>3. QED BY <1>1, <1>2, PTL DEF Spec

\* A pressed direction always moves the player on turn.
THEOREM PressedButtonsMove == Spec => []PressedMoves
<1>1. IInv => PressedMoves  BY DEF IInv
<1>2. QED BY <1>1, Invariance, PTL

\* If no finger slides off a button, nobody moves off turn: the misspelt
\* "cance" is the only way to break the claim of GameScene.swift:289.
THEOREM NobodyMovesOffTurn ==
  ASSUME ~Slides
  PROVE  Spec => []OffTurnStill
<1>1. IInv => OffTurnStill  BY DEF IInv
<1>2. QED BY <1>1, Invariance, PTL

=============================================================================

------------------------------- MODULE Replay -------------------------------
(***************************************************************************)
(* What the database client promises about its writes, however often the   *)
(* connection is lost: over one connection the server handles them in the  *)
(* order they were made and skips none that still waits, a write whose     *)
(* answer was lost is handled again, and the answers are told in order,    *)
(* each once, and never before the server handled the write.               *)
(***************************************************************************)
EXTENDS Naturals, FiniteSets

VARIABLES
  issued,   \* the writes made, 1 .. issued
  handled,  \* those the server has handled
  cursor,   \* the last one it handled over this connection
  over      \* those that were told or given up

replayVars == <<issued, handled, cursor, over>>

Init == issued = 0 /\ handled = {} /\ cursor = 0 /\ over = {}

Issue ==
  /\ issued' = issued + 1
  /\ UNCHANGED <<handled, cursor, over>>

Handle(w) ==
  /\ w \in cursor + 1 .. issued
  /\ cursor + 1 .. w - 1 \subseteq handled \cup over
  /\ handled' = handled \cup {w} /\ cursor' = w
  /\ UNCHANGED <<issued, over>>

Rewind ==
  /\ cursor' = 0
  /\ UNCHANGED <<issued, handled, over>>

\* The writes up to w that still wait for it are told their answers.
Tell(w) ==
  /\ w \in handled \ over
  /\ (1 .. w) \ over \subseteq handled
  /\ over' = over \cup 1 .. w
  /\ UNCHANGED <<issued, handled, cursor>>

GiveUp ==
  /\ over' = 1 .. issued
  /\ UNCHANGED <<issued, handled, cursor>>

Next ==
  \/ Issue \/ Rewind \/ GiveUp
  \/ \E w \in 1 .. issued : Handle(w) \/ Tell(w)

Spec == Init /\ [][Next]_replayVars

=============================================================================

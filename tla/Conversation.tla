---------------------------- MODULE Conversation ----------------------------
(***************************************************************************)
(* What the messages of JMatch promise: something that has been said stays *)
(* said, and comes to each side of the conversation once, unchanged and    *)
(* for good.  Nothing reaches a side that was not said to it or by it.     *)
(***************************************************************************)
CONSTANTS
  User,
  Message   \* a message has an id, a fromID and a toID

VARIABLES
  said,   \* the messages that have been said
  side    \* what each user has of the conversation with each other user

Init ==
  /\ said = {}
  /\ side = [u \in User |-> [p \in User |-> {}]]

Say(m) ==
  /\ \A n \in said : n.id # m.id
  /\ said' = said \cup {m}
  /\ UNCHANGED side

Reach(u, p, m) ==
  /\ m \in said
  /\ {m.fromID, m.toID} = {u, p}
  /\ side' = [side EXCEPT ![u][p] = @ \cup {m}]
  /\ UNCHANGED said

Next ==
  \E m \in Message : Say(m) \/ \E u, p \in User : Reach(u, p, m)

Spec == Init /\ [][Next]_<<said, side>>

=============================================================================

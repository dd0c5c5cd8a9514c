-------------------------- MODULE Messaging_proofs --------------------------
(***************************************************************************)
(* Keys never dangle and the database holds conversations that only grow,  *)
(* for any users, any number of messages and any losses.                   *)
(***************************************************************************)
EXTENDS Messaging, TLAPS

\* What holds of every write on its way, given the messages sent and stored.
WriteSound(u, w, all, stored) ==
  /\ w.message \in all
  /\ {w.message.fromID, w.message.toID} = {w.of, w.with}
  /\ w.message.fromID = u
  /\ w.key => w.message \in stored

\* ... and of a queue of writes.
QueueSound(u, q, all, stored) ==
  /\ q \in Seq(Write)
  /\ \A i \in DOMAIN q : WriteSound(u, q[i], all, stored)

\* Everything in the invariant but the types.
Facts ==
  /\ NoDanglingKey
  /\ messages \subseteq sent
  /\ \A m, n \in sent : m.id = n.id => m = n
  /\ \A u \in User : \A m \in accepted[u] : m \in messages /\ m.fromID = u
  /\ \A u \in User : QueueSound(u, writes[u], sent, messages)

\* The invariant, in these words.
LEMMA IInvFacts == IInv <=> TypeOK /\ Facts
<1>1. TypeOK => \A u \in User : writes[u] \in Seq(Write)
  BY DEF TypeOK
<1>2. QED BY <1>1 DEF IInv, Facts, WriteSound, QueueSound

\* A fresh view of a screen is a view.
LEMMA NewViewType == \A s, u : NewView(s, u) \in View
BY DEF NewView, View

\* Whatever happens to one view, the others stay what they are.
LEMMA ViewType ==
  ASSUME view \in [Screen -> [User -> [User -> View]]],
         NEW s \in Screen, NEW u \in User, NEW p \in User, NEW v \in View,
         view' = [view EXCEPT ![s][u][p] = v]
  PROVE  view' \in [Screen -> [User -> [User -> View]]]
OBVIOUS

\* Sound queues stay sound while the messages sent and stored only grow.
LEMMA QueueStaysSound ==
  ASSUME NEW u, NEW q, NEW all, NEW all2, NEW stored, NEW stored2,
         QueueSound(u, q, all, stored), all \subseteq all2, stored \subseteq stored2
  PROVE  QueueSound(u, q, all2, stored2)
BY DEF QueueSound, WriteSound

\* One more write at the end.
LEMMA AppendSound ==
  ASSUME NEW u, NEW q, NEW w \in Write, NEW all, NEW stored,
         QueueSound(u, q, all, stored), WriteSound(u, w, all, stored)
  PROVE  QueueSound(u, Append(q, w), all, stored)
<1>1. q \in Seq(Write)
  BY DEF QueueSound
<1>2. /\ Append(q, w) \in Seq(Write) /\ DOMAIN Append(q, w) = 1..(Len(q) + 1)
      /\ DOMAIN q = 1..Len(q) /\ Len(q) \in Nat
      /\ \A i \in 1..Len(q) : Append(q, w)[i] = q[i]
      /\ Append(q, w)[Len(q) + 1] = w
  BY <1>1
<1>3. \A i \in 1..(Len(q) + 1) : i \in 1..Len(q) \/ i = Len(q) + 1
  BY <1>2
<1>4. QED BY <1>2, <1>3 DEF QueueSound

\* The head of a queue, and the rest of it.
LEMMA TailSound ==
  ASSUME NEW u, NEW q, NEW all, NEW stored, q # <<>>, QueueSound(u, q, all, stored)
  PROVE  /\ Head(q) \in Write /\ WriteSound(u, Head(q), all, stored)
         /\ QueueSound(u, Tail(q), all, stored)
<1>1. q \in Seq(Write)
  BY DEF QueueSound
<1>2. /\ Tail(q) \in Seq(Write) /\ Head(q) = q[1] /\ 1 \in DOMAIN q /\ Head(q) \in Write
      /\ \A i \in DOMAIN Tail(q) : i + 1 \in DOMAIN q /\ Tail(q)[i] = q[i + 1]
  BY <1>1
<1>3. QED BY <1>2 DEF QueueSound

\* A step that changes one queue only, and lets messages grow, keeps all sound.
LEMMA QueuesSound ==
  ASSUME TypeOK, Facts, NEW u \in User, NEW q,
         writes' = [writes EXCEPT ![u] = q],
         messages \subseteq messages', sent \subseteq sent',
         QueueSound(u, q, sent', messages')
  PROVE  /\ writes' \in [User -> Seq(Write)]
         /\ \A v \in User : QueueSound(v, writes'[v], sent', messages')
<1>1. writes \in [User -> Seq(Write)] /\ q \in Seq(Write)
  BY DEF TypeOK, QueueSound
<1>2. /\ writes' \in [User -> Seq(Write)] /\ writes'[u] = q
      /\ \A v \in User : v # u => writes'[v] = writes[v]
  BY <1>1
<1>3. ASSUME NEW v \in User, v # u
      PROVE  QueueSound(v, writes'[v], sent', messages')
  BY <1>2, <1>3, QueueStaysSound DEF Facts
<1>4. QED BY <1>2, <1>3

\* A message that is sent waits in the queue of its sender.
LEMMA PostedSound ==
  ASSUME TypeOK, Facts, NEW u \in User, NEW p \in User, NEW m \in Message,
         Posted(u, p, m), messages' = messages
  PROVE  /\ writes' \in [User -> Seq(Write)] /\ sent' \subseteq Message
         /\ \A v \in User : QueueSound(v, writes'[v], sent', messages')
         /\ messages' \subseteq sent'
         /\ \A l, n \in sent' : l.id = n.id => l = n
<1>1. /\ sent' = sent \cup {m} /\ m.fromID = u /\ m.toID = p
      /\ writes' = [writes EXCEPT ![u] = Append(writes[u], MessageWrite(m))]
      /\ \A n \in sent : n.id # m.id
  BY DEF Posted
<1>2. /\ MessageWrite(m) \in Write /\ WriteSound(u, MessageWrite(m), sent', messages')
  BY <1>1 DEF MessageWrite, Write, WriteSound, Message
<1>3. QueueSound(u, writes[u], sent', messages')
  BY <1>1, QueueStaysSound DEF Facts
<1>4. QueueSound(u, Append(writes[u], MessageWrite(m)), sent', messages')
  BY <1>2, <1>3, AppendSound
<1>5. sent' \subseteq Message /\ messages' \subseteq sent'
  BY <1>1 DEF TypeOK, Facts
<1>6. \A l, n \in sent' : l.id = n.id => l = n
  BY <1>1 DEF Facts
<1>7. QED BY <1>1, <1>4, <1>5, <1>6, QueuesSound

\* A step that touches neither messages nor keys nor writes has only types to keep.
LEMMA NothingStored ==
  ASSUME IInv, TypeOK', UNCHANGED <<messages, userMessages, sent, writes, accepted>>
  PROVE  IInv'
<1>1. Facts
  BY IInvFacts
<1>2. Facts'
  BY <1>1 DEF Facts, NoDanglingKey
<1>3. QED BY <1>2 DEF IInv, Facts, QueueSound, WriteSound

\* handleSend.
LEMMA HandleSendIInv ==
  ASSUME IInv, NEW m \in Message, HandleSend(m)
  PROVE  IInv'
<1>1. TypeOK /\ Facts /\ m.fromID \in User /\ m.toID \in User
  BY IInvFacts DEF Message
<1>2. /\ Posted(m.fromID, m.toID, m)
      /\ UNCHANGED <<messages, userMessages, uploads, accepted, view, losses>>
  BY DEF HandleSend
<1>3. /\ writes' \in [User -> Seq(Write)] /\ sent' \subseteq Message
      /\ \A v \in User : QueueSound(v, writes'[v], sent', messages')
      /\ messages' \subseteq sent'
      /\ \A l, n \in sent' : l.id = n.id => l = n
  BY <1>1, <1>2, PostedSound
<1>4. TypeOK'
  BY <1>1, <1>2, <1>3 DEF TypeOK
<1>5. Facts'
  BY <1>1, <1>2, <1>3 DEF Facts, NoDanglingKey
<1>6. QED BY <1>4, <1>5 DEF IInv, Facts, QueueSound, WriteSound

\* An upload starts.
LEMMA StartUploadIInv ==
  ASSUME IInv, NEW u \in User, NEW p \in User, StartUpload(u, p)
  PROVE  IInv'
<1>1. TypeOK /\ UNCHANGED <<messages, userMessages, sent, writes, accepted, view, losses>>
  BY DEF IInv, StartUpload
<1>2. uploads' \in [User -> SUBSET User]
  BY <1>1 DEF StartUpload, TypeOK
<1>3. TypeOK'
  BY <1>1, <1>2 DEF TypeOK
<1>4. QED BY <1>1, <1>3, NothingStored

\* An upload ends in a message, or in nothing.
LEMMA EndUploadIInv ==
  ASSUME IInv, NEW u \in User, NEW p \in User, EndUpload(u, p)
  PROVE  IInv'
<1>1. TypeOK /\ Facts
  BY IInvFacts
<1>2. /\ uploads' \in [User -> SUBSET User]
      /\ UNCHANGED <<messages, userMessages, accepted, view, losses>>
  BY <1>1 DEF EndUpload, TypeOK
<1>3. CASE \E m \in Message : Posted(u, p, m)
  <2>1. /\ writes' \in [User -> Seq(Write)] /\ sent' \subseteq Message
        /\ \A v \in User : QueueSound(v, writes'[v], sent', messages')
        /\ messages' \subseteq sent'
        /\ \A l, n \in sent' : l.id = n.id => l = n
    BY <1>1, <1>2, <1>3, PostedSound
  <2>2. TypeOK'
    BY <1>1, <1>2, <2>1 DEF TypeOK
  <2>3. Facts'
    BY <1>1, <1>2, <2>1 DEF Facts, NoDanglingKey
  <2>4. QED BY <2>2, <2>3 DEF IInv, Facts, QueueSound, WriteSound
<1>4. CASE UNCHANGED <<sent, writes>>
  <2>1. TypeOK'
    BY <1>1, <1>2, <1>4 DEF TypeOK
  <2>2. QED BY <1>2, <1>4, <2>1, NothingStored
<1>5. QED BY <1>3, <1>4 DEF EndUpload

\* The database takes a write: a key only after its message.
LEMMA ApplyIInv ==
  ASSUME IInv, NEW u \in User, Apply(u)
  PROVE  IInv'
<1> DEFINE w == Head(writes[u])
<1>1. TypeOK /\ Facts
  BY IInvFacts
<1>2. /\ writes' = [writes EXCEPT ![u] = Tail(writes[u])]
      /\ UNCHANGED <<sent, uploads, view, losses>>
      /\ writes[u] # <<>>
  BY DEF Apply
<1>3. /\ w \in Write /\ WriteSound(u, w, sent, messages)
      /\ QueueSound(u, Tail(writes[u]), sent, messages)
  BY <1>1, <1>2, TailSound DEF Facts
<1>4. /\ w.of \in User /\ w.with \in User /\ w.message \in Message /\ w.message \in sent
      /\ w.message.fromID = u /\ {w.message.fromID, w.message.toID} = {w.of, w.with}
      /\ w.key => w.message \in messages
  BY <1>3 DEF Write, WriteSound
<1>5. /\ w.key => /\ userMessages' = [userMessages EXCEPT ![w.of][w.with] = @ \cup {w.message}]
                  /\ UNCHANGED <<messages, accepted>>
      /\ ~w.key => /\ messages' = messages \cup {w.message}
                   /\ accepted' = [accepted EXCEPT ![u] = @ \cup {w.message}]
                   /\ UNCHANGED userMessages
  BY DEF Apply
<1> HIDE DEF w
<1>6. /\ messages \subseteq messages' /\ messages' \subseteq Message /\ messages' \subseteq sent'
      /\ sent' = sent
  BY <1>1, <1>2, <1>4, <1>5 DEF TypeOK, Facts
<1>7. QueueSound(u, Tail(writes[u]), sent', messages')
  BY <1>3, <1>6, QueueStaysSound
<1>8. /\ writes' \in [User -> Seq(Write)]
      /\ \A v \in User : QueueSound(v, writes'[v], sent', messages')
  BY <1>1, <1>2, <1>6, <1>7, QueuesSound
<1>9. /\ userMessages' \in [User -> [User -> SUBSET Message]]
      /\ NoDanglingKey'
  <2>1. CASE w.key
    <3>1. userMessages \in [User -> [User -> SUBSET Message]]
      BY <1>1 DEF TypeOK
    <3>2. userMessages' \in [User -> [User -> SUBSET Message]]
      BY <1>4, <1>5, <2>1, <3>1
    <3>3. \A v, p \in User : \A m \in userMessages'[v][p] :
            m \in userMessages[v][p] \/ (m = w.message /\ v = w.of /\ p = w.with)
      BY <1>4, <1>5, <2>1, <3>1
    <3>4. ASSUME NEW v \in User, NEW p \in User, NEW m \in userMessages'[v][p]
          PROVE  m \in messages' /\ {m.fromID, m.toID} = {v, p}
      <4>1. CASE m \in userMessages[v][p]
        BY <1>1, <1>6, <4>1 DEF Facts, NoDanglingKey
      <4>2. CASE m = w.message /\ v = w.of /\ p = w.with
        BY <1>4, <1>6, <2>1, <4>2
      <4>3. QED BY <3>3, <4>1, <4>2
    <3>5. QED BY <3>2, <3>4 DEF NoDanglingKey
  <2>2. CASE ~w.key
    BY <1>1, <1>5, <1>6, <2>2 DEF TypeOK, Facts, NoDanglingKey
  <2>3. QED BY <2>1, <2>2
<1>10. /\ accepted' \in [User -> SUBSET Message]
       /\ \A v \in User : \A m \in accepted'[v] : m \in messages' /\ m.fromID = v
  <2>1. CASE w.key
    BY <1>1, <1>5, <2>1 DEF TypeOK, Facts
  <2>2. CASE ~w.key
    <3>1. accepted \in [User -> SUBSET Message]
      BY <1>1 DEF TypeOK
    <3>2. \A v \in User : \A m \in accepted'[v] :
            m \in accepted[v] \/ (m = w.message /\ v = u)
      BY <1>5, <2>2, <3>1
    <3>3. accepted' \in [User -> SUBSET Message]
      BY <1>4, <1>5, <2>2, <3>1
    <3>4. w.message \in messages' /\ w.message.fromID = u
      BY <1>4, <1>5, <2>2
    <3>5. QED BY <1>1, <1>6, <3>2, <3>3, <3>4 DEF Facts
  <2>3. QED BY <2>1, <2>2
<1>11. TypeOK'
  BY <1>1, <1>2, <1>6, <1>8, <1>9, <1>10 DEF TypeOK
<1>12. \A m, n \in sent' : m.id = n.id => m = n
  BY <1>1, <1>6 DEF Facts
<1>13. Facts'
  BY <1>6, <1>8, <1>9, <1>10, <1>12 DEF Facts
<1>14. QED BY <1>11, <1>13 DEF IInv, Facts, QueueSound, WriteSound

\* A write that is refused is gone, and its completion block does nothing.
LEMMA RefuseIInv ==
  ASSUME IInv, NEW u \in User, Refuse(u)
  PROVE  IInv'
<1>1. TypeOK /\ Facts
  BY IInvFacts
<1>2. /\ writes' = [writes EXCEPT ![u] = Tail(writes[u])]
      /\ UNCHANGED <<messages, userMessages, sent, uploads, view, accepted>>
      /\ writes[u] # <<>>
      /\ losses' \in {losses, losses + 1} /\ losses' <= MaxLosses
  BY DEF Refuse, Refused
<1>3. QueueSound(u, Tail(writes[u]), sent', messages')
  BY <1>1, <1>2, TailSound DEF Facts
<1>4. /\ writes' \in [User -> Seq(Write)]
      /\ \A v \in User : QueueSound(v, writes'[v], sent', messages')
  BY <1>1, <1>2, <1>3, QueuesSound
<1>5. losses' \in 0..MaxLosses
  BY <1>1, <1>2, MessagingAssumption DEF TypeOK
<1>6. TypeOK'
  BY <1>1, <1>2, <1>4, <1>5 DEF TypeOK
<1>7. Facts'
  BY <1>1, <1>2, <1>4 DEF Facts, NoDanglingKey
<1>8. QED BY <1>6, <1>7 DEF IInv, Facts, QueueSound, WriteSound

\* The keys of an accepted message go to the two who speak.
LEMMA CompleteIInv ==
  ASSUME IInv, NEW u \in User, NEW m \in accepted[u], Complete(u, m)
  PROVE  IInv'
<1> DEFINE k1 == KeyWrite(m.fromID, m.toID, m)
           k2 == KeyWrite(m.toID, m.fromID, m)
<1>1. TypeOK /\ Facts
  BY IInvFacts
<1>2. /\ accepted' = [accepted EXCEPT ![u] = @ \ {m}]
      /\ writes' = [writes EXCEPT ![u] = writes[u] \o Keys(m)]
      /\ UNCHANGED <<messages, userMessages, sent, uploads, view, losses>>
  BY DEF Complete
<1>3. m \in Message /\ m \in messages /\ m \in sent /\ m.fromID = u
  BY <1>1 DEF TypeOK, Facts
<1>4. /\ k1 \in Write /\ WriteSound(u, k1, sent, messages)
      /\ k2 \in Write /\ WriteSound(u, k2, sent, messages)
  BY <1>3 DEF KeyWrite, Write, WriteSound, Message
<1>5. Keys(m) = <<k1, k2>>
  BY DEF Keys
<1> HIDE DEF k1, k2
<1>6. writes[u] \o Keys(m) = Append(Append(writes[u], k1), k2)
  <2>1. writes[u] \in Seq(Write)
    BY <1>1 DEF TypeOK
  <2>2. writes[u] \o <<k1, k2>> = Append(Append(writes[u], k1), k2)
    BY <1>4, <2>1
  <2>3. QED BY <1>5, <2>2
<1>7. QueueSound(u, Append(writes[u], k1), sent, messages)
  BY <1>1, <1>4, AppendSound DEF Facts
<1>8. QueueSound(u, writes[u] \o Keys(m), sent', messages')
  BY <1>2, <1>4, <1>6, <1>7, AppendSound
<1>9. /\ writes' \in [User -> Seq(Write)]
      /\ \A v \in User : QueueSound(v, writes'[v], sent', messages')
  BY <1>1, <1>2, <1>8, QueuesSound
<1>10. /\ accepted' \in [User -> SUBSET Message]
       /\ \A v \in User : accepted'[v] \subseteq accepted[v]
  BY <1>1, <1>2 DEF TypeOK
<1>11. TypeOK'
  BY <1>1, <1>2, <1>9, <1>10 DEF TypeOK
<1>12. Facts'
  BY <1>1, <1>2, <1>9, <1>10 DEF Facts, NoDanglingKey
<1>13. QED BY <1>11, <1>12 DEF IInv, Facts, QueueSound, WriteSound

\* Opening and leaving a chat, hearing of a key and fetching its message change
\* one view.
LEMMA ScreensIInv ==
  ASSUME IInv, NEW u \in User, NEW p \in User,
         \/ OpenChat(u, p)
         \/ CloseChat(u, p)
         \/ \E s \in Screen, m \in Message : ChildAdded(s, u, p, m) \/ Fetched(s, u, p, m)
  PROVE  IInv'
<1>1. TypeOK /\ UNCHANGED <<upVars, losses>>
  BY DEF IInv, OpenChat, CloseChat, ChildAdded, Fetched
<1>2. view \in [Screen -> [User -> [User -> View]]]
  BY <1>1 DEF TypeOK
<1>3. \A s \in Screen : view[s][u][p] \in View
  BY <1>2
<1>4. \E s \in Screen, v \in View : view' = [view EXCEPT ![s][u][p] = v]
  <2>1. CASE OpenChat(u, p)
    <3>1. [view["chat"][u][p] EXCEPT !.open = TRUE] \in View
      BY <1>3, <2>1 DEF OpenChat, View, Screen
    <3>2. view' = [view EXCEPT !["chat"][u][p] = [view["chat"][u][p] EXCEPT !.open = TRUE]]
      BY <2>1 DEF OpenChat
    <3>3. QED BY <2>1, <3>1, <3>2 DEF OpenChat, Screen
  <2>2. CASE CloseChat(u, p)
    BY <2>2, NewViewType DEF CloseChat, Screen
  <2>3. ASSUME NEW s \in Screen, NEW m \in Message, ChildAdded(s, u, p, m)
        PROVE  \E v \in View : view' = [view EXCEPT ![s][u][p] = v]
    <3>1. Reported(view[s][u][p], m) \in View
      BY <1>3 DEF View, Reported
    <3>2. view' = [view EXCEPT ![s][u][p] = Reported(view[s][u][p], m)]
      BY <2>3 DEF ChildAdded
    <3>3. QED BY <3>1, <3>2
  <2>4. ASSUME NEW s \in Screen, NEW m \in Message, Fetched(s, u, p, m)
        PROVE  \E v \in View : view' = [view EXCEPT ![s][u][p] = v]
    <3>1. Answered(s, view[s][u][p], m) \in View
      <4>1. view[s][u][p] \in View /\ view[s][u][p].messages \in Seq(Message)
        BY <1>3 DEF View
      <4>2. Append(view[s][u][p].messages, m) \in Seq(Message)
        BY <4>1
      <4>3. <<m>> \in Seq(Message)
        OBVIOUS
      <4>4. (IF m \notin messages THEN view[s][u][p].messages
             ELSE IF s = "chat" THEN Append(view[s][u][p].messages, m) ELSE <<m>>)
              \in Seq(Message)
        BY <4>1, <4>2, <4>3
      <4>5. QED BY <4>1, <4>4 DEF View, Answered
    <3>2. view' = [view EXCEPT ![s][u][p] = Answered(s, view[s][u][p], m)]
      BY <2>4 DEF Fetched
    <3>3. QED BY <3>1, <3>2
  <2>5. QED BY <2>1, <2>2, <2>3, <2>4
<1>5. view' \in [Screen -> [User -> [User -> View]]]
  BY <1>2, <1>4, ViewType
<1>6. TypeOK'
  BY <1>1, <1>5 DEF TypeOK, upVars
<1>7. QED BY <1>1, <1>6, NothingStored DEF upVars

\* An app that is killed leaves the database alone.
LEMMA KillIInv ==
  ASSUME IInv, NEW u \in User, Kill(u)
  PROVE  IInv'
<1>1. TypeOK /\ Facts
  BY IInvFacts
<1>2. /\ UNCHANGED <<messages, userMessages, sent>>
      /\ writes' = [writes EXCEPT ![u] = <<>>]
      /\ accepted' = [accepted EXCEPT ![u] = {}]
  BY DEF Kill
<1>3. QueueSound(u, <<>>, sent', messages')
  BY DEF QueueSound
<1>4. /\ writes' \in [User -> Seq(Write)]
      /\ \A v \in User : QueueSound(v, writes'[v], sent', messages')
  BY <1>1, <1>2, <1>3, QueuesSound
<1>5. /\ accepted' \in [User -> SUBSET Message]
      /\ \A v \in User : accepted'[v] \subseteq accepted[v]
  BY <1>1, <1>2 DEF TypeOK
<1>6. view' \in [Screen -> [User -> [User -> View]]]
  <2>1. \A s \in Screen : NewViews(s, u) \in [User -> View]
    BY NewViewType DEF NewViews
  <2>2. view \in [Screen -> [User -> [User -> View]]]
    BY <1>1 DEF TypeOK
  <2>3. QED BY <2>1, <2>2 DEF Kill
<1>7. uploads' \in [User -> SUBSET User] /\ losses' \in 0..MaxLosses
  BY <1>1, MessagingAssumption DEF TypeOK, Kill
<1>8. TypeOK'
  BY <1>1, <1>2, <1>4, <1>5, <1>6, <1>7 DEF TypeOK
<1>9. Facts'
  BY <1>1, <1>2, <1>4, <1>5 DEF Facts, NoDanglingKey
<1>10. QED BY <1>8, <1>9 DEF IInv, Facts, QueueSound, WriteSound

\* The database starts empty.
LEMMA InitIInv == Init => IInv
<1> SUFFICES ASSUME Init PROVE IInv
  OBVIOUS
<1>1. view \in [Screen -> [User -> [User -> View]]]
  BY NewViewType DEF Init, NewViews
<1>2. TypeOK
  BY <1>1, MessagingAssumption DEF Init, TypeOK
<1>3. QED BY <1>2 DEF Init, IInv, NoDanglingKey

\* Keys seen by an app are messages, so what is reported can be looked up.
LEMMA NewType ==
  ASSUME TypeOK, NEW s \in Screen, NEW u \in User, NEW p \in User
  PROVE  New(s, u, p) \subseteq Message /\ view[s][u][p].fetching \subseteq Message
<1>1. writes[u] \in Seq(Write) /\ userMessages[u][p] \subseteq Message
      /\ view[s][u][p] \in View
  BY DEF TypeOK
<1>2. \A i \in DOMAIN writes[u] : writes[u][i].message \in Message
  <2>1. \A i \in DOMAIN writes[u] : writes[u][i] \in Write
    BY <1>1
  <2>2. QED BY <2>1 DEF Write
<1>3. Seen(u, p) \subseteq Message
  BY <1>1, <1>2 DEF Seen
<1>4. QED BY <1>1, <1>3 DEF New, View

\* Every step keeps the invariant.
LEMMA StepIInv == IInv /\ [Next]_vars => IInv'
<1> SUFFICES ASSUME IInv, [Next]_vars PROVE IInv'
  OBVIOUS
<1>1. CASE UNCHANGED vars
  BY <1>1, NothingStored DEF vars, upVars, IInv, TypeOK
<1>2. ASSUME NEW m \in Message, HandleSend(m) PROVE IInv'
  BY <1>2, HandleSendIInv
<1>3. ASSUME NEW u \in User, NEW p \in User,
             StartUpload(u, p) \/ EndUpload(u, p) \/ OpenChat(u, p) \/ CloseChat(u, p)
      PROVE  IInv'
  BY <1>3, StartUploadIInv, EndUploadIInv, ScreensIInv
<1>4. ASSUME NEW u \in User, Upstream(u) \/ Kill(u) PROVE IInv'
  BY <1>4, ApplyIInv, RefuseIInv, CompleteIInv, KillIInv DEF Upstream
<1>5. ASSUME NEW s \in Screen, NEW u \in User, NEW p \in User, Listen(s, u, p)
      PROVE  IInv'
  <2>1. \E m \in Message : ChildAdded(s, u, p, m) \/ Fetched(s, u, p, m)
    BY <1>5, NewType DEF Listen, IInv
  <2>2. QED BY <2>1, ScreensIInv
<1>6. QED BY <1>1, <1>2, <1>3, <1>4, <1>5 DEF Next

\* The invariant holds in every state.
THEOREM Invariance == Spec => []IInv
BY InitIInv, StepIInv, PTL DEF Spec

\* sendMessageWithProperties: no key is stored before its message, or on the side
\* of a stranger.
THEOREM KeysNeverDangle == Spec => []NoDanglingKey
<1>1. IInv => NoDanglingKey
  BY DEF IInv
<1>2. QED BY Invariance, <1>1, PTL

-----------------------------------------------------------------------------
\* What a view has to keep so that nothing is shown twice: what it waits for and
\* what it shows was heard of once, and it waits for nothing that it shows.
Fresh(v) ==
  /\ v.fetching \subseteq v.heard
  /\ \A i \in DOMAIN v.messages : v.messages[i] \in v.heard \ v.fetching
  /\ IsInjective(v.messages)

AllFresh == \A s \in Screen, u, p \in User : Fresh(view[s][u][p])

\* A view that was just opened shows nothing.
LEMMA NewViewFresh == \A s, u : Fresh(NewView(s, u))
BY DEF Fresh, NewView, IsInjective

\* childAdded of a key that is new.
LEMMA ReportedFresh ==
  ASSUME NEW v \in View, Fresh(v), NEW m \in Message, m \notin v.heard
  PROVE  Fresh(Reported(v, m))
<1>1. /\ Reported(v, m).heard = v.heard \cup {m}
      /\ Reported(v, m).fetching = v.fetching \cup {m}
      /\ Reported(v, m).messages = v.messages
  BY DEF Reported, View
<1>2. QED BY <1>1 DEF Fresh

\* The answer of a read: the message is no longer waited for, and was not shown;
\* in the list it is alone.
LEMMA AnsweredFresh ==
  ASSUME NEW v \in View, Fresh(v), NEW m \in v.fetching, NEW screen
  PROVE  Fresh(Answered(screen, v, m))
<1> DEFINE s == v.messages
           t == Answered(screen, v, m).messages
<1>1. /\ Answered(screen, v, m).heard = v.heard
      /\ Answered(screen, v, m).fetching = v.fetching \ {m}
      /\ t = s \/ t = Append(s, m) \/ t = <<m>>
  BY DEF Answered, View
<1>2. s \in Seq(Message) /\ m \in v.heard /\ m \in Message
  BY DEF View, Fresh
<1>3. /\ DOMAIN s = 1..Len(s) /\ Len(s) \in Nat
      /\ DOMAIN Append(s, m) = 1..(Len(s) + 1)
      /\ Append(s, m)[Len(s) + 1] = m
      /\ \A i \in 1..Len(s) : Append(s, m)[i] = s[i]
      /\ \A i \in 1..(Len(s) + 1) : i \in 1..Len(s) \/ i = Len(s) + 1
  BY <1>2
<1>4. \A i \in DOMAIN s : s[i] # m /\ s[i] \in v.heard \ (v.fetching \ {m})
  BY DEF Fresh
<1>5. IsInjective(s)
  BY DEF Fresh
<1> HIDE DEF s, t
<1>6. \A i \in DOMAIN Append(s, m) : Append(s, m)[i] \in v.heard \ (v.fetching \ {m})
  BY <1>2, <1>3, <1>4
<1>7. IsInjective(Append(s, m))
  BY <1>3, <1>4, <1>5 DEF IsInjective
<1>8. (\A i \in DOMAIN <<m>> : <<m>>[i] \in v.heard \ (v.fetching \ {m})) /\ IsInjective(<<m>>)
  BY <1>2 DEF IsInjective
<1>9. (\A i \in DOMAIN t : t[i] \in v.heard \ (v.fetching \ {m})) /\ IsInjective(t)
  BY <1>1, <1>4, <1>5, <1>6, <1>7, <1>8
<1>10. QED BY <1>1, <1>9 DEF Fresh, t

\* A step that replaces one view by a fresh one keeps all fresh.
LEMMA OneViewFresh ==
  ASSUME TypeOK, AllFresh, NEW s \in Screen, NEW u \in User, NEW p \in User, NEW v,
         Fresh(v), view' = [view EXCEPT ![s][u][p] = v]
  PROVE  AllFresh'
<1>1. view \in [Screen -> [User -> [User -> View]]]
  BY DEF TypeOK
<1>2. \A s2 \in Screen, u2, p2 \in User :
        view'[s2][u2][p2] = view[s2][u2][p2] \/ view'[s2][u2][p2] = v
  BY <1>1
<1>3. QED BY <1>2 DEF AllFresh

\* Opening and leaving a chat, hearing of a key, fetching its message.
LEMMA ScreensFresh ==
  ASSUME TypeOK, AllFresh, NEW u \in User, NEW p \in User,
         \/ OpenChat(u, p)
         \/ CloseChat(u, p)
         \/ \E s \in Screen : Listen(s, u, p)
  PROVE  AllFresh'
<1>1. \A s \in Screen : view[s][u][p] \in View /\ Fresh(view[s][u][p])
  BY DEF TypeOK, AllFresh
<1>2. CASE OpenChat(u, p)
  <2> DEFINE v == [view["chat"][u][p] EXCEPT !.open = TRUE]
  <2>1. "chat" \in Screen /\ view' = [view EXCEPT !["chat"][u][p] = v]
    BY <1>2 DEF OpenChat, Screen
  <2>2. Fresh(v)
    BY <1>1, <2>1 DEF Fresh, View
  <2>3. QED BY <2>1, <2>2, OneViewFresh
<1>3. CASE CloseChat(u, p)
  BY <1>3, NewViewFresh, OneViewFresh DEF CloseChat, Screen
<1>4. ASSUME NEW s \in Screen, NEW m \in New(s, u, p), ChildAdded(s, u, p, m)
      PROVE  AllFresh'
  <2>1. view' = [view EXCEPT ![s][u][p] = Reported(view[s][u][p], m)]
    BY <1>4 DEF ChildAdded
  <2>2. m \in Message /\ m \notin view[s][u][p].heard
    BY NewType DEF New
  <2>3. QED BY <1>1, <2>1, <2>2, ReportedFresh, OneViewFresh
<1>5. ASSUME NEW s \in Screen, NEW m \in view[s][u][p].fetching, Fetched(s, u, p, m)
      PROVE  AllFresh'
  <2>1. view' = [view EXCEPT ![s][u][p] = Answered(s, view[s][u][p], m)]
    BY <1>5 DEF Fetched
  <2>2. QED BY <1>1, <2>1, AnsweredFresh, OneViewFresh
<1>6. QED BY <1>2, <1>3, <1>4, <1>5 DEF Listen

\* Every step keeps the views fresh.
LEMMA StepFresh == TypeOK /\ AllFresh /\ [Next]_vars => AllFresh'
<1> SUFFICES ASSUME TypeOK, AllFresh, [Next]_vars PROVE AllFresh'
  OBVIOUS
<1>1. CASE UNCHANGED view
  BY <1>1 DEF AllFresh
<1>2. ASSUME NEW u \in User, NEW p \in User,
             \/ OpenChat(u, p) \/ CloseChat(u, p)
             \/ \E s \in Screen : Listen(s, u, p)
      PROVE  AllFresh'
  BY <1>2, ScreensFresh
<1>3. ASSUME NEW u \in User, Kill(u) PROVE AllFresh'
  <2>1. view \in [Screen -> [User -> [User -> View]]]
    BY DEF TypeOK
  <2>2. \A s \in Screen, u2, p2 \in User :
          view'[s][u2][p2] = view[s][u2][p2] \/ view'[s][u2][p2] = NewView(s, u)
    BY <1>3, <2>1 DEF Kill, NewViews
  <2>3. QED BY <2>2, NewViewFresh DEF AllFresh
<1>4. ASSUME NEW m \in Message, HandleSend(m) PROVE UNCHANGED view
  BY <1>4 DEF HandleSend
<1>5. ASSUME NEW u \in User, NEW p \in User, StartUpload(u, p) \/ EndUpload(u, p)
      PROVE  UNCHANGED view
  BY <1>5 DEF StartUpload, EndUpload
<1>6. ASSUME NEW u \in User, Upstream(u) PROVE UNCHANGED view
  BY <1>6 DEF Upstream, Apply, Refuse, Complete
<1>7. QED BY <1>1, <1>2, <1>3, <1>4, <1>5, <1>6 DEF Next, vars

\* observeMessages: no screen shows a message twice, whatever is sent, lost,
\* answered late or opened again.
THEOREM NothingTwice == Spec => []NoDoubles
<1>1. Init => AllFresh
  BY NewViewFresh DEF Init, AllFresh, NewViews
<1>2. IInv => TypeOK
  BY DEF IInv
<1>3. AllFresh => NoDoubles
  BY DEF AllFresh, Fresh, NoDoubles
<1>4. QED BY <1>1, <1>2, <1>3, StepFresh, Invariance, PTL DEF Spec

\* A write that the database takes says something, or lets it reach a side.
LEMMA ApplyRefines ==
  ASSUME IInv, NEW u \in User, Apply(u)
  PROVE  [Abstract!Next]_<<messages, userMessages>>
<1> DEFINE w == Head(writes[u])
<1>1. TypeOK /\ Facts
  BY IInvFacts
<1>2. w \in Write /\ WriteSound(u, w, sent, messages)
  BY <1>1, TailSound DEF Facts, Apply
<1>3. /\ w.of \in User /\ w.with \in User /\ w.message \in Message /\ w.message \in sent
      /\ {w.message.fromID, w.message.toID} = {w.of, w.with}
      /\ w.key => w.message \in messages
  BY <1>2 DEF Write, WriteSound
<1>4. CASE w.key
  <2>1. /\ userMessages' = [userMessages EXCEPT ![w.of][w.with] = @ \cup {w.message}]
        /\ messages' = messages
    BY <1>4 DEF Apply
  <2> HIDE DEF w
  <2>2. Abstract!Reach(w.of, w.with, w.message)
    BY <1>3, <1>4, <2>1 DEF Abstract!Reach
  <2>3. QED BY <1>3, <2>2 DEF Abstract!Next
<1>5. CASE ~w.key
  <2>1. messages' = messages \cup {w.message} /\ userMessages' = userMessages
    BY <1>5 DEF Apply
  <2> HIDE DEF w
  <2>2. CASE w.message \in messages
    BY <2>1, <2>2
  <2>3. CASE w.message \notin messages
    <3>1. \A n \in messages : n.id # w.message.id
      BY <1>1, <1>3, <2>3 DEF Facts
    <3>2. Abstract!Say(w.message)
      BY <2>1, <3>1 DEF Abstract!Say
    <3>3. QED BY <1>3, <3>2 DEF Abstract!Next
  <2>4. QED BY <2>2, <2>3
<1>6. QED BY <1>4, <1>5

\* Messaging implements the conversation: only the database's steps are visible.
THEOREM RefinesConversation == Spec => ConversationSpec
<1>1. Init => Abstract!Init
  BY DEF Init, Abstract!Init
<1>2. IInv /\ [Next]_vars => [Abstract!Next]_<<messages, userMessages>>
  <2> SUFFICES ASSUME IInv, [Next]_vars
               PROVE  [Abstract!Next]_<<messages, userMessages>>
    OBVIOUS
  <2>1. ASSUME NEW u \in User, Apply(u)
        PROVE  [Abstract!Next]_<<messages, userMessages>>
    BY <2>1, ApplyRefines
  <2>2. CASE UNCHANGED <<messages, userMessages>>
    BY <2>2
  <2>3. (\E u \in User : Apply(u)) \/ UNCHANGED <<messages, userMessages>>
    <3>1. ASSUME NEW m \in Message, HandleSend(m) PROVE UNCHANGED <<messages, userMessages>>
      BY <3>1 DEF HandleSend
    <3>2. ASSUME NEW u \in User, NEW p \in User,
                 StartUpload(u, p) \/ EndUpload(u, p) \/ OpenChat(u, p) \/ CloseChat(u, p)
          PROVE  UNCHANGED <<messages, userMessages>>
      BY <3>2 DEF StartUpload, EndUpload, OpenChat, CloseChat, upVars
    <3>3. ASSUME NEW u \in User, Upstream(u) \/ Kill(u)
          PROVE  Apply(u) \/ UNCHANGED <<messages, userMessages>>
      BY <3>3 DEF Upstream, Refuse, Complete, Kill
    <3>4. ASSUME NEW s \in Screen, NEW u \in User, NEW p \in User, Listen(s, u, p)
          PROVE  UNCHANGED <<messages, userMessages>>
      BY <3>4 DEF Listen, ChildAdded, Fetched, upVars
    <3>5. QED BY <3>1, <3>2, <3>3, <3>4 DEF Next, vars, upVars
  <2>4. QED BY <2>1, <2>2, <2>3
<1>3. QED BY <1>1, <1>2, Invariance, PTL DEF Spec, ConversationSpec, Abstract!Spec

=============================================================================

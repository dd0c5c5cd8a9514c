----------------------------- MODULE Messaging -----------------------------
(***************************************************************************)
(* How a message of JMatch travels: ChatLogController writes it to         *)
(* messages/, and when the database has accepted it, its key to            *)
(* user-messages/ of both sides.  The screens of both users observe their  *)
(* side: childAdded reports a key, and a read fetches the message.         *)
(*                                                                         *)
(* A screen is the chat with one partner, which is opened and left, or the *)
(* list of conversations (MessageTableViewController), which observes      *)
(* every partner from the start and keeps one message of each, the one     *)
(* fetched last.                                                           *)
(*                                                                         *)
(* Reads are answered in any order; the writes of one app arrive in the    *)
(* order they were made, and the app sees its own at once.                 *)
(***************************************************************************)
EXTENDS Integers, Sequences, SequencesExt

CONSTANTS
  User,
  Id,         \* the keys of childByAutoId
  Looking,    \* bound: who looks at which screen, <<screen, user>>
  MaxLosses   \* bound: kills of apps and refusals of keys

Screen == {"chat", "table"}

ASSUME MessagingAssumption ==
  /\ Looking \subseteq Screen \X User
  /\ MaxLosses \in Nat

VARIABLES
  messages,      \* messages/
  userMessages,  \* user-messages/<u>/<p>, the keys as the messages they stand for
  sent,          \* history: the messages that were ever sent
  uploads,       \* per user, the partners an image is being uploaded for
  writes,        \* per user, the writes that have not reached the database
  accepted,      \* per user, the messages whose completion block has to run
  view,          \* per screen, user and partner, what was heard and fetched
  losses         \* kills and refusals so far

upVars == <<messages, userMessages, sent, uploads, writes, accepted>>
vars == <<upVars, view, losses>>

Message == {m \in [id : Id, fromID : User, toID : User] : m.fromID # m.toID}
Write == [of : User, with : User, message : Message, key : BOOLEAN]
View == [open : BOOLEAN, fetching : SUBSET Message, heard : SUBSET Message,
         messages : Seq(Message)]

NewView(s, u) ==
  [open |-> s = "table" /\ <<s, u>> \in Looking,
   fetching |-> {}, heard |-> {}, messages |-> <<>>]
NewViews(s, u) == [p \in User |-> NewView(s, u)]

TypeOK ==
  /\ messages \subseteq Message
  /\ userMessages \in [User -> [User -> SUBSET Message]]
  /\ sent \subseteq Message
  /\ uploads \in [User -> SUBSET User]
  /\ writes \in [User -> Seq(Write)]
  /\ accepted \in [User -> SUBSET Message]
  /\ view \in [Screen -> [User -> [User -> View]]]
  /\ losses \in 0..MaxLosses

Init ==
  /\ messages = {}
  /\ userMessages = [u \in User |-> [p \in User |-> {}]]
  /\ sent = {}
  /\ uploads = [u \in User |-> {}]
  /\ writes = [u \in User |-> <<>>]
  /\ accepted = [u \in User |-> {}]
  /\ view = [s \in Screen |-> [u \in User |-> NewViews(s, u)]]
  /\ losses = 0

-----------------------------------------------------------------------------
(* Sending.                                                                *)

MessageWrite(m) == [of |-> m.fromID, with |-> m.toID, message |-> m, key |-> FALSE]
KeyWrite(u, p, m) == [of |-> u, with |-> p, message |-> m, key |-> TRUE]

\* sendMessageWithProperties: childByAutoId is new.
Posted(u, p, m) ==
  /\ m.fromID = u /\ m.toID = p
  /\ \A n \in sent : n.id # m.id
  /\ sent' = sent \cup {m}
  /\ writes' = [writes EXCEPT ![u] = Append(@, MessageWrite(m))]

\* handleSend.
HandleSend(m) ==
  /\ Posted(m.fromID, m.toID, m)
  /\ UNCHANGED <<messages, userMessages, uploads, accepted, view, losses>>

\* uploadToFireStorageUsingImage; an upload that fails is forgotten, one that
\* succeeds is sent.
StartUpload(u, p) ==
  /\ u # p
  /\ uploads' = [uploads EXCEPT ![u] = @ \cup {p}]
  /\ UNCHANGED <<messages, userMessages, sent, writes, accepted, view, losses>>

EndUpload(u, p) ==
  /\ p \in uploads[u]
  /\ uploads' = [uploads EXCEPT ![u] = @ \ {p}]
  /\ \/ \E m \in Message : Posted(u, p, m)
     \/ UNCHANGED <<sent, writes>>
  /\ UNCHANGED <<messages, userMessages, accepted, view, losses>>

\* The database takes the next write of an app.
Apply(u) ==
  LET w == Head(writes[u]) IN
  /\ writes[u] # <<>>
  /\ writes' = [writes EXCEPT ![u] = Tail(@)]
  /\ IF w.key
       THEN /\ userMessages' = [userMessages EXCEPT ![w.of][w.with] = @ \cup {w.message}]
            /\ UNCHANGED <<messages, accepted>>
       ELSE /\ messages' = messages \cup {w.message}
            /\ accepted' = [accepted EXCEPT ![u] = @ \cup {w.message}]
            /\ UNCHANGED userMessages
  /\ UNCHANGED <<sent, uploads, view, losses>>

\* Mutated Refused: a refused message is treated like an accepted one.
RefusedUnnoticed(u, w) ==
  IF w.key THEN accepted ELSE [accepted EXCEPT ![u] = @ \cup {w.message}]

\* The completion block of a refused message returns; nobody looks at a
\* refused key.
Refused(u, w) == accepted

\* The database refuses the next write of an app.
Refuse(u) ==
  LET w == Head(writes[u]) IN
  /\ writes[u] # <<>>
  /\ losses' = IF w.key THEN losses + 1 ELSE losses
  /\ losses' <= MaxLosses
  /\ writes' = [writes EXCEPT ![u] = Tail(@)]
  /\ accepted' = Refused(u, w)
  /\ UNCHANGED <<messages, userMessages, sent, uploads, view>>

\* Mutated Keys: only the own side gets the key; both get it on the wrong side.
OwnKey(m) == <<KeyWrite(m.fromID, m.toID, m)>>
KeysOfReader(m) ==
  <<KeyWrite(m.fromID, m.toID, m), KeyWrite(m.toID, m.toID, m)>>

Keys(m) == <<KeyWrite(m.fromID, m.toID, m), KeyWrite(m.toID, m.fromID, m)>>

\* The completion block of an accepted message.
Complete(u, m) ==
  /\ m \in accepted[u]
  /\ accepted' = [accepted EXCEPT ![u] = @ \ {m}]
  /\ writes' = [writes EXCEPT ![u] = @ \o Keys(m)]
  /\ UNCHANGED <<messages, userMessages, sent, uploads, view, losses>>

-----------------------------------------------------------------------------
(* Observing.                                                              *)

OpenChat(u, p) ==
  /\ <<"chat", u>> \in Looking /\ u # p /\ ~view["chat"][u][p].open
  /\ view' = [view EXCEPT !["chat"][u][p].open = TRUE]
  /\ UNCHANGED <<upVars, losses>>

CloseChat(u, p) ==
  /\ view["chat"][u][p].open
  /\ view' = [view EXCEPT !["chat"][u][p] = NewView("chat", u)]
  /\ UNCHANGED <<upVars, losses>>

\* The keys that u's app sees in user-messages/<u>/<p>.
Seen(u, p) ==
  userMessages[u][p] \cup
    {w.message : w \in {writes[u][i] : i \in {j \in DOMAIN writes[u] :
        writes[u][j].key /\ writes[u][j].of = u /\ writes[u][j].with = p}}}

\* Mutated New: a key is reported again when its message has been fetched.
ReportedAgain(s, u, p) == Seen(u, p) \ view[s][u][p].fetching

\* childAdded reports every key once.
New(s, u, p) == Seen(u, p) \ view[s][u][p].heard

Reported(v, m) == [v EXCEPT !.heard = @ \cup {m}, !.fetching = @ \cup {m}]

ChildAdded(s, u, p, m) ==
  /\ view[s][u][p].open
  /\ m \in New(s, u, p)
  /\ view' = [view EXCEPT ![s][u][p] = Reported(@, m)]
  /\ UNCHANGED <<upVars, losses>>

\* Mutated Answered: the chat, too, keeps the last message only.
LastOnly(s, v, m) ==
  [v EXCEPT !.fetching = @ \ {m},
            !.messages = IF m \in messages THEN <<m>> ELSE @]

\* The message arrives, if it is there.  The chat appends it; in the list it
\* takes the place of the one before, as messageDictionary has one per partner.
Answered(s, v, m) ==
  [v EXCEPT !.fetching = @ \ {m},
            !.messages = IF m \notin messages THEN @
                         ELSE IF s = "chat" THEN Append(@, m) ELSE <<m>>]

Fetched(s, u, p, m) ==
  /\ m \in view[s][u][p].fetching
  /\ view' = [view EXCEPT ![s][u][p] = Answered(s, @, m)]
  /\ UNCHANGED <<upVars, losses>>

-----------------------------------------------------------------------------
\* The app is killed and started again: what it has not sent is lost.
Kill(u) ==
  /\ losses < MaxLosses
  /\ losses' = losses + 1
  /\ uploads' = [uploads EXCEPT ![u] = {}]
  /\ writes' = [writes EXCEPT ![u] = <<>>]
  /\ accepted' = [accepted EXCEPT ![u] = {}]
  /\ view' = [s \in Screen |-> [view[s] EXCEPT ![u] = NewViews(s, u)]]
  /\ UNCHANGED <<messages, userMessages, sent>>

Upstream(u) == Apply(u) \/ Refuse(u) \/ \E m \in accepted[u] : Complete(u, m)

Listen(s, u, p) ==
  \/ \E m \in New(s, u, p) : ChildAdded(s, u, p, m)
  \/ \E m \in view[s][u][p].fetching : Fetched(s, u, p, m)

Next ==
  \/ \E m \in Message : HandleSend(m)
  \/ \E u, p \in User : StartUpload(u, p) \/ EndUpload(u, p)
                        \/ OpenChat(u, p) \/ CloseChat(u, p)
  \/ \E u \in User : Upstream(u) \/ Kill(u)
  \/ \E s \in Screen, u, p \in User : Listen(s, u, p)

Spec == Init /\ [][Next]_vars

FairSpec ==
  /\ Spec
  /\ \A u \in User : WF_vars(Upstream(u))
  /\ \A l \in Looking : \A p \in User \ {l[2]} : WF_vars(Listen(l[1], l[2], p))

-----------------------------------------------------------------------------
(* Properties.                                                             *)

\* observeMessages: no order of keys, answers and reopened chats shows a message
\* twice.
NoDoubles ==
  \A s \in Screen, u, p \in User : IsInjective(view[s][u][p].messages)

\* The key of a message is never there before the message, nor on the side of
\* somebody who is not in the conversation: what childAdded reports can be fetched.
NoDanglingKey ==
  \A u, p \in User : \A m \in userMessages[u][p] :
    m \in messages /\ {m.fromID, m.toID} = {u, p}

\* The inductive invariant: the same for keys on their way, for blocks that will
\* write them and for what the screens wait for; and sent messages keep their ids.
IInv ==
  /\ TypeOK
  /\ NoDanglingKey
  /\ messages \subseteq sent
  /\ \A m, n \in sent : m.id = n.id => m = n
  /\ \A u \in User : \A m \in accepted[u] : m \in messages /\ m.fromID = u
  /\ \A u \in User : \A i \in DOMAIN writes[u] :
       LET w == writes[u][i] IN
       /\ w.message \in sent
       /\ {w.message.fromID, w.message.toID} = {w.of, w.with}
       /\ w.message.fromID = u
       /\ w.key => w.message \in messages

\* sendMessageWithProperties: a message that was accepted reaches both sides, unless an app was killed or a
\* key refused.
BothSides ==
  \A m \in Message :
    m \in messages ~>
      \/ m \in userMessages[m.fromID][m.toID] /\ m \in userMessages[m.toID][m.fromID]
      \/ losses > 0

\* Message.chatPartnerId.
Partner(m, u) == IF m.fromID = u THEN m.toID ELSE m.fromID

\* observeMessages: a chat that stays open comes to show every message of its
\* side for good, whatever its reads overtake and whoever sent it.  The list, too,
\* keeps an entry for every partner, though not always of the latest message.
ShownInTheEnd ==
  \A l \in Looking, m \in Message :
    LET u == l[2]
        v == view[l[1]][u][Partner(m, u)]
        there == IF l[1] = "chat" THEN m \in ToSet(v.messages) ELSE v.messages # <<>>
    IN m \in userMessages[u][Partner(m, u)] /\ v.open ~> ~v.open \/ []there

\* The two sides are conversations that only grow.
Abstract == INSTANCE Conversation WITH said <- messages, side <- userMessages
ConversationSpec == Abstract!Spec

=============================================================================

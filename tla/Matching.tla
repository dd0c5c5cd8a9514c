------------------------------ MODULE Matching ------------------------------
(***************************************************************************)
(* How JMatch makes a match: SwipeCardView.updateUserLike of every user,   *)
(* against the database that they share.  A like reads whether the other   *)
(* user has liked before, and writes one or two entries of matches/ when   *)
(* the answer comes.  Nothing holds the read and the writes together: an   *)
(* app that is killed forgets both, and a user who logs out and in again   *)
(* gets new cards while old answers are still on their way.                *)
(*                                                                         *)
(* The database answers reads in any order and applies the writes of one   *)
(* app in the order they were made; the app sees its own at once.  Every   *)
(* user has one app.                                                       *)
(***************************************************************************)
EXTENDS Integers, Sequences

CONSTANTS
  User,
  MaxKills,    \* bound: how often an app is killed
  MaxLogouts   \* bound: how often a user logs out and in again

ASSUME BoundsAssumption == MaxKills \in Nat /\ MaxLogouts \in Nat

VARIABLES
  matches,   \* matches/<a>/<b>: "none", or the value false or true
  deck,      \* the cards a user can still swipe
  reads,     \* per user, the likes whose read is under way or answered
  writes,    \* per user, the writes that have not reached the database
  liked,     \* history: who has swiped whom to the right
  logouts,   \* per user, how often the user logged out and in again
  kills      \* how often an app was killed

vars == <<matches, deck, reads, writes, liked, logouts, kills>>

Others(a) == User \ {a}
Read == [to : User, login : 0..MaxLogouts, answer : {"asked", "exists", "absent"}]
Write == [of : User, to : User, value : {"false", "true"}]

TypeOK ==
  /\ matches \in [User -> [User -> {"none", "false", "true"}]]
  /\ deck \in [User -> SUBSET User]
  /\ reads \in [User -> SUBSET Read]
  /\ writes \in [User -> Seq(Write)]
  /\ liked \subseteq User \X User
  /\ logouts \in [User -> 0..MaxLogouts]
  /\ kills \in 0..MaxKills

Init ==
  /\ matches = [a \in User |-> [b \in User |-> "none"]]
  /\ deck = [a \in User |-> Others(a)]
  /\ reads = [a \in User |-> {}]
  /\ writes = [a \in User |-> <<>>]
  /\ liked = {}
  /\ logouts = [a \in User |-> 0]
  /\ kills = 0

-----------------------------------------------------------------------------
\* handlePanGesture: to the left, the card is gone; to the right, the read of
\* matches/<b>/<a> starts.
SwipeLeft(a, b) ==
  /\ b \in deck[a]
  /\ deck' = [deck EXCEPT ![a] = @ \ {b}]
  /\ UNCHANGED <<matches, reads, writes, liked, logouts, kills>>

SwipeRight(a, b) ==
  /\ b \in deck[a]
  /\ deck' = [deck EXCEPT ![a] = @ \ {b}]
  /\ reads' = [reads EXCEPT ![a] =
                 @ \cup {[to |-> b, login |-> logouts[a], answer |-> "asked"]}]
  /\ liked' = liked \cup {<<a, b>>}
  /\ UNCHANGED <<matches, writes, logouts, kills>>

\* snapshot.exists() in a's app, of the entry matches/<b>/<c>.
Exists(a, b, c) ==
  \/ matches[b][c] # "none"
  \/ \E i \in DOMAIN writes[a] : writes[a][i].of = b /\ writes[a][i].to = c

\* Mutated Found: the user's own entry is read.
OwnEntryFound(a, b) == IF Exists(a, a, b) THEN "exists" ELSE "absent"

\* observeSingleEvent at matches/<b>/<a>: whether b has swiped a to the right.
Found(a, b) == IF Exists(a, b, a) THEN "exists" ELSE "absent"

\* The database looks the entry up ...
Answer(a, r) ==
  /\ r.answer = "asked"
  /\ reads' = [reads EXCEPT ![a] = (@ \ {r}) \cup {[r EXCEPT !.answer = Found(a, r.to)]}]
  /\ UNCHANGED <<matches, deck, writes, liked, logouts, kills>>

Entry(a, b, value) == [of |-> a, to |-> b, value |-> value]

\* Mutated Outcome: only the own side of a match is written.
OwnSide(a, r) ==
  IF r.answer = "exists"
    THEN <<Entry(a, r.to, "true")>>
    ELSE <<Entry(a, r.to, "false")>>

\* What the callback of the read writes.
Outcome(a, r) ==
  IF r.answer = "exists"
    THEN <<Entry(a, r.to, "true"), Entry(r.to, a, "true")>>
    ELSE <<Entry(a, r.to, "false")>>

\* ... and the callback runs when the answer arrives.
Receive(a, r) ==
  /\ r.answer # "asked"
  /\ reads' = [reads EXCEPT ![a] = @ \ {r}]
  /\ writes' = [writes EXCEPT ![a] = @ \o Outcome(a, r)]
  /\ UNCHANGED <<matches, deck, liked, logouts, kills>>

\* updateChildValues reaches the database.
Apply(a) ==
  /\ writes[a] # <<>>
  /\ LET w == Head(writes[a]) IN matches' = [matches EXCEPT ![w.of][w.to] = w.value]
  /\ writes' = [writes EXCEPT ![a] = Tail(@)]
  /\ UNCHANGED <<deck, reads, liked, logouts, kills>>

\* Mutated Cards: users who were swiped before come back.
AllCards(a) == Others(a)

\* fetchUser: a user is a card unless the own entry exists.
Cards(a) == {b \in Others(a) : matches[a][b] = "none"}

\* The app is killed and started again: what has not reached the database by
\* then is lost.
Kill(a) ==
  /\ kills < MaxKills
  /\ kills' = kills + 1
  /\ reads' = [reads EXCEPT ![a] = {}]
  /\ writes' = [writes EXCEPT ![a] = <<>>]
  /\ deck' = [deck EXCEPT ![a] = Cards(a)]
  /\ UNCHANGED <<matches, liked, logouts>>

\* handleLogout and a login: a new MatchViewController fetches its cards, and
\* the callbacks of the old one stay, as do the writes under way.
Relogin(a) ==
  /\ logouts[a] < MaxLogouts
  /\ logouts' = [logouts EXCEPT ![a] = @ + 1]
  /\ deck' = [deck EXCEPT ![a] = {b \in Cards(a) : ~Exists(a, a, b)}]
  /\ UNCHANGED <<matches, reads, writes, liked, kills>>

-----------------------------------------------------------------------------
Swipe == \E a, b \in User : SwipeLeft(a, b) \/ SwipeRight(a, b)
Network(a) == (\E r \in reads[a] : Answer(a, r) \/ Receive(a, r)) \/ Apply(a)

Next == Swipe \/ \E a \in User : Network(a) \/ Kill(a) \/ Relogin(a)

Spec == Init /\ [][Next]_vars
FairSpec == Spec /\ \A a \in User : WF_vars(Network(a))

-----------------------------------------------------------------------------
\* updateUserLike: nobody is matched with somebody who has not liked back.
MatchIsMutual ==
  \A a, b \in User : matches[a][b] = "true" => <<a, b>> \in liked /\ <<b, a>> \in liked

\* A late answer never turns a match back into a like, not even after the app
\* was killed, unless the user logged out while the answer was on its way.
MatchStays ==
  [][\A a, b \in User :
       matches[a][b] = "true" => matches'[a][b] = "true" \/ logouts[a] > 0]_vars

\* A value that somebody has written, or is about to, is backed by likes.
Backed(a, b, value) ==
  /\ <<a, b>> \in liked
  /\ value = "true" => <<b, a>> \in liked

\* So are the entries, what an app has asked for and been told, and the writes
\* on their way.
LikesInv ==
  /\ TypeOK
  /\ \A a, b \in User : matches[a][b] # "none" => Backed(a, b, matches[a][b])
  /\ \A a \in User : \A r \in reads[a] :
       Backed(a, r.to, IF r.answer = "exists" THEN "true" ELSE "false")
  /\ \A a \in User : \A i \in DOMAIN writes[a] :
       Backed(writes[a][i].of, writes[a][i].to, writes[a][i].value)

\* Nobody meets oneself, and an app writes for somebody else only what turns a
\* like that is there into the match with its own user.
OthersInv ==
  \A a \in User :
    /\ a \notin deck[a]
    /\ \A r \in reads[a] : r.to # a /\ (r.answer = "exists" => matches[r.to][a] # "none")
    /\ \A i \in DOMAIN writes[a] : LET w == writes[a][i] IN
         IF w.of = a
           THEN w.to # a
           ELSE w.to = a /\ w.value = "true" /\ matches[w.of][a] # "none"

OwnWrite(a, b, i) == writes[a][i].of = a /\ writes[a][i].to = b

\* As long as a user does not log out, somebody is a card, a read or a write of
\* the own entry, and once; and the entry is not there yet.
OnceInv ==
  \A a \in User : logouts[a] = 0 =>
    \A b \in User :
      /\ b \in deck[a] =>
           /\ matches[a][b] = "none"
           /\ \A r \in reads[a] : r.to # b
           /\ \A i \in DOMAIN writes[a] : ~OwnWrite(a, b, i)
      /\ \A r \in reads[a] : r.to = b =>
           /\ matches[a][b] = "none"
           /\ \A q \in reads[a] : q.to = b => q = r
           /\ \A i \in DOMAIN writes[a] : ~OwnWrite(a, b, i)
      /\ \A i \in DOMAIN writes[a] : OwnWrite(a, b, i) =>
           /\ matches[a][b] = "none"
           /\ \A j \in DOMAIN writes[a] : OwnWrite(a, b, j) => j = i

\* Without kills and logouts, a like is on its way until it is stored, and so is
\* the other half of a match.
Matched(a, b) ==
  \/ matches[a][b] = "true"
  \/ \E c \in User : \E i \in DOMAIN writes[c] : writes[c][i] = Entry(a, b, "true")
AgreeInv ==
  \A a, b \in User : kills = 0 /\ logouts[a] = 0 /\ logouts[b] = 0 =>
    /\ <<a, b>> \in liked =>
         \/ matches[a][b] # "none"
         \/ \E r \in reads[a] : r.to = b
         \/ \E i \in DOMAIN writes[a] : OwnWrite(a, b, i)
    /\ Matched(a, b) => Matched(b, a)

\* The inductive invariant.
IInv == LikesInv /\ OthersInv /\ OnceInv /\ AgreeInv

Settled(a) == reads[a] = {} /\ writes[a] = <<>>
Undisturbed(a) == kills = 0 /\ logouts[a] = 0

\* Two likes end in a match or cross: both sides agree once the answers are in
\* and the writes are done, if no app was killed and nobody logged out.
BothOrNeither ==
  \A a, b \in User :
    /\ Undisturbed(a) /\ Settled(a) /\ Undisturbed(b) /\ Settled(b)
    /\ {<<a, b>>, <<b, a>>} \subseteq liked
    => matches[a][b] = matches[b][a] /\ matches[a][b] # "none"

\* A user who likes back, and whose app learns of it, gets the match on both
\* sides, whatever else happens, unless an app is killed.
LikeBackMatches ==
  \A a, b \in User :
    (\E r \in reads[a] : r.to = b /\ r.answer = "exists")
      ~> (matches[a][b] = "true" /\ matches[b][a] = "true") \/ kills > 0

=============================================================================

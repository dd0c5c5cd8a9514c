-------------------------------- MODULE Deck --------------------------------
(***************************************************************************)
(* The deck of cards of JMatch: MatchViewController lists the users it may *)
(* offer, one by one as the database answers; StackContainerView shows     *)
(* three cards of that list and computes which card comes next from how    *)
(* long the list is by then.                                               *)
(*                                                                         *)
(* A card is the position of its user in the list.                         *)
(***************************************************************************)
EXTENDS Integers, FiniteSets, Sequences

CONSTANTS
  User,             \* the users who are not matched or liked yet
  CardsToBeVisible  \* how many cards lie on the stack (3)

ASSUME DeckAssumption == CardsToBeVisible \in Nat \ {0}

VARIABLES
  viewModelData,   \* the users listed, in the order of the answers
  searchEnabled,   \* whether the search button has not been used yet
  cards,           \* the cards on the stack
  remainingcards,  \* the cards the container believes are still to come
  offered,         \* history: the cards that were put on the stack, in order
  known            \* history: how many users were listed at the search

vars == <<viewModelData, searchEnabled, cards, remainingcards, offered, known>>

TypeOK ==
  /\ viewModelData \in Seq(User)
  /\ searchEnabled \in BOOLEAN
  /\ cards \subseteq 1..Len(viewModelData)
  /\ remainingcards \in 0..Len(viewModelData)
  /\ offered \in Seq(Nat \ {0})
  /\ known \in 0..Len(viewModelData)

Init ==
  /\ viewModelData = <<>>
  /\ searchEnabled = TRUE
  /\ cards = {}
  /\ remainingcards = 0
  /\ offered = <<>>
  /\ known = 0

-----------------------------------------------------------------------------
Listed(u) == \E i \in DOMAIN viewModelData : viewModelData[i] = u

\* fetchUser: childAdded reports every user once, and the user is listed if the
\* answer says that no entry exists.
FetchUser(u) ==
  /\ ~Listed(u)
  /\ viewModelData' = Append(viewModelData, u)
  /\ UNCHANGED <<searchEnabled, cards, remainingcards, offered, known>>

\* numberOfCardsToShow
NumberOfCardsToShow == Len(viewModelData)

FirstCards ==
  IF NumberOfCardsToShow < CardsToBeVisible THEN NumberOfCardsToShow ELSE CardsToBeVisible

\* reloadData: the first cards.
ReloadData ==
  /\ cards' = 1..FirstCards
  /\ remainingcards' = NumberOfCardsToShow - FirstCards
  /\ offered' = [i \in 1..FirstCards |-> i]

\* resetTapped, which can happen once.
ResetTapped ==
  /\ searchEnabled
  /\ searchEnabled' = FALSE
  /\ ReloadData
  /\ known' = NumberOfCardsToShow
  /\ UNCHANGED viewModelData

\* Mutated NewIndex: one too few; the list is read from its end.
LastIndex == NumberOfCardsToShow - remainingcards - 1
FromTheEnd == remainingcards - 1

\* The index of the next card, from zero.
NewIndex == NumberOfCardsToShow - remainingcards

\* Mutated Remaining: nothing is counted down.
StillRemaining == remainingcards

\* addCardView counts down.
Remaining == remainingcards - 1

\* swipeDidEnd: the card goes, and if the container has any left, one comes.
SwipeDidEnd(card) ==
  /\ card \in cards
  /\ \/ /\ remainingcards > 0
        /\ cards' = (cards \ {card}) \cup {NewIndex + 1}
        /\ offered' = Append(offered, NewIndex + 1)
        /\ remainingcards' = Remaining
     \/ /\ remainingcards = 0
        /\ cards' = cards \ {card}
        /\ UNCHANGED <<offered, remainingcards>>
  /\ UNCHANGED <<viewModelData, searchEnabled, known>>

-----------------------------------------------------------------------------
Next ==
  \/ \E u \in User : FetchUser(u)
  \/ ResetTapped
  \/ \E card \in cards : SwipeDidEnd(card)

Spec == Init /\ [][Next]_vars

-----------------------------------------------------------------------------
\* swipeDidEnd: nobody is offered twice, however the list grows between the
\* swipes.
OfferedOnce ==
  \A i, j \in DOMAIN offered :
    viewModelData[offered[i]] = viewModelData[offered[j]] => i = j

\* As many cards are offered as users were listed at the search, so those who
\* are listed later take the place of others.
AsManyAsKnown ==
  ~searchEnabled => Len(offered) + remainingcards = known

\* If the list was complete at the search, everybody on it is offered.
EverybodyOffered ==
  ~searchEnabled /\ Len(viewModelData) = known /\ remainingcards = 0
    => \A k \in 1..known : \E i \in DOMAIN offered : offered[i] = k

\* The inductive invariant: the list has no doubles, and the cards offered lie
\* below the next index.
IInv ==
  /\ TypeOK
  /\ \A i, j \in DOMAIN viewModelData : viewModelData[i] = viewModelData[j] => i = j
  /\ \A i \in DOMAIN offered : offered[i] <= NewIndex
  /\ \A i, j \in DOMAIN offered : i < j => offered[i] < offered[j]
  /\ searchEnabled => offered = <<>> /\ cards = {} /\ remainingcards = 0
  /\ AsManyAsKnown

=============================================================================

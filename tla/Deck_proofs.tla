---------------------------- MODULE Deck_proofs ----------------------------
(***************************************************************************)
(* Nobody is offered twice, for any users and any size of the stack.       *)
(***************************************************************************)
EXTENDS Deck, FiniteSetTheorems, TLAPS

\* The stack starts empty.
LEMMA InitIInv == Init => IInv
BY DEF Init, IInv, TypeOK, AsManyAsKnown, NewIndex, NumberOfCardsToShow

\* A user who is listed moves the next index away from the cards offered.
LEMMA FetchUserIInv ==
  ASSUME IInv, NEW u \in User, FetchUser(u)
  PROVE  IInv'
<1> DEFINE n == Len(viewModelData)
<1>1. /\ viewModelData \in Seq(User) /\ n \in Nat
      /\ viewModelData' = Append(viewModelData, u)
      /\ UNCHANGED <<searchEnabled, cards, remainingcards, offered, known>>
  BY DEF IInv, TypeOK, FetchUser
<1>2. /\ viewModelData' \in Seq(User) /\ Len(viewModelData') = n + 1
      /\ \A i \in 1..n : viewModelData'[i] = viewModelData[i]
      /\ viewModelData'[n + 1] = u
  BY <1>1
<1>3. TypeOK'
  BY <1>1, <1>2 DEF IInv, TypeOK
<1>4. \A i, j \in DOMAIN viewModelData' : viewModelData'[i] = viewModelData'[j] => i = j
  <2>1. \A i \in 1..n : viewModelData'[i] # u
    BY <1>1, <1>2 DEF FetchUser, Listed
  <2>2. DOMAIN viewModelData' = 1..(n + 1) /\ DOMAIN viewModelData = 1..n
    BY <1>1, <1>2
  <2>3. QED BY <1>2, <2>1, <2>2 DEF IInv
<1>5. NewIndex' = NewIndex + 1 /\ NewIndex \in Nat
  BY <1>1, <1>2 DEF NewIndex, NumberOfCardsToShow, IInv, TypeOK
<1>6. \A i \in DOMAIN offered' : offered'[i] <= NewIndex'
  <2>1. \A i \in DOMAIN offered : offered[i] \in Nat /\ offered[i] <= NewIndex
    <3>1. \A i \in DOMAIN offered : offered[i] \in Nat
      BY DEF IInv, TypeOK
    <3>2. QED BY <3>1 DEF IInv
  <2>2. QED BY <1>1, <1>5, <2>1
<1>7. QED BY <1>1, <1>3, <1>4, <1>6 DEF IInv, AsManyAsKnown

\* The search offers the first cards.
LEMMA ResetTappedIInv ==
  ASSUME IInv, ResetTapped
  PROVE  IInv'
<1> DEFINE n == Len(viewModelData)
<1>1. n \in Nat /\ FirstCards \in 0..n
  BY DeckAssumption DEF IInv, TypeOK, FirstCards, NumberOfCardsToShow
<1>2. /\ offered' = [i \in 1..FirstCards |-> i] /\ cards' = 1..FirstCards
      /\ remainingcards' = n - FirstCards /\ known' = n /\ searchEnabled' = FALSE
      /\ viewModelData' = viewModelData
  BY DEF ResetTapped, ReloadData, NumberOfCardsToShow
<1>3. offered' \in Seq(Nat \ {0}) /\ Len(offered') = FirstCards
  BY <1>1, <1>2
<1>4. TypeOK'
  <2>1. viewModelData \in Seq(User) /\ Len(viewModelData') = n
    BY <1>2 DEF IInv, TypeOK
  <2>2. cards' \subseteq 1..n /\ remainingcards' \in 0..n /\ known' \in 0..n
    BY <1>1, <1>2
  <2>3. QED BY <1>2, <1>3, <2>1, <2>2 DEF TypeOK
<1>5. NewIndex' = FirstCards
  BY <1>1, <1>2 DEF NewIndex, NumberOfCardsToShow
<1>6. QED BY <1>1, <1>2, <1>3, <1>4, <1>5 DEF IInv, AsManyAsKnown

\* The next card lies above all cards offered so far.
LEMMA SwipeDidEndIInv ==
  ASSUME IInv, NEW card \in cards, SwipeDidEnd(card)
  PROVE  IInv'
<1> DEFINE n == Len(viewModelData)
           m == Len(offered)
<1>1. /\ n \in Nat /\ remainingcards \in 0..n /\ offered \in Seq(Nat \ {0}) /\ m \in Nat
      /\ NewIndex = n - remainingcards
      /\ UNCHANGED <<viewModelData, searchEnabled, known>>
      /\ ~searchEnabled
      /\ m + remainingcards = known
  BY DEF IInv, TypeOK, SwipeDidEnd, NewIndex, NumberOfCardsToShow, AsManyAsKnown
<1>2. CASE remainingcards = 0
  <2>1. cards' \subseteq cards /\ UNCHANGED <<offered, remainingcards>>
    BY <1>2 DEF SwipeDidEnd
  <2>2. TypeOK'
    BY <1>1, <2>1 DEF IInv, TypeOK
  <2>3. NewIndex' = NewIndex
    BY <1>1, <2>1 DEF NewIndex, NumberOfCardsToShow
  <2>4. QED BY <1>1, <2>1, <2>2, <2>3 DEF IInv, AsManyAsKnown
<1>3. CASE remainingcards > 0
  <2>1. /\ cards' = (cards \ {card}) \cup {NewIndex + 1}
        /\ offered' = Append(offered, NewIndex + 1)
        /\ remainingcards' = remainingcards - 1
    BY <1>3 DEF SwipeDidEnd, Remaining
  <2>2. NewIndex + 1 \in 1..n /\ NewIndex' = NewIndex + 1
    BY <1>1, <1>3, <2>1 DEF NewIndex, NumberOfCardsToShow
  <2>3. /\ offered' \in Seq(Nat \ {0}) /\ Len(offered') = m + 1
        /\ \A i \in 1..m : offered'[i] = offered[i]
        /\ offered'[m + 1] = NewIndex + 1
    BY <1>1, <2>1, <2>2
  <2>4. TypeOK'
    <3>1. cards' \subseteq 1..n /\ remainingcards' \in 0..n
      <4>1. cards \subseteq 1..n
        BY DEF IInv, TypeOK
      <4>2. remainingcards - 1 \in 0..n
        BY <1>1, <1>3
      <4>3. QED BY <2>1, <2>2, <4>1, <4>2
    <3>2. viewModelData' = viewModelData /\ searchEnabled' = searchEnabled /\ known' = known
      BY <1>1
    <3>3. QED BY <2>3, <3>1, <3>2 DEF IInv, TypeOK
  <2>5. \A i \in 1..m : offered[i] \in Nat /\ offered[i] <= NewIndex
    BY <1>1 DEF IInv
  <2>6. DOMAIN offered' = 1..(m + 1) /\ DOMAIN offered = 1..m
    BY <1>1, <2>3
  <2>7. \A i \in DOMAIN offered' : offered'[i] <= NewIndex'
    <3>1. TAKE i \in DOMAIN offered'
    <3>2. CASE i \in 1..m
      <4>1. offered'[i] = offered[i] /\ offered[i] \in Nat /\ offered[i] <= NewIndex
        BY <2>3, <2>5, <3>2
      <4>2. QED BY <1>1, <2>2, <4>1
    <3>3. CASE i = m + 1
      BY <1>1, <2>2, <2>3, <3>3
    <3>4. QED BY <1>1, <2>6, <3>2, <3>3
  <2>8. \A i, j \in DOMAIN offered' : i < j => offered'[i] < offered'[j]
    <3>1. \A i, j \in 1..m : i < j => offered[i] < offered[j]
      BY <2>6 DEF IInv
    <3>2. ASSUME NEW i \in 1..m PROVE offered'[i] < offered'[m + 1]
      <4>1. offered'[i] = offered[i] /\ offered[i] \in Nat /\ offered[i] <= NewIndex
        BY <2>3, <2>5
      <4>2. QED BY <1>1, <2>3, <4>1
    <3>3. TAKE i, j \in DOMAIN offered'
    <3>4. HAVE i < j
    <3>5. i \in 1..m /\ (j \in 1..m \/ j = m + 1)
      BY <1>1, <2>6, <3>4
    <3>6. CASE j \in 1..m
      <4>1. offered'[i] = offered[i] /\ offered'[j] = offered[j]
        BY <2>3, <3>5, <3>6
      <4>2. QED BY <3>1, <3>4, <3>5, <3>6, <4>1
    <3>7. QED BY <3>2, <3>5, <3>6
  <2>9. AsManyAsKnown'
    <3>1. Len(offered') + remainingcards' = known'
      BY <1>1, <2>1, <2>3
    <3>2. QED BY <3>1 DEF AsManyAsKnown
  <2>10. QED BY <1>1, <2>4, <2>7, <2>8, <2>9 DEF IInv
<1>4. QED BY <1>1, <1>2, <1>3

\* The invariant holds in every state, whatever is listed when.
THEOREM Invariance == Spec => []IInv
<1>1. IInv /\ [Next]_vars => IInv'
  <2> SUFFICES ASSUME IInv, [Next]_vars PROVE IInv'
    OBVIOUS
  <2>1. CASE UNCHANGED vars
    BY <2>1 DEF vars, IInv, TypeOK, NewIndex, NumberOfCardsToShow, AsManyAsKnown
  <2>2. CASE \E u \in User : FetchUser(u)
    BY <2>2, FetchUserIInv
  <2>3. CASE ResetTapped
    BY <2>3, ResetTappedIInv
  <2>4. CASE \E card \in cards : SwipeDidEnd(card)
    BY <2>4, SwipeDidEndIInv
  <2>5. QED BY <2>1, <2>2, <2>3, <2>4 DEF Next
<1>2. QED BY InitIInv, <1>1, PTL DEF Spec

\* No card and no position ever lies outside the list.
THEOREM TypeCorrect == Spec => []TypeOK
<1>1. IInv => TypeOK
  BY DEF IInv
<1>2. QED BY Invariance, <1>1, PTL

\* swipeDidEnd never offers a user again.
THEOREM NobodyTwice == Spec => []OfferedOnce
<1>1. IInv => OfferedOnce
  <2> SUFFICES ASSUME IInv, NEW i \in DOMAIN offered, NEW j \in DOMAIN offered,
                      viewModelData[offered[i]] = viewModelData[offered[j]]
               PROVE  i = j
    BY DEF OfferedOnce
  <2>1. /\ offered[i] \in DOMAIN viewModelData /\ offered[j] \in DOMAIN viewModelData
        /\ i \in Nat /\ j \in Nat /\ offered[i] \in Nat /\ offered[j] \in Nat
    <3>1. /\ viewModelData \in Seq(User) /\ offered \in Seq(Nat \ {0})
          /\ remainingcards \in 0..Len(viewModelData)
          /\ offered[i] <= NewIndex /\ offered[j] <= NewIndex
      BY DEF IInv, TypeOK
    <3>2. /\ i \in Nat /\ j \in Nat
          /\ offered[i] \in Nat \ {0} /\ offered[j] \in Nat \ {0}
      BY <3>1
    <3>3. NewIndex \in Nat /\ NewIndex <= Len(viewModelData)
      BY <3>1 DEF NewIndex, NumberOfCardsToShow
    <3>4. offered[i] \in 1..Len(viewModelData) /\ offered[j] \in 1..Len(viewModelData)
      BY <3>1, <3>2, <3>3
    <3>5. QED BY <3>1, <3>2, <3>4
  <2>2. offered[i] = offered[j]
    BY <2>1 DEF IInv
  <2>3. QED BY <2>1, <2>2 DEF IInv
<1>2. QED BY Invariance, <1>1, PTL

\* The container offers as many cards as it found at the search.
THEOREM CardsAreCounted == Spec => []AsManyAsKnown
<1>1. IInv => AsManyAsKnown
  BY DEF IInv
<1>2. QED BY Invariance, <1>1, PTL

\* If the list was complete at the search, swiping to the end offers everybody
\* on it: the cards offered are as many as the positions, and none twice.
THEOREM AllAreOffered == Spec => []EverybodyOffered
<1>1. IInv => EverybodyOffered
  <2> SUFFICES ASSUME IInv, ~searchEnabled, Len(viewModelData) = known, remainingcards = 0
               PROVE  \A k \in 1..known : \E i \in DOMAIN offered : offered[i] = k
    BY DEF EverybodyOffered
  <2>1. known \in Nat /\ Len(offered) = known /\ NewIndex = known /\ offered \in Seq(Nat \ {0})
    BY DEF IInv, TypeOK, AsManyAsKnown, NewIndex, NumberOfCardsToShow
  <2>2. DOMAIN offered = 1..known /\ offered \in [1..known -> 1..known]
    <3>1. \A i \in 1..known : offered[i] \in Nat \ {0} /\ offered[i] <= known
      BY <2>1 DEF IInv
    <3>2. \A i \in 1..known : offered[i] \in 1..known
      BY <2>1, <3>1
    <3>3. QED BY <2>1, <3>2
  <2>3. ASSUME NEW i \in 1..known, NEW j \in 1..known, offered[i] = offered[j]
        PROVE  i = j
    <3>1. i \in Nat /\ j \in Nat /\ offered[i] \in Nat /\ offered[j] \in Nat
      BY <2>1, <2>2
    <3>2. /\ i < j => offered[i] < offered[j]
          /\ j < i => offered[j] < offered[i]
      BY <2>2 DEF IInv
    <3>3. QED BY <2>3, <3>1, <3>2
  <2>4. offered \in Injection(1..known, 1..known)
    BY <2>2, <2>3 DEF Injection, IsInjective
  <2>5. IsFiniteSet(1..known) /\ Cardinality(1..known) = Cardinality(1..known)
    BY <2>1, FS_Interval
  <2>6. offered \in Surjection(1..known, 1..known)
    BY <2>4, <2>5, FS_Injection
  <2>7. QED BY <2>2, <2>6 DEF Surjection
<1>2. QED BY Invariance, <1>1, PTL

=============================================================================

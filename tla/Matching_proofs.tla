-------------------------- MODULE Matching_proofs --------------------------
(***************************************************************************)
(* Nobody is matched without having liked and been liked; a match lasts;   *)
(* and both sides agree on it: for any number of users, killed apps and    *)
(* logouts.                                                                *)
(***************************************************************************)
EXTENDS Matching, TLAPS

\* Likes are never taken back: what was backed stays backed.
LEMMA BackedStays ==
  ASSUME liked \subseteq liked', NEW a, NEW b, NEW value, Backed(a, b, value)
  PROVE  Backed(a, b, value)'
BY DEF Backed

\* An empty database is backed by no likes at all.
LEMMA InitLikes == Init => LikesInv
BY BoundsAssumption DEF Init, LikesInv, TypeOK, Others, Backed

\* A swipe to the left touches the deck only.
LEMMA SwipeLeftLikes ==
  ASSUME LikesInv, NEW a \in User, NEW b \in User, SwipeLeft(a, b)
  PROVE  LikesInv'
BY DEF LikesInv, TypeOK, SwipeLeft, Backed

\* A swipe to the right is the like that backs the read it starts.
LEMMA SwipeRightLikes ==
  ASSUME LikesInv, NEW a \in User, NEW b \in User, SwipeRight(a, b)
  PROVE  LikesInv'
<1> DEFINE r == [to |-> b, login |-> logouts[a], answer |-> "asked"]
<1>1. TypeOK'
  BY DEF LikesInv, TypeOK, SwipeRight, Read
<1>2. liked \subseteq liked' /\ <<a, b>> \in liked'
  BY DEF SwipeRight
<1>3. \A c, d \in User : matches'[c][d] # "none" => Backed(c, d, matches[c][d])'
  BY <1>2, BackedStays DEF LikesInv, SwipeRight, Backed
<1>4. \A c \in User : \A q \in reads'[c] : q \in reads[c] \/ (c = a /\ q = r)
  BY DEF LikesInv, TypeOK, SwipeRight
<1>5. \A c \in User : \A q \in reads'[c] :
        Backed(c, q.to, IF q.answer = "exists" THEN "true" ELSE "false")'
  <2>1. ASSUME NEW c \in User, NEW q \in reads[c]
        PROVE  Backed(c, q.to, IF q.answer = "exists" THEN "true" ELSE "false")'
    BY <1>2 DEF LikesInv, Backed
  <2>2. r.to = b /\ r.answer # "exists"
    OBVIOUS
  <2>3. <<a, r.to>> \in liked'
    BY <1>2, <2>2
  <2>4. Backed(a, r.to, IF r.answer = "exists" THEN "true" ELSE "false")'
    BY <2>2, <2>3 DEF Backed
  <2>5. QED BY <1>4, <2>1, <2>4
<1>6. \A c \in User : \A i \in DOMAIN writes'[c] :
        Backed(writes[c][i].of, writes[c][i].to, writes[c][i].value)'
  BY <1>2 DEF LikesInv, SwipeRight, Backed
<1>7. QED BY <1>1, <1>3, <1>5, <1>6 DEF LikesInv

\* The database says "exists" only of an entry that is backed.
LEMMA AnswerLikes ==
  ASSUME LikesInv, NEW a \in User, NEW r \in reads[a], Answer(a, r)
  PROVE  LikesInv'
<1> DEFINE s == [r EXCEPT !.answer = Found(a, r.to)]
<1>1. r \in Read
  BY DEF LikesInv, TypeOK
<1>2. s.to = r.to /\ s.answer = Found(a, r.to) /\ s \in Read
  BY <1>1 DEF Read, Found
<1>3. TypeOK'
  BY <1>2 DEF LikesInv, TypeOK, Answer
<1>4. \A c \in User : \A q \in reads'[c] : q \in reads[c] \/ (c = a /\ q = s)
  BY DEF LikesInv, TypeOK, Answer
<1>5. <<a, r.to>> \in liked
  BY DEF LikesInv, Backed
<1>6. Found(a, r.to) = "exists" => <<r.to, a>> \in liked
  <2>1. matches[r.to][a] # "none" => <<r.to, a>> \in liked
    BY <1>1 DEF LikesInv, Backed, Read
  <2>2. ASSUME NEW i \in DOMAIN writes[a], writes[a][i].of = r.to, writes[a][i].to = a
        PROVE  <<r.to, a>> \in liked
    BY <2>2 DEF LikesInv, Backed
  <2>3. QED BY <2>1, <2>2 DEF Found, Exists
<1>7. \A c \in User : \A q \in reads'[c] :
        Backed(c, q.to, IF q.answer = "exists" THEN "true" ELSE "false")
  BY <1>2, <1>4, <1>5, <1>6 DEF LikesInv, Backed
<1>8. QED BY <1>3, <1>7 DEF LikesInv, Answer, Backed

\* What the callback writes is backed by what it was told.
LEMMA ReceiveLikes ==
  ASSUME LikesInv, NEW a \in User, NEW r \in reads[a], Receive(a, r)
  PROVE  LikesInv'
<1> DEFINE new == Outcome(a, r)
<1>1. r \in Read /\ <<a, r.to>> \in liked /\ (r.answer = "exists" => <<r.to, a>> \in liked)
  BY DEF LikesInv, TypeOK, Backed
<1>2. /\ new \in Seq(Write)
      /\ \A i \in 1..Len(new) : Backed(new[i].of, new[i].to, new[i].value)
  <2>1. CASE r.answer = "exists"
    <3>1. Entry(a, r.to, "true") \in Write /\ Entry(r.to, a, "true") \in Write
      BY <1>1 DEF Entry, Write, Read
    <3>2. new = <<Entry(a, r.to, "true"), Entry(r.to, a, "true")>>
      BY <2>1 DEF Outcome
    <3>3. Len(new) = 2 /\ new[1] = Entry(a, r.to, "true") /\ new[2] = Entry(r.to, a, "true")
      BY <3>2
    <3>4. QED BY <2>1, <1>1, <3>1, <3>2, <3>3 DEF Entry, Backed
  <2>2. CASE r.answer # "exists"
    <3>1. Entry(a, r.to, "false") \in Write
      BY <1>1 DEF Entry, Write, Read
    <3>2. new = <<Entry(a, r.to, "false")>>
      BY <2>2 DEF Outcome
    <3>3. QED BY <1>1, <3>1, <3>2 DEF Entry, Backed
  <2>3. QED BY <2>1, <2>2
<1>3. /\ writes \in [User -> Seq(Write)]
      /\ writes' = [writes EXCEPT ![a] = @ \o new]
  BY DEF LikesInv, TypeOK, Receive
<1> HIDE DEF new
<1>4. TypeOK'
  <2>1. writes[a] \in Seq(Write)
    BY <1>3
  <2>2. writes[a] \o new \in Seq(Write)
    BY <1>2, <2>1
  <2>3. writes' \in [User -> Seq(Write)]
    BY <1>3, <2>2
  <2>4. QED BY <2>3 DEF LikesInv, TypeOK, Receive
<1>5. \A c \in User : reads'[c] \subseteq reads[c]
  BY DEF LikesInv, TypeOK, Receive
<1>6. \A i \in 1..Len(writes'[a]) :
        Backed(writes'[a][i].of, writes'[a][i].to, writes'[a][i].value)
  <2>1. writes'[a] = writes[a] \o new /\ writes[a] \in Seq(Write)
    BY <1>3
  <2>2. \A i \in 1..Len(writes'[a]) :
          \/ i \in 1..Len(writes[a]) /\ writes'[a][i] = writes[a][i]
          \/ i - Len(writes[a]) \in 1..Len(new) /\ writes'[a][i] = new[i - Len(writes[a])]
    BY <2>1, <1>2
  <2>3. \A i \in 1..Len(writes[a]) :
          Backed(writes[a][i].of, writes[a][i].to, writes[a][i].value)
    BY <2>1 DEF LikesInv
  <2>4. TAKE i \in 1..Len(writes'[a])
  <2>5. CASE i \in 1..Len(writes[a]) /\ writes'[a][i] = writes[a][i]
    BY <2>3, <2>5
  <2>6. CASE i - Len(writes[a]) \in 1..Len(new) /\ writes'[a][i] = new[i - Len(writes[a])]
    BY <1>2, <2>6
  <2>7. QED BY <2>2, <2>5, <2>6
<1>7. \A c \in User : \A i \in DOMAIN writes'[c] :
        Backed(writes'[c][i].of, writes'[c][i].to, writes'[c][i].value)
  <2>1. \A c \in User : c # a => writes'[c] = writes[c]
    BY <1>3
  <2>2. DOMAIN writes'[a] = 1..Len(writes'[a])
    BY <1>4 DEF TypeOK
  <2>3. QED BY <2>1, <2>2, <1>6 DEF LikesInv
<1>8. liked' = liked /\ matches' = matches
  BY DEF Receive
<1>9. QED BY <1>4, <1>5, <1>7, <1>8 DEF LikesInv, Backed

\* A write that arrives leaves an entry as well backed as it was.
LEMMA ApplyLikes ==
  ASSUME LikesInv, NEW a \in User, Apply(a)
  PROVE  LikesInv'
<1> DEFINE w == Head(writes[a])
<1>1. /\ writes[a] \in Seq(Write) /\ writes[a] # <<>>
      /\ writes \in [User -> Seq(Write)]
      /\ matches \in [User -> [User -> {"none", "false", "true"}]]
  BY DEF LikesInv, TypeOK, Apply
<1>2. /\ w \in Write /\ w = writes[a][1] /\ 1 \in DOMAIN writes[a]
      /\ Tail(writes[a]) \in Seq(Write)
  BY <1>1
<1>3. /\ w.of \in User /\ w.to \in User /\ w.value \in {"false", "true"}
      /\ Backed(w.of, w.to, w.value)
  BY <1>2 DEF LikesInv, Write
<1>4. /\ matches' = [matches EXCEPT ![w.of][w.to] = w.value]
      /\ writes' = [writes EXCEPT ![a] = Tail(@)]
      /\ UNCHANGED <<deck, reads, liked, logouts, kills>>
  BY DEF Apply
<1> HIDE DEF w
<1>5. TypeOK'
  BY <1>1, <1>2, <1>3, <1>4 DEF LikesInv, TypeOK
<1>6. \A c, d \in User : matches'[c][d] # "none" => Backed(c, d, matches'[c][d])
  <2>1. \A c, d \in User :
          \/ matches'[c][d] = matches[c][d]
          \/ c = w.of /\ d = w.to /\ matches'[c][d] = w.value
    BY <1>1, <1>3, <1>4
  <2>2. QED BY <2>1, <1>3 DEF LikesInv
<1>7. \A i \in DOMAIN writes'[a] : i + 1 \in DOMAIN writes[a]
                                   /\ writes'[a][i] = writes[a][i + 1]
  BY <1>1, <1>4
<1>8. \A c \in User : c # a => writes'[c] = writes[c]
  BY <1>1, <1>4
<1>9. \A c \in User : \A i \in DOMAIN writes'[c] :
        Backed(writes'[c][i].of, writes'[c][i].to, writes'[c][i].value)
  BY <1>7, <1>8 DEF LikesInv
<1>10. QED BY <1>4, <1>5, <1>6, <1>9 DEF LikesInv, Backed

\* An app that is killed forgets, and writes nothing.
LEMMA KillLikes ==
  ASSUME LikesInv, NEW a \in User, Kill(a)
  PROVE  LikesInv'
<1>1. TypeOK'
  BY BoundsAssumption DEF LikesInv, TypeOK, Kill, Cards, Others
<1>2. \A c \in User : reads'[c] \subseteq reads[c]
  BY DEF LikesInv, TypeOK, Kill
<1>3. \A c \in User : writes'[c] = <<>> \/ writes'[c] = writes[c]
  BY DEF LikesInv, TypeOK, Kill
<1>4. \A c \in User : \A i \in DOMAIN writes'[c] :
        Backed(writes'[c][i].of, writes'[c][i].to, writes'[c][i].value)
  BY <1>3 DEF LikesInv
<1>5. QED BY <1>1, <1>2, <1>4 DEF LikesInv, Kill, Backed

\* New cards change no entry, no answer and no write.
LEMMA ReloginLikes ==
  ASSUME LikesInv, NEW a \in User, Relogin(a)
  PROVE  LikesInv'
<1>1. logouts' \in [User -> 0..MaxLogouts]
  BY BoundsAssumption DEF LikesInv, TypeOK, Relogin
<1>2. deck' \in [User -> SUBSET User]
  BY DEF LikesInv, TypeOK, Relogin, Cards, Others
<1>3. QED BY <1>1, <1>2 DEF LikesInv, TypeOK, Relogin, Backed

-----------------------------------------------------------------------------
\* What a callback appends: the own entry, then the other half of a match.
LEMMA Appended ==
  ASSUME TypeOK, NEW a \in User, NEW r \in reads[a], Receive(a, r)
  PROVE  /\ \A c \in User : c # a => writes'[c] = writes[c]
         /\ \A i \in DOMAIN writes[a] : i \in DOMAIN writes'[a] /\ writes'[a][i] = writes[a][i]
         /\ \E own \in DOMAIN writes'[a] :
              /\ own \notin DOMAIN writes[a]
              /\ writes'[a][own] = Entry(a, r.to, IF r.answer = "exists" THEN "true" ELSE "false")
              /\ r.answer = "exists" =>
                   \E other \in DOMAIN writes'[a] : writes'[a][other] = Entry(r.to, a, "true")
              /\ \A i \in DOMAIN writes'[a] :
                   \/ i \in DOMAIN writes[a]
                   \/ i = own
                   \/ r.answer = "exists" /\ writes'[a][i] = Entry(r.to, a, "true")
<1> DEFINE n == Len(writes[a])
           new == Outcome(a, r)
<1>1. writes \in [User -> Seq(Write)] /\ writes' = [writes EXCEPT ![a] = @ \o new]
  BY DEF TypeOK, Receive
<1>2. r \in Read
  BY DEF TypeOK
<1>3. CASE r.answer = "exists"
  <2>1. /\ new = <<Entry(a, r.to, "true"), Entry(r.to, a, "true")>>
        /\ Entry(a, r.to, "true") \in Write /\ Entry(r.to, a, "true") \in Write
    BY <1>2, <1>3 DEF Outcome, Entry, Write, Read
  <2>2. writes'[a] = writes[a] \o <<Entry(a, r.to, "true"), Entry(r.to, a, "true")>>
    BY <1>1, <2>1
  <2>3. /\ n \in Nat /\ DOMAIN writes[a] = 1..n /\ DOMAIN writes'[a] = 1..(n + 2)
        /\ \A i \in 1..n : writes'[a][i] = writes[a][i]
        /\ writes'[a][n + 1] = Entry(a, r.to, "true")
        /\ writes'[a][n + 2] = Entry(r.to, a, "true")
    BY <1>1, <2>1, <2>2
  <2>4. \A i \in 1..(n + 2) : i \in 1..n \/ i = n + 1 \/ i = n + 2
    BY <2>3
  <2>5. n + 1 \in 1..(n + 2) /\ n + 2 \in 1..(n + 2) /\ n + 1 \notin 1..n /\ 1..n \subseteq 1..(n + 2)
    BY <2>3
  <2> HIDE DEF n, new
  <2>6. \A c \in User : c # a => writes'[c] = writes[c]
    BY <1>1
  <2>7. QED BY <1>3, <2>3, <2>4, <2>5, <2>6
<1>4. CASE r.answer # "exists"
  <2>1. new = <<Entry(a, r.to, "false")>> /\ Entry(a, r.to, "false") \in Write
    BY <1>2, <1>4 DEF Outcome, Entry, Write, Read
  <2>2. writes'[a] = writes[a] \o <<Entry(a, r.to, "false")>>
    BY <1>1, <2>1
  <2>3. /\ n \in Nat /\ DOMAIN writes[a] = 1..n /\ DOMAIN writes'[a] = 1..(n + 1)
        /\ \A i \in 1..n : writes'[a][i] = writes[a][i]
        /\ writes'[a][n + 1] = Entry(a, r.to, "false")
    BY <1>1, <2>1, <2>2
  <2>4. \A i \in 1..(n + 1) : i \in 1..n \/ i = n + 1
    BY <2>3
  <2>5. n + 1 \in 1..(n + 1) /\ n + 1 \notin 1..n /\ 1..n \subseteq 1..(n + 1)
    BY <2>3
  <2> HIDE DEF n, new
  <2>6. \A c \in User : c # a => writes'[c] = writes[c]
    BY <1>1
  <2>7. QED BY <1>4, <2>3, <2>4, <2>5, <2>6
<1>5. QED BY <1>3, <1>4

\* What a write that reaches the database changes: its entry; and the writes
\* behind it move up.
LEMMA Applied ==
  ASSUME TypeOK, NEW a \in User, Apply(a)
  PROVE  /\ \A c \in User : c # a => writes'[c] = writes[c]
         /\ 1 \in DOMAIN writes[a] /\ writes[a][1] \in Write
         /\ \A i \in DOMAIN writes'[a] :
              i + 1 \in DOMAIN writes[a] /\ i + 1 # 1 /\ writes'[a][i] = writes[a][i + 1]
         /\ \A i \in DOMAIN writes[a] : i = 1 \/
              \E j \in DOMAIN writes'[a] : writes'[a][j] = writes[a][i]
         /\ \A i, j \in DOMAIN writes'[a] : i + 1 = j + 1 => i = j
         /\ \A c, d \in User :
              IF (writes[a][1].of = c /\ writes[a][1].to = d) THEN matches'[c][d] = writes[a][1].value
                                   ELSE matches'[c][d] = matches[c][d]
<1>1. /\ writes \in [User -> Seq(Write)] /\ writes[a] # <<>>
      /\ matches \in [User -> [User -> {"none", "false", "true"}]]
      /\ writes' = [writes EXCEPT ![a] = Tail(@)]
      /\ LET w == Head(writes[a]) IN matches' = [matches EXCEPT ![w.of][w.to] = w.value]
  BY DEF TypeOK, Apply
<1>2. writes[a] \in Seq(Write) /\ writes'[a] = Tail(writes[a])
  BY <1>1
<1>3. /\ Len(writes[a]) \in Nat \ {0} /\ DOMAIN writes[a] = 1..Len(writes[a])
      /\ DOMAIN writes'[a] = 1..(Len(writes[a]) - 1)
      /\ \A i \in 1..(Len(writes[a]) - 1) : writes'[a][i] = writes[a][i + 1]
      /\ Head(writes[a]) = writes[a][1] /\ writes[a][1] \in Write
  BY <1>1, <1>2
<1>4. \A i \in 1..Len(writes[a]) : i = 1 \/ (i - 1 \in 1..(Len(writes[a]) - 1) /\ (i - 1) + 1 = i)
  BY <1>3
<1>5. \A i \in 1..(Len(writes[a]) - 1) : i + 1 \in 1..Len(writes[a]) /\ i + 1 # 1
  BY <1>3
<1>6. \A i, j \in DOMAIN writes'[a] : i + 1 = j + 1 => i = j
  BY <1>3
<1>7. \A c \in User : c # a => writes'[c] = writes[c]
  BY <1>1
<1>8. writes[a][1].of \in User /\ writes[a][1].to \in User
  BY <1>3 DEF Write
<1>9. \A c, d \in User :
        IF (writes[a][1].of = c /\ writes[a][1].to = d) THEN matches'[c][d] = writes[a][1].value
                             ELSE matches'[c][d] = matches[c][d]
  BY <1>1, <1>3, <1>8
<1>10. 1 \in DOMAIN writes[a]
  BY <1>3
<1>11. \A i \in DOMAIN writes[a] : i = 1 \/
         \E j \in DOMAIN writes'[a] : writes'[a][j] = writes[a][i]
  BY <1>3, <1>4
<1>12. QED BY <1>3, <1>5, <1>6, <1>7, <1>9, <1>10, <1>11

\* An app asks about others only, and turns only a like that is there into the
\* other half of a match: at first nobody has asked.
LEMMA InitOthers == Init => OthersInv /\ OnceInv /\ AgreeInv
BY DEF Init, OthersInv, OnceInv, AgreeInv, Matched, Others

\* An entry that is there is never taken away, so what an app has been told of it
\* holds.
LEMMA OthersStep ==
  ASSUME TypeOK, OthersInv, Next
  PROVE  OthersInv'
<1>1. ASSUME NEW a \in User, NEW b \in User, SwipeLeft(a, b) PROVE OthersInv'
  BY <1>1 DEF SwipeLeft, OthersInv, TypeOK
<1>2. ASSUME NEW a \in User, NEW b \in User, SwipeRight(a, b) PROVE OthersInv'
  <2>1. \A c \in User : \A r \in reads'[c] :
          r \in reads[c] \/ (c = a /\ r.to = b /\ r.answer = "asked")
    BY <1>2 DEF SwipeRight, TypeOK
  <2>2. b # a /\ \A c \in User : c \notin deck'[c]
    BY <1>2 DEF SwipeRight, OthersInv, TypeOK
  <2>3. QED BY <1>2, <2>1, <2>2 DEF SwipeRight, OthersInv
<1>3. ASSUME NEW a \in User, NEW r \in reads[a], Answer(a, r) PROVE OthersInv'
  <2>1. r \in Read
    BY DEF TypeOK
  <2>2. \A c \in User : \A q \in reads'[c] :
          q \in reads[c] \/ (c = a /\ q.to = r.to /\ q.answer = Found(a, r.to))
    BY <1>3, <2>1 DEF Answer, TypeOK, Read
  <2>3. Found(a, r.to) = "exists" => matches[r.to][a] # "none"
    BY DEF Found, Exists, OthersInv
  <2>4. QED BY <1>3, <2>2, <2>3 DEF Answer, OthersInv
<1>4. ASSUME NEW a \in User, NEW r \in reads[a], Receive(a, r) PROVE OthersInv'
  <2>1. \A c \in User : reads'[c] \subseteq reads[c]
    BY <1>4 DEF Receive, TypeOK
  <2>2. r.to # a /\ (r.answer = "exists" => matches[r.to][a] # "none")
    BY DEF OthersInv
  <2>3. ASSUME NEW i \in DOMAIN writes'[a]
        PROVE  IF writes'[a][i].of = a
                 THEN writes'[a][i].to # a
                 ELSE /\ writes'[a][i].to = a /\ writes'[a][i].value = "true"
                      /\ matches[writes'[a][i].of][a] # "none"
    <3>1. \/ i \in DOMAIN writes[a] /\ writes'[a][i] = writes[a][i]
          \/ \E v : writes'[a][i] = Entry(a, r.to, v)
          \/ r.answer = "exists" /\ writes'[a][i] = Entry(r.to, a, "true")
      BY <1>4, Appended
    <3>2. CASE i \in DOMAIN writes[a] /\ writes'[a][i] = writes[a][i]
      BY <3>2 DEF OthersInv
    <3>3. ASSUME NEW v, writes'[a][i] = Entry(a, r.to, v)
          PROVE  writes'[a][i].of = a /\ writes'[a][i].to # a
      BY <2>2, <3>3 DEF Entry
    <3>4. CASE r.answer = "exists" /\ writes'[a][i] = Entry(r.to, a, "true")
      BY <2>2, <3>4 DEF Entry
    <3>5. QED BY <3>1, <3>2, <3>3, <3>4
  <2>4. \A c \in User : c # a => writes'[c] = writes[c]
    BY <1>4, Appended
  <2>5. matches' = matches /\ deck' = deck
    BY <1>4 DEF Receive
  <2>6. QED BY <2>1, <2>3, <2>4, <2>5 DEF OthersInv
<1>5. ASSUME NEW a \in User, Apply(a) PROVE OthersInv'
  <2>1. writes[a][1].value # "none" /\ \A c \in User : reads[c] \subseteq Read
    BY <1>5, Applied DEF Write, TypeOK
  <2>2. \A c, d \in User : matches[c][d] # "none" => matches'[c][d] # "none"
    BY <1>5, <2>1, Applied
  <2>3. reads' = reads /\ deck' = deck
    BY <1>5 DEF Apply
  <2>4. \A c \in User : \A i \in DOMAIN writes'[c] :
          \E j \in DOMAIN writes[c] : writes'[c][i] = writes[c][j]
    BY <1>5, Applied
  <2>5. ASSUME NEW c \in User, NEW j \in DOMAIN writes[c]
        PROVE  writes[c][j].of \in User
    <3>1. writes[c] \in Seq(Write)
      BY DEF TypeOK
    <3>2. writes[c][j] \in Write
      BY <3>1
    <3>3. QED BY <3>2 DEF Write
  <2>6. \A c \in User : \A r \in reads[c] : r.to \in User
    BY <2>1 DEF Read
  <2>7. QED BY <2>2, <2>3, <2>4, <2>5, <2>6 DEF OthersInv
<1>6. ASSUME NEW a \in User, Kill(a) PROVE OthersInv'
  BY <1>6 DEF Kill, OthersInv, TypeOK, Cards, Others
<1>7. ASSUME NEW a \in User, Relogin(a) PROVE OthersInv'
  BY <1>7 DEF Relogin, OthersInv, TypeOK, Cards, Others
<1>8. QED BY <1>1, <1>2, <1>3, <1>4, <1>5, <1>6, <1>7 DEF Next, Swipe, Network

\* Somebody who is swiped is no card any more, and whose read is answered has no
\* read any more: the own entry is written once.
LEMMA OnceStep ==
  ASSUME TypeOK, OthersInv, OnceInv, Next
  PROVE  OnceInv'
<1>1. ASSUME NEW a \in User, NEW b \in User, SwipeLeft(a, b) PROVE OnceInv'
  <2>1. \A c \in User : deck'[c] \subseteq deck[c]
    BY <1>1 DEF SwipeLeft, TypeOK
  <2>2. QED BY <1>1, <2>1 DEF SwipeLeft, OnceInv, OwnWrite
<1>2. ASSUME NEW a \in User, NEW b \in User, SwipeRight(a, b) PROVE OnceInv'
  <2>1. /\ \A c \in User : deck'[c] \subseteq deck[c] /\ (c # a => reads'[c] = reads[c])
        /\ b \in deck[a] /\ b \notin deck'[a]
        /\ \A q \in reads'[a] : q \in reads[a]
             \/ q = [to |-> b, login |-> logouts[a], answer |-> "asked"]
        /\ matches' = matches /\ writes' = writes /\ logouts' = logouts
    BY <1>2 DEF SwipeRight, TypeOK
  <2> SUFFICES ASSUME NEW c \in User, logouts[c] = 0, NEW d \in User
               PROVE  /\ d \in deck'[c] =>
                           /\ matches[c][d] = "none"
                           /\ \A r \in reads'[c] : r.to # d
                           /\ \A i \in DOMAIN writes[c] : ~OwnWrite(c, d, i)
                      /\ \A r \in reads'[c] : r.to = d =>
                           /\ matches[c][d] = "none"
                           /\ \A q \in reads'[c] : q.to = d => q = r
                           /\ \A i \in DOMAIN writes[c] : ~OwnWrite(c, d, i)
                      /\ \A i \in DOMAIN writes[c] : OwnWrite(c, d, i) =>
                           /\ matches[c][d] = "none"
                           /\ \A j \in DOMAIN writes[c] : OwnWrite(c, d, j) => j = i
    BY <2>1 DEF OnceInv, OwnWrite
  <2>2. CASE c # a \/ d # b
    BY <2>1, <2>2 DEF OnceInv
  <2>3. CASE c = a /\ d = b
    BY <2>1, <2>3 DEF OnceInv
  <2>4. QED BY <2>2, <2>3
<1>3. ASSUME NEW a \in User, NEW r \in reads[a], Answer(a, r) PROVE OnceInv'
  <2>1. r \in Read
    BY DEF TypeOK
  <2> DEFINE s == [r EXCEPT !.answer = Found(a, r.to)]
  <2>2. /\ s.to = r.to
        /\ \A c \in User : c # a => reads'[c] = reads[c]
        /\ reads'[a] = (reads[a] \ {r}) \cup {s}
        /\ matches' = matches /\ writes' = writes /\ logouts' = logouts /\ deck' = deck
    BY <1>3, <2>1 DEF Answer, TypeOK, Read
  <2> HIDE DEF s
  <2> SUFFICES ASSUME NEW c \in User, logouts[c] = 0, NEW d \in User
               PROVE  /\ d \in deck[c] => \A q \in reads'[c] : q.to # d
                      /\ \A q \in reads'[c] : q.to = d =>
                           /\ matches[c][d] = "none"
                           /\ \A p \in reads'[c] : p.to = d => p = q
                           /\ \A i \in DOMAIN writes[c] : ~OwnWrite(c, d, i)
    BY <2>2 DEF OnceInv, OwnWrite
  <2>3. CASE c # a
    BY <2>2, <2>3 DEF OnceInv
  <2>4. CASE c = a
    BY <2>2, <2>4 DEF OnceInv
  <2>5. QED BY <2>3, <2>4
<1>4. ASSUME NEW a \in User, NEW r \in reads[a], Receive(a, r) PROVE OnceInv'
  <2>1. /\ \A c \in User : c # a => reads'[c] = reads[c] /\ writes'[c] = writes[c]
        /\ reads'[a] = reads[a] \ {r}
        /\ matches' = matches /\ logouts' = logouts /\ deck' = deck
    BY <1>4, Appended DEF Receive, TypeOK
  <2>2. r.to # a /\ r.to \in User
    BY DEF OthersInv, TypeOK, Read
  <2>3. PICK own \in DOMAIN writes'[a] :
          /\ OwnWrite(a, r.to, own)'
          /\ \A i \in DOMAIN writes'[a] :
               i = own \/ writes'[a][i].of # a
                 \/ (i \in DOMAIN writes[a] /\ writes'[a][i] = writes[a][i])
    <3>1. PICK own \in DOMAIN writes'[a] :
            /\ writes'[a][own] = Entry(a, r.to, IF r.answer = "exists" THEN "true" ELSE "false")
            /\ \A i \in DOMAIN writes'[a] :
                 \/ i \in DOMAIN writes[a]
                 \/ i = own
                 \/ r.answer = "exists" /\ writes'[a][i] = Entry(r.to, a, "true")
      BY <1>4, Appended
    <3>2. OwnWrite(a, r.to, own)'
      BY <3>1 DEF OwnWrite, Entry
    <3>3. ASSUME NEW i \in DOMAIN writes'[a], writes'[a][i] = Entry(r.to, a, "true")
          PROVE  writes'[a][i].of # a
      BY <2>2, <3>3 DEF Entry
    <3>4. \A i \in DOMAIN writes[a] : writes'[a][i] = writes[a][i]
      BY <1>4, Appended
    <3>5. QED BY <3>1, <3>2, <3>3, <3>4
  <2>4. ASSUME NEW d \in User, NEW i \in DOMAIN writes'[a], OwnWrite(a, d, i)'
        PROVE  (i = own /\ d = r.to) \/ (i \in DOMAIN writes[a] /\ OwnWrite(a, d, i))
    BY <2>3, <2>4 DEF OwnWrite
  <2> SUFFICES ASSUME NEW c \in User, logouts[c] = 0, NEW d \in User
               PROVE  /\ d \in deck[c] => \A i \in DOMAIN writes'[c] : ~OwnWrite(c, d, i)'
                      /\ \A q \in reads'[c] : q.to = d =>
                           \A i \in DOMAIN writes'[c] : ~OwnWrite(c, d, i)'
                      /\ \A i \in DOMAIN writes'[c] : OwnWrite(c, d, i)' =>
                           /\ matches[c][d] = "none"
                           /\ \A j \in DOMAIN writes'[c] : OwnWrite(c, d, j)' => j = i
    BY <2>1 DEF OnceInv
  <2>5. CASE c # a
    BY <2>1, <2>5 DEF OnceInv, OwnWrite
  <2>6. CASE c = a /\ d = r.to
    <3>1. /\ matches[a][d] = "none" /\ d \notin deck[a]
          /\ \A q \in reads'[a] : q.to # d
          /\ \A i \in DOMAIN writes[a] : ~OwnWrite(a, d, i)
      BY <2>1, <2>6 DEF OnceInv
    <3>2. \A i \in DOMAIN writes'[a] : OwnWrite(a, d, i)' => i = own
      BY <2>4, <3>1
    <3>3. QED BY <2>6, <3>1, <3>2
  <2>7. CASE c = a /\ d # r.to
    <3>1. \A i \in DOMAIN writes'[a] :
            OwnWrite(a, d, i)' => i \in DOMAIN writes[a] /\ OwnWrite(a, d, i)
      BY <2>4, <2>7
    <3>2. QED BY <2>1, <2>7, <3>1 DEF OnceInv
  <2>8. QED BY <2>5, <2>6, <2>7
<1>5. ASSUME NEW a \in User, Apply(a) PROVE OnceInv'
  <2>1. /\ reads' = reads /\ logouts' = logouts /\ deck' = deck
        /\ \A c \in User : c # a => writes'[c] = writes[c]
    BY <1>5, Applied DEF Apply
  <2>2. /\ 1 \in DOMAIN writes[a]
        /\ \A i \in DOMAIN writes'[a] :
             i + 1 \in DOMAIN writes[a] /\ i + 1 # 1 /\ writes'[a][i] = writes[a][i + 1]
        /\ \A i, j \in DOMAIN writes'[a] : i + 1 = j + 1 => i = j
        /\ \A c, d \in User :
             IF writes[a][1].of = c /\ writes[a][1].to = d
               THEN matches'[c][d] = writes[a][1].value
               ELSE matches'[c][d] = matches[c][d]
    BY <1>5, Applied
  <2>3. \A c \in User : writes[a][1].of = c /\ c # a =>
          matches[c][a] # "none" /\ writes[a][1].to = a
    BY <2>2 DEF OthersInv
  <2> SUFFICES ASSUME NEW c \in User, logouts[c] = 0, NEW d \in User
               PROVE  /\ d \in deck[c] =>
                           /\ matches'[c][d] = "none"
                           /\ \A r \in reads[c] : r.to # d
                           /\ \A i \in DOMAIN writes'[c] : ~OwnWrite(c, d, i)'
                      /\ \A r \in reads[c] : r.to = d =>
                           /\ matches'[c][d] = "none"
                           /\ \A q \in reads[c] : q.to = d => q = r
                           /\ \A i \in DOMAIN writes'[c] : ~OwnWrite(c, d, i)'
                      /\ \A i \in DOMAIN writes'[c] : OwnWrite(c, d, i)' =>
                           /\ matches'[c][d] = "none"
                           /\ \A j \in DOMAIN writes'[c] : OwnWrite(c, d, j)' => j = i
    BY <2>1 DEF OnceInv
  <2>4. \A i \in DOMAIN writes'[a] : OwnWrite(a, d, i)' => OwnWrite(a, d, i + 1)
    BY <2>2 DEF OwnWrite
  <2>5. CASE c = a /\ OwnWrite(a, d, 1)
    <3>1. /\ d \notin deck[a] /\ \A r \in reads[a] : r.to # d
          /\ \A j \in DOMAIN writes[a] : OwnWrite(a, d, j) => j = 1
      BY <2>2, <2>5 DEF OnceInv
    <3>2. \A i \in DOMAIN writes'[a] : ~OwnWrite(a, d, i)'
      BY <2>2, <2>4, <3>1
    <3>3. QED BY <2>5, <3>1, <3>2
  <2>6. CASE c = a /\ ~OwnWrite(a, d, 1)
    <3>1. matches'[a][d] = matches[a][d]
      BY <2>2, <2>6 DEF OwnWrite
    <3>2. ASSUME NEW i \in DOMAIN writes'[a], OwnWrite(a, d, i)'
          PROVE  /\ i + 1 \in DOMAIN writes[a] /\ OwnWrite(a, d, i + 1)
                 /\ \A j \in DOMAIN writes'[a] : OwnWrite(a, d, j)' => j = i
      <4>1. i + 1 \in DOMAIN writes[a] /\ OwnWrite(a, d, i + 1)
        BY <2>2, <2>4, <3>2
      <4>2. ASSUME NEW j \in DOMAIN writes'[a], OwnWrite(a, d, j)' PROVE j + 1 = i + 1
        <5>1. j + 1 \in DOMAIN writes[a] /\ OwnWrite(a, d, j + 1)
          BY <2>2, <2>4, <4>2
        <5>2. QED BY <2>6, <4>1, <5>1 DEF OnceInv
      <4>3. QED BY <2>2, <4>1, <4>2
    <3>3. QED BY <2>6, <3>1, <3>2 DEF OnceInv
  <2>7. CASE c # a
    <3>1. \A i \in DOMAIN writes'[c] : OwnWrite(c, d, i)' <=> OwnWrite(c, d, i)
      BY <2>1, <2>7 DEF OwnWrite
    <3>2. matches[c][d] = "none" => matches'[c][d] = "none"
      BY <2>2, <2>3, <2>7
    <3>3. QED BY <2>1, <2>7, <3>1, <3>2 DEF OnceInv
  <2>8. QED BY <2>5, <2>6, <2>7
<1>6. ASSUME NEW a \in User, Kill(a) PROVE OnceInv'
  <2>1. /\ \A c \in User : c # a =>
             reads'[c] = reads[c] /\ writes'[c] = writes[c] /\ deck'[c] = deck[c]
        /\ reads'[a] = {} /\ writes'[a] = <<>>
        /\ \A b \in deck'[a] : matches[a][b] = "none"
        /\ matches' = matches /\ logouts' = logouts
    BY <1>6 DEF Kill, TypeOK, Cards
  <2>2. QED BY <2>1 DEF OnceInv, OwnWrite
<1>7. ASSUME NEW a \in User, Relogin(a) PROVE OnceInv'
  <2>1. /\ \A c \in User : c # a => deck'[c] = deck[c] /\ logouts'[c] = logouts[c]
        /\ logouts'[a] # 0
        /\ matches' = matches /\ reads' = reads /\ writes' = writes
    BY <1>7 DEF Relogin, TypeOK
  <2>2. QED BY <2>1 DEF OnceInv, OwnWrite
<1>8. QED BY <1>1, <1>2, <1>3, <1>4, <1>5, <1>6, <1>7 DEF Next, Swipe, Network

\* An answer that says "exists" puts both halves of a match on their way.
LEMMA ReceiveMatched ==
  ASSUME TypeOK, NEW a \in User, NEW r \in reads[a], Receive(a, r)
  PROVE  /\ \A c, d \in User : Matched(c, d) => Matched(c, d)'
         /\ \A c, d \in User : Matched(c, d)' /\ ~Matched(c, d) =>
              /\ Matched(a, r.to)' /\ Matched(r.to, a)'
              /\ (c = a /\ d = r.to) \/ (c = r.to /\ d = a)
<1>1. PICK own \in DOMAIN writes'[a] :
        /\ writes'[a][own] = Entry(a, r.to, IF r.answer = "exists" THEN "true" ELSE "false")
        /\ r.answer = "exists" =>
             \E other \in DOMAIN writes'[a] : writes'[a][other] = Entry(r.to, a, "true")
        /\ \A i \in DOMAIN writes'[a] :
             \/ i \in DOMAIN writes[a]
             \/ i = own
             \/ r.answer = "exists" /\ writes'[a][i] = Entry(r.to, a, "true")
  BY Appended
<1>2. /\ \A c \in User : c # a => writes'[c] = writes[c]
      /\ \A i \in DOMAIN writes[a] : i \in DOMAIN writes'[a] /\ writes'[a][i] = writes[a][i]
      /\ matches' = matches
  BY Appended DEF Receive
<1>3. \A c, d \in User : Matched(c, d) => Matched(c, d)'
  BY <1>2 DEF Matched, Entry
<1>4. ASSUME NEW c \in User, NEW d \in User, Matched(c, d)', ~Matched(c, d)
      PROVE  /\ Matched(a, r.to)' /\ Matched(r.to, a)'
             /\ (c = a /\ d = r.to) \/ (c = r.to /\ d = a)
  <2>1. PICK e \in User : \E i \in DOMAIN writes'[e] : writes'[e][i] = Entry(c, d, "true")
    BY <1>2, <1>4 DEF Matched, Entry
  <2>0. PICK i \in DOMAIN writes'[e] : writes'[e][i] = Entry(c, d, "true")
    BY <2>1
  <2>2. e = a /\ i \notin DOMAIN writes[a]
    BY <1>2, <1>4, <2>0 DEF Matched
  <2>3. \/ i = own
        \/ r.answer = "exists" /\ writes'[a][i] = Entry(r.to, a, "true")
    BY <1>1, <2>0, <2>2
  <2>4. r.answer = "exists"
    BY <1>1, <2>0, <2>2, <2>3 DEF Entry
  <2>5. Matched(a, r.to)' /\ Matched(r.to, a)'
    BY <1>1, <2>4 DEF Matched, Entry
  <2>6. (c = a /\ d = r.to) \/ (c = r.to /\ d = a)
    BY <1>1, <2>0, <2>2, <2>3 DEF Entry
  <2>7. QED BY <2>5, <2>6
<1>5. QED BY <1>3, <1>4

\* A write that reaches the database neither makes a match nor takes one back, for
\* a user who has not logged out.
LEMMA ApplyMatched ==
  ASSUME TypeOK, OthersInv, OnceInv, NEW a \in User, Apply(a),
         NEW c \in User, NEW d \in User, logouts[c] = 0
  PROVE  /\ Matched(c, d)' <=> Matched(c, d)
         /\ matches[c][d] = "true" => matches'[c][d] = "true"
<1>1. /\ \A e \in User : e # a => writes'[e] = writes[e]
      /\ 1 \in DOMAIN writes[a] /\ writes[a][1] \in Write
      /\ \A i \in DOMAIN writes'[a] :
           i + 1 \in DOMAIN writes[a] /\ i + 1 # 1 /\ writes'[a][i] = writes[a][i + 1]
      /\ \A i \in DOMAIN writes[a] : i = 1 \/
           \E j \in DOMAIN writes'[a] : writes'[a][j] = writes[a][i]
      /\ IF writes[a][1].of = c /\ writes[a][1].to = d
           THEN matches'[c][d] = writes[a][1].value
           ELSE matches'[c][d] = matches[c][d]
  BY Applied
<1>2. matches[c][d] = "true" => matches'[c][d] = "true"
  <2>1. CASE writes[a][1].of = c /\ writes[a][1].to = d /\ c = a
    <3>1. OwnWrite(a, d, 1)
      BY <2>1 DEF OwnWrite
    <3>2. matches[c][d] = "none"
      BY <1>1, <2>1, <3>1 DEF OnceInv
    <3>3. QED BY <3>2
  <2>2. CASE writes[a][1].of = c /\ writes[a][1].to = d /\ c # a
    BY <1>1, <2>2 DEF OthersInv
  <2>3. QED BY <1>1, <2>1, <2>2
<1>3. ASSUME Matched(c, d) PROVE Matched(c, d)'
  <2>1. CASE matches[c][d] = "true"
    BY <1>2, <2>1 DEF Matched
  <2>2. ASSUME NEW e \in User, NEW i \in DOMAIN writes[e], writes[e][i] = Entry(c, d, "true")
        PROVE  Matched(c, d)'
    <3>1. CASE e # a
      BY <1>1, <2>2, <3>1 DEF Matched, Entry
    <3>2. CASE e = a /\ i # 1
      BY <1>1, <2>2, <3>2 DEF Matched, Entry
    <3>3. CASE e = a /\ i = 1
      <4>1. writes[a][1].of = c /\ writes[a][1].to = d /\ writes[a][1].value = "true"
        BY <2>2, <3>3 DEF Entry
      <4>2. QED BY <1>1, <4>1 DEF Matched
    <3>4. QED BY <3>1, <3>2, <3>3
  <2>3. QED BY <1>3, <2>1, <2>2 DEF Matched
<1>4. ASSUME Matched(c, d)' PROVE Matched(c, d)
  <2>1. CASE matches'[c][d] = "true"
    <3>1. CASE matches'[c][d] = matches[c][d]
      BY <2>1, <3>1 DEF Matched
    <3>2. CASE writes[a][1].of = c /\ writes[a][1].to = d
      <4>1. writes[a][1] = Entry(c, d, "true")
        BY <1>1, <2>1, <3>2 DEF Entry, Write
      <4>2. QED BY <1>1, <4>1 DEF Matched
    <3>3. QED BY <1>1, <3>1, <3>2
  <2>2. ASSUME NEW e \in User, NEW i \in DOMAIN writes'[e], writes'[e][i] = Entry(c, d, "true")
        PROVE  Matched(c, d)
    <3>1. CASE e # a
      BY <1>1, <2>2, <3>1 DEF Matched
    <3>2. CASE e = a
      BY <1>1, <2>2, <3>2 DEF Matched
    <3>3. QED BY <3>1, <3>2
  <2>3. QED BY <1>4, <2>1, <2>2 DEF Matched, Entry
<1>5. QED BY <1>2, <1>3, <1>4

\* Without kills and logouts no like is lost on its way, and no half of a match.
LEMMA AgreeStep ==
  ASSUME TypeOK, OthersInv, OnceInv, AgreeInv, Next
  PROVE  AgreeInv'
<1>1. ASSUME NEW a \in User, NEW b \in User, SwipeLeft(a, b) PROVE AgreeInv'
  BY <1>1 DEF SwipeLeft, AgreeInv, Matched, OwnWrite, Entry
<1>2. ASSUME NEW a \in User, NEW b \in User, SwipeRight(a, b) PROVE AgreeInv'
  <2>1. /\ \A c \in User : \A r \in reads[c] : r \in reads'[c]
        /\ \E r \in reads'[a] : r.to = b
        /\ liked' = liked \cup {<<a, b>>}
        /\ matches' = matches /\ writes' = writes /\ logouts' = logouts /\ kills' = kills
    <3> DEFINE r == [to |-> b, login |-> logouts[a], answer |-> "asked"]
    <3>1. r.to = b /\ r \in reads'[a] /\ \A c \in User : \A q \in reads[c] : q \in reads'[c]
      BY <1>2 DEF SwipeRight, TypeOK
    <3>2. \E q \in reads'[a] : q.to = b
      BY <3>1
    <3>3. QED BY <1>2, <3>1, <3>2 DEF SwipeRight
  <2>2. \A c, d \in User : Matched(c, d)' <=> Matched(c, d)
    BY <2>1 DEF Matched, Entry
  <2>3. \A c, d \in User : <<c, d>> \in liked' => <<c, d>> \in liked \/ (c = a /\ d = b)
    BY <2>1
  <2>4. QED BY <2>1, <2>2, <2>3 DEF AgreeInv, OwnWrite
<1>3. ASSUME NEW a \in User, NEW r \in reads[a], Answer(a, r) PROVE AgreeInv'
  <2>1. r \in Read
    BY DEF TypeOK
  <2>2. /\ \A c \in User : \A q \in reads[c] : \E p \in reads'[c] : p.to = q.to
        /\ matches' = matches /\ writes' = writes /\ logouts' = logouts /\ kills' = kills
        /\ liked' = liked
    <3> DEFINE s == [r EXCEPT !.answer = Found(a, r.to)]
    <3>1. s.to = r.to
      BY <2>1 DEF Read
    <3>2. /\ s \in reads'[a]
          /\ \A c \in User : \A q \in reads[c] : q \in reads'[c] \/ (c = a /\ q = r)
      BY <1>3 DEF Answer, TypeOK
    <3> HIDE DEF s
    <3>3. QED BY <1>3, <3>1, <3>2 DEF Answer
  <2>3. \A c, d \in User : Matched(c, d)' <=> Matched(c, d)
    BY <2>2 DEF Matched, Entry
  <2>4. QED BY <2>2, <2>3 DEF AgreeInv, OwnWrite
<1>4. ASSUME NEW a \in User, NEW r \in reads[a], Receive(a, r) PROVE AgreeInv'
  <2>1. /\ \A c \in User : \A q \in reads[c] : q \in reads'[c] \/ (c = a /\ q = r)
        /\ matches' = matches /\ logouts' = logouts /\ kills' = kills /\ liked' = liked
    BY <1>4 DEF Receive, TypeOK
  <2>2. \A c \in User : \A i \in DOMAIN writes[c] :
          i \in DOMAIN writes'[c] /\ writes'[c][i] = writes[c][i]
    BY <1>4, Appended
  <2>3. \E i \in DOMAIN writes'[a] : OwnWrite(a, r.to, i)'
    <3>1. PICK i \in DOMAIN writes'[a] : writes'[a][i] =
            Entry(a, r.to, IF r.answer = "exists" THEN "true" ELSE "false")
      BY <1>4, Appended
    <3>2. OwnWrite(a, r.to, i)'
      BY <3>1 DEF OwnWrite, Entry
    <3>3. QED BY <3>2
  <2>4. /\ \A c, d \in User : Matched(c, d) => Matched(c, d)'
        /\ \A c, d \in User : Matched(c, d)' /\ ~Matched(c, d) =>
             /\ Matched(a, r.to)' /\ Matched(r.to, a)'
             /\ (c = a /\ d = r.to) \/ (c = r.to /\ d = a)
    BY <1>4, ReceiveMatched
  <2> SUFFICES ASSUME NEW c \in User, NEW d \in User,
                      kills = 0, logouts[c] = 0, logouts[d] = 0
               PROVE  /\ <<c, d>> \in liked =>
                           \/ matches[c][d] # "none"
                           \/ \E q \in reads'[c] : q.to = d
                           \/ \E i \in DOMAIN writes'[c] : OwnWrite(c, d, i)'
                      /\ Matched(c, d)' => Matched(d, c)'
    BY <2>1 DEF AgreeInv
  <2>5. <<c, d>> \in liked =>
           \/ matches[c][d] # "none"
           \/ \E q \in reads'[c] : q.to = d
           \/ \E i \in DOMAIN writes'[c] : OwnWrite(c, d, i)'
    <3>1. \A i \in DOMAIN writes[c] : OwnWrite(c, d, i) =>
            i \in DOMAIN writes'[c] /\ OwnWrite(c, d, i)'
      BY <2>2 DEF OwnWrite
    <3>2. QED BY <2>1, <2>3, <3>1 DEF AgreeInv
  <2>6. Matched(c, d)' => Matched(d, c)'
    BY <2>4 DEF AgreeInv
  <2>7. QED BY <2>5, <2>6
<1>5. ASSUME NEW a \in User, Apply(a) PROVE AgreeInv'
  <2>1. reads' = reads /\ logouts' = logouts /\ kills' = kills /\ liked' = liked
    BY <1>5 DEF Apply
  <2>2. \A c, d \in User : logouts[c] = 0 => (Matched(c, d)' <=> Matched(c, d))
    BY <1>5, ApplyMatched
  <2>3. /\ \A c \in User : c # a => writes'[c] = writes[c]
        /\ writes[a][1].value # "none"
        /\ \A i \in DOMAIN writes[a] : i = 1 \/
             \E j \in DOMAIN writes'[a] : writes'[a][j] = writes[a][i]
        /\ \A c, d \in User :
             IF writes[a][1].of = c /\ writes[a][1].to = d
               THEN matches'[c][d] = writes[a][1].value
               ELSE matches'[c][d] = matches[c][d]
    BY <1>5, Applied DEF Write
  <2>4. \A c, d \in User : matches[c][d] # "none" => matches'[c][d] # "none"
    BY <2>3
  <2>5. ASSUME NEW c \in User, NEW d \in User, NEW i \in DOMAIN writes[c], OwnWrite(c, d, i)
        PROVE  matches'[c][d] # "none" \/ \E j \in DOMAIN writes'[c] : OwnWrite(c, d, j)'
    <3>1. CASE c = a /\ i = 1
      BY <2>3, <2>5, <3>1 DEF OwnWrite
    <3>2. CASE c # a \/ i # 1
      BY <2>3, <2>5, <3>2 DEF OwnWrite
    <3>3. QED BY <3>1, <3>2
  <2>6. QED BY <2>1, <2>2, <2>4, <2>5 DEF AgreeInv
<1>6. ASSUME NEW a \in User, Kill(a) PROVE AgreeInv'
  BY <1>6 DEF Kill, AgreeInv, TypeOK
<1>7. ASSUME NEW a \in User, Relogin(a) PROVE AgreeInv'
  <2>1. /\ \A c \in User : c # a => logouts'[c] = logouts[c]
        /\ logouts'[a] # 0
        /\ matches' = matches /\ reads' = reads /\ writes' = writes
        /\ liked' = liked /\ kills' = kills
    BY <1>7 DEF Relogin, TypeOK
  <2>2. \A c, d \in User : Matched(c, d)' <=> Matched(c, d)
    BY <2>1 DEF Matched, Entry
  <2>3. QED BY <2>1, <2>2 DEF AgreeInv, OwnWrite
<1>8. QED BY <1>1, <1>2, <1>3, <1>4, <1>5, <1>6, <1>7 DEF Next, Swipe, Network

\* The invariant holds in every state, for any number of users, kills
\* and logouts.
THEOREM Invariance == Spec => []IInv
<1>1. IInv /\ [Next]_vars => IInv'
  <2> SUFFICES ASSUME IInv, [Next]_vars PROVE IInv'
    OBVIOUS
  <2>1. CASE UNCHANGED vars
    <3>1. LikesInv' /\ OthersInv'
      BY <2>1 DEF vars, IInv, LikesInv, TypeOK, Backed, OthersInv
    <3>2. OnceInv'
      BY <2>1 DEF vars, IInv, OnceInv, OwnWrite
    <3>3. AgreeInv'
      BY <2>1 DEF vars, IInv, AgreeInv, Matched, OwnWrite, Entry
    <3>4. QED BY <3>1, <3>2, <3>3 DEF IInv
  <2>2. LikesInv /\ TypeOK /\ OthersInv /\ OnceInv /\ AgreeInv
    BY DEF IInv, LikesInv
  <2>3. CASE Next
    <3>1. LikesInv'
      BY <2>2, <2>3, SwipeLeftLikes, SwipeRightLikes, AnswerLikes, ReceiveLikes, ApplyLikes,
         KillLikes, ReloginLikes DEF Next, Swipe, Network
    <3>2. QED BY <2>2, <2>3, <3>1, OthersStep, OnceStep, AgreeStep DEF IInv
  <2>4. QED BY <2>1, <2>3
<1>2. Init => IInv
  BY InitLikes, InitOthers DEF IInv
<1>3. QED BY <1>1, <1>2, PTL DEF Spec

\* Every variable keeps its type.
THEOREM TypeCorrect == Spec => []TypeOK
<1>1. IInv => TypeOK
  BY DEF IInv, LikesInv
<1>2. QED BY Invariance, <1>1, PTL

\* updateUserLike never matches somebody who has not liked, or is not liked back.
THEOREM MatchesAreMutual == Spec => []MatchIsMutual
<1>1. IInv => MatchIsMutual
  BY DEF IInv, LikesInv, Backed, MatchIsMutual
<1>2. QED BY Invariance, <1>1, PTL

\* A late answer never takes a match back, unless the user logged out while it
\* was on its way.
THEOREM MatchesStay == Spec => MatchStays
<1>1. IInv /\ [Next]_vars =>
        [\A a, b \in User :
           matches[a][b] = "true" => matches'[a][b] = "true" \/ logouts[a] > 0]_vars
  <2> SUFFICES ASSUME IInv, Next, NEW c \in User, NEW d \in User,
                      matches[c][d] = "true", logouts[c] = 0
               PROVE  matches'[c][d] = "true"
    BY DEF IInv, LikesInv, TypeOK
  <2>1. ASSUME NEW a \in User, Apply(a) PROVE matches'[c][d] = "true"
    BY <2>1, ApplyMatched DEF IInv, LikesInv
  <2>2. CASE matches' = matches
    BY <2>2
  <2>3. QED BY <2>1, <2>2 DEF Next, Swipe, Network, SwipeLeft, SwipeRight, Answer, Receive,
       Kill, Relogin
<1>2. QED BY Invariance, <1>1, PTL DEF Spec, MatchStays

\* Both sides agree once the answers are in and the writes are done, if no app
\* was killed and nobody logged out.
THEOREM SidesAgree == Spec => []BothOrNeither
<1>1. IInv => BothOrNeither
  <2> SUFFICES ASSUME IInv, NEW a \in User, NEW b \in User,
                      Undisturbed(a), Settled(a), Undisturbed(b), Settled(b),
                      <<a, b>> \in liked, <<b, a>> \in liked
               PROVE  matches[a][b] = matches[b][a] /\ matches[a][b] # "none"
    BY DEF BothOrNeither
  <2>1. kills = 0 /\ logouts[a] = 0 /\ logouts[b] = 0
    BY DEF Undisturbed
  <2>2. reads[a] = {} /\ writes[a] = <<>> /\ reads[b] = {} /\ writes[b] = <<>>
    BY DEF Settled
  <2>3. matches[a][b] # "none" /\ matches[b][a] # "none"
    BY <2>1, <2>2 DEF IInv, AgreeInv
  <2>4. ASSUME NEW c \in User, NEW d \in User, {c, d} = {a, b}, Matched(c, d)
        PROVE  matches[c][d] = "true"
    <3>1. ASSUME NEW e \in User, NEW i \in DOMAIN writes[e],
                 writes[e][i] = Entry(c, d, "true")
          PROVE  e \in {a, b}
      <4>1. writes[e][i].of = c /\ writes[e][i].to = d
        BY <3>1 DEF Entry
      <4>2. e = c \/ e = d
        BY <4>1 DEF IInv, OthersInv
      <4>3. QED BY <2>4, <4>2
    <3>2. QED BY <2>2, <2>4, <3>1 DEF Matched
  <2>5. matches[a][b] = "true" <=> matches[b][a] = "true"
    <3>1. Matched(a, b) <=> Matched(b, a)
      BY <2>1 DEF IInv, AgreeInv
    <3>2. QED BY <2>4, <3>1 DEF Matched
  <2>6. matches[a][b] \in {"none", "false", "true"} /\ matches[b][a] \in {"none", "false", "true"}
    BY DEF IInv, LikesInv, TypeOK
  <2>7. QED BY <2>3, <2>5, <2>6
<1>2. QED BY Invariance, <1>1, PTL

=============================================================================

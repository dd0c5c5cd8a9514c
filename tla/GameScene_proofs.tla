-------------------------- MODULE GameScene_proofs --------------------------
(***************************************************************************)
(* The duel for all values of the constants: any number of lives, any      *)
(* timing and any number of bombs.  The inductive invariant IInv carries   *)
(* the type invariant and every safety invariant of GameScene; the verdict *)
(* rule and the refinement of Duel follow from it.                         *)
(***************************************************************************)
EXTENDS GameScene, SequenceTheorems, TLAPS

-----------------------------------------------------------------------------
(* The fighters: every operation on one keeps CharacterInv.                *)

\* A sequence without its i-th element: what is left was there before.
LEMMA WithoutFacts ==
  ASSUME NEW S, NEW s \in Seq(S), NEW i \in 1..Len(s)
  PROVE  /\ Without(s, i) \in Seq(S)
         /\ \A j \in DOMAIN Without(s, i) :
              \E k \in DOMAIN s : Without(s, i)[j] = s[k]
<1> DEFINE n == Len(s)
           t == Without(s, i)
           l == SubSeq(s, 1, i - 1)
           r == SubSeq(s, i + 1, n)
<1>1. DOMAIN s = 1..n /\ n \in Nat
  BY LenProperties
<1>2. \A j \in 1..n : s[j] \in S
  BY ElementOfSeq
<1>3. i \in Nat /\ 1 <= i /\ i <= n
  BY <1>1
<1>4. t = l \o r
  BY DEF Without
<1> HIDE DEF n, l, r, t
<1>5. /\ l \in Seq(S)
      /\ Len(l) = i - 1
      /\ \A j \in 1..(i - 1) : l[j] = s[j]
  <2>1. \A j \in 1..(i - 1) : s[j] \in S
    BY <1>2, <1>3, <1>1
  <2>2. /\ l \in Seq(S)
        /\ Len(l) = IF 1 <= i - 1 THEN (i - 1) - 1 + 1 ELSE 0
        /\ \A j \in 1..((i - 1) - 1 + 1) : l[j] = s[1 + j - 1]
    <3>1. 1 \in Int /\ i - 1 \in Int  BY <1>3
    <3>2. QED BY <2>1, <3>1, SubSeqProperties DEF l
  <2>3. (i - 1) - 1 + 1 = i - 1  BY <1>3
  <2>4. Len(l) = i - 1  BY <2>2, <1>3
  <2>5. ASSUME NEW j \in 1..(i - 1) PROVE l[j] = s[j]
    <3>1. 1 + j - 1 = j  OBVIOUS
    <3>2. l[j] = s[1 + j - 1]  BY <2>2, <2>3
    <3>3. QED BY <3>1, <3>2
  <2>6. QED BY <2>2, <2>4, <2>5
<1>6. /\ r \in Seq(S)
      /\ Len(r) = n - i
      /\ \A j \in 1..(n - i) : r[j] = s[i + j]
  <2>1. \A j \in (i + 1)..n : s[j] \in S
    BY <1>2, <1>3, <1>1
  <2>2. /\ r \in Seq(S)
        /\ Len(r) = IF i + 1 <= n THEN n - (i + 1) + 1 ELSE 0
        /\ \A j \in 1..(n - (i + 1) + 1) : r[j] = s[(i + 1) + j - 1]
    <3>1. i + 1 \in Int /\ n \in Int  BY <1>1, <1>3
    <3>2. QED BY <2>1, <3>1, SubSeqProperties DEF r
  <2>3. n - (i + 1) + 1 = n - i  BY <1>1, <1>3
  <2>4. Len(r) = n - i  BY <2>2, <1>1, <1>3
  <2>5. ASSUME NEW j \in 1..(n - i) PROVE r[j] = s[i + j]
    <3>1. (i + 1) + j - 1 = i + j  BY <1>3
    <3>2. r[j] = s[(i + 1) + j - 1]  BY <2>2, <2>3
    <3>3. QED BY <3>1, <3>2
  <2>6. QED BY <2>2, <2>4, <2>5
<1>7. /\ t \in Seq(S)
      /\ Len(t) = Len(l) + Len(r)
      /\ \A j \in 1..(Len(l) + Len(r)) :
           t[j] = IF j <= Len(l) THEN l[j] ELSE r[j - Len(l)]
  <2>1. l \in Seq(S) /\ r \in Seq(S)  BY <1>5, <1>6
  <2>2. QED BY <2>1, <1>4, ConcatProperties
<1>8. Len(l) + Len(r) = n - 1
  BY <1>1, <1>3, <1>5, <1>6
<1>9. DOMAIN t = 1..(n - 1)
  <2>1. DOMAIN t = 1..Len(t)  BY <1>7, LenProperties
  <2>2. QED BY <2>1, <1>7, <1>8
<1>10. ASSUME NEW j \in 1..(n - 1)
       PROVE  \E k \in 1..n : t[j] = s[k]
  <2>1. t[j] = IF j <= i - 1 THEN l[j] ELSE r[j - (i - 1)]
    BY <1>5, <1>7, <1>8
  <2>2. CASE j <= i - 1
    <3>1. j \in 1..(i - 1) /\ j \in 1..n  BY <2>2, <1>1, <1>3
    <3>2. t[j] = s[j]  BY <2>1, <2>2, <3>1, <1>5
    <3>3. QED BY <3>1, <3>2
  <2>3. CASE ~(j <= i - 1)
    <3> DEFINE k == j - (i - 1)
    <3>1. k \in 1..(n - i) /\ i + k \in 1..n  BY <2>3, <1>1, <1>3
    <3> HIDE DEF k
    <3>2. t[j] = r[k]  BY <2>1, <2>3 DEF k
    <3>3. r[k] = s[i + k]  BY <3>1, <1>6
    <3>4. QED BY <3>1, <3>2, <3>3
  <2>4. QED BY <2>2, <2>3
<1>11. QED BY <1>1, <1>7, <1>9, <1>10 DEF t

\* Removing the i-th bomb changes the bombs only, and invents none.
LEMMA RemoveBombFacts ==
  ASSUME NEW c \in CharacterNode, NEW i \in DOMAIN c.bombs
  PROVE  /\ RemoveBomb(c, i) \in CharacterNode
         /\ RemoveBomb(c, i) = [c EXCEPT !.bombs = RemoveBomb(c, i).bombs]
         /\ \A j \in DOMAIN RemoveBomb(c, i).bombs :
              \E k \in DOMAIN c.bombs : RemoveBomb(c, i).bombs[j] = c.bombs[k]
<1> DEFINE s == c.bombs
           t == Without(s, i)
<1>1. s \in Seq(Bomb)  BY DEF CharacterNode
<1>2. i \in 1..Len(s)  BY <1>1, LenProperties
<1>3. RemoveBomb(c, i) = [c EXCEPT !.bombs = t]  BY DEF RemoveBomb
<1>4. t \in Seq(Bomb) /\ \A j \in DOMAIN t : \E k \in DOMAIN s : t[j] = s[k]
  BY <1>1, <1>2, WithoutFacts
<1> HIDE DEF t
<1>5. RemoveBomb(c, i).bombs = t
  BY <1>3 DEF CharacterNode
<1>6. RemoveBomb(c, i) \in CharacterNode
  BY <1>3, <1>4 DEF CharacterNode
<1>7. QED BY <1>3, <1>4, <1>5, <1>6

\* A bomb that leaves the scene leaves its owner sound: no life is lost by it.
LEMMA RemoveBombInv ==
  ASSUME NEW c, CharacterInv(c), NEW i \in DOMAIN c.bombs
  PROVE  /\ CharacterInv(RemoveBomb(c, i))
         /\ RemoveBomb(c, i).life = c.life
         /\ RemoveBomb(c, i).takeDamage = c.takeDamage
<1>1. c \in CharacterNode  BY DEF CharacterInv
<1> DEFINE d == RemoveBomb(c, i)
<1>2. /\ d \in CharacterNode
      /\ d = [c EXCEPT !.bombs = d.bombs]
      /\ \A j \in DOMAIN d.bombs : \E k \in DOMAIN c.bombs : d.bombs[j] = c.bombs[k]
  BY <1>1, RemoveBombFacts
<1>3. c.bombs # <<>>  BY DEF CharacterInv
<1> HIDE DEF d
<1>4. /\ d.state = c.state /\ d.aim = c.aim /\ d.bombReady = c.bombReady
      /\ d.aimTime = c.aimTime /\ d.life = c.life /\ d.takeDamage = c.takeDamage
  BY <1>1, <1>2 DEF CharacterNode
<1>5. QED BY <1>1, <1>2, <1>3, <1>4 DEF CharacterInv, Aiming, BombKept, d

-----------------------------------------------------------------------------
(* Touches, throws and hits.                                               *)

\* A touch on "left", "right" or "X" (GamePad.follow) keeps the invariant.
LEMMA FollowMoveInv ==
  ASSUME NEW c, CharacterInv(c)
  PROVE  /\ CharacterInv(FollowMove(c))
         /\ FollowMove(c).life = c.life
         /\ FollowMove(c).takeDamage = c.takeDamage
BY DEF CharacterInv, Aiming, BombKept, CharacterNode, FollowMove, PlayerAction

\* A touch on "O" may raise aim, in any state, and keeps the invariant.
LEMMA FollowOInv ==
  ASSUME NEW c, CharacterInv(c)
  PROVE  /\ CharacterInv(FollowO(c))
         /\ FollowO(c).life = c.life
         /\ FollowO(c).takeDamage = c.takeDamage
BY DEF CharacterInv, Aiming, BombKept, CharacterNode, FollowO

\* A hit (didBegin) costs one life and raises takeDamage.
LEMMA TakeHitInv ==
  ASSUME NEW c, CharacterInv(c)
  PROVE  /\ CharacterInv(TakeHit(c))
         /\ TakeHit(c).life = c.life - 1
         /\ TakeHit(c).takeDamage = TRUE
<1>1. c \in CharacterNode  BY DEF CharacterInv
<1>2. TakeHit(c) \in CharacterNode
  <2>1. c.life - 1 \in Int  BY <1>1 DEF CharacterNode
  <2> DEFINE l == c.life - 1
  <2>2. TakeHit(c) = [c EXCEPT !.life = l, !.takeDamage = TRUE]  BY DEF TakeHit
  <2> HIDE DEF l
  <2>3. l \in Int  BY <2>1 DEF l
  <2>4. QED BY <1>1, <2>2, <2>3 DEF CharacterNode
<1>3. /\ TakeHit(c).life = c.life - 1 /\ TakeHit(c).takeDamage = TRUE
      /\ TakeHit(c).bombs = c.bombs /\ TakeHit(c).state = c.state
      /\ TakeHit(c).aim = c.aim /\ TakeHit(c).aimTime = c.aimTime
      /\ TakeHit(c).bombReady = c.bombReady
  BY <1>1 DEF CharacterNode, TakeHit
<1>4. QED BY <1>2, <1>3 DEF CharacterInv, Aiming, BombKept

\* throwBomb() only queues the toss, and only of a ready bomb.
LEMMA ThrowBombInv ==
  ASSUME NEW c, CharacterInv(c)
  PROVE  /\ CharacterInv(ThrowBomb(c))
         /\ ThrowBomb(c).life = c.life
         /\ ThrowBomb(c).takeDamage = c.takeDamage
<1>1. CASE ~(c.bombReady /\ c.bombs # <<>>)
  BY <1>1 DEF ThrowBomb
<1>2. CASE c.bombReady /\ c.bombs # <<>>
  <2> DEFINE s == c.bombs
             b == [s[1] EXCEPT !.toss = TRUE]
             t == [s EXCEPT ![1] = b]
  <2>1. c \in CharacterNode /\ s \in Seq(Bomb)
    BY DEF CharacterInv, CharacterNode
  <2>2. 1 \in 1..Len(s)
    BY <1>2, <2>1, EmptySeq
  <2>3. b \in Bomb
    <3>1. s[1] \in Bomb  BY <2>1, <2>2, ElementOfSeq
    <3>2. QED BY <3>1 DEF Bomb
  <2>4. ThrowBomb(c) = [c EXCEPT !.bombs = t]
    BY <1>2, <2>1 DEF ThrowBomb, CharacterNode
  <2> HIDE DEF b
  <2>5. t \in Seq(Bomb)
    BY <2>1, <2>2, <2>3, ExceptSeq
  <2> HIDE DEF t
  <2>6. QED BY <1>2, <2>1, <2>4, <2>5 DEF CharacterInv, Aiming, BombKept, CharacterNode
<1>3. QED BY <1>1, <1>2

\* The queued toss lowers bombReady and aim together.
LEMMA RunTossInv ==
  ASSUME NEW c, CharacterInv(c)
  PROVE  /\ CharacterInv(RunToss(c))
         /\ RunToss(c).life = c.life
         /\ RunToss(c).takeDamage = c.takeDamage
<1>1. CASE ~ \E i \in DOMAIN c.bombs : c.bombs[i].toss
  BY <1>1 DEF RunToss
<1>2. CASE \E i \in DOMAIN c.bombs : c.bombs[i].toss
  <2> DEFINE s == c.bombs
             n == Len(s)
             t == [i \in DOMAIN s |-> [toss |-> FALSE]]
  <2>1. c \in CharacterNode /\ s \in Seq(Bomb)
    BY DEF CharacterInv, CharacterNode
  <2>2. DOMAIN s = 1..n /\ n \in Nat
    BY <2>1, LenProperties
  <2>3. \A i \in 1..n : s[i] \in Bomb
    BY <2>1, ElementOfSeq
  <2>4. t \in [1..n -> Bomb]
    BY <2>2, <2>3 DEF Bomb
  <2>5. t \in Seq(Bomb)
    BY <2>2, <2>4, SeqDef
  <2>6. \A i \in DOMAIN t : ~ t[i].toss
    BY <2>2, <2>3 DEF Bomb
  <2>7. RunToss(c) = [c EXCEPT !.bombs = t, !.bombReady = FALSE, !.aim = FALSE]
    BY <1>2 DEF RunToss
  <2>8. c.bombReady /\ c.state = "Aim" /\ c.aimTime = 0
    BY <1>2 DEF CharacterInv, Aiming
  <2> HIDE DEF t
  <2>9. QED
    BY <2>1, <2>5, <2>6, <2>7, <2>8 DEF CharacterInv, Aiming, BombKept, CharacterNode
<1>3. QED BY <1>1, <1>2

-----------------------------------------------------------------------------
(* The state machine.  An update neither takes a life nor lets a hit go     *)
(* unnoticed: takeDamage can only be cleared.                               *)

\* A clock stays between zero and its threshold.
LEMMA AdvanceType ==
  ASSUME NEW limit \in Nat, NEW time \in 0..limit, NEW dt \in Nat
  PROVE  Advance(time, dt, limit) \in 0..limit
BY DEF Advance

\* IdleState is left for AimState only without a bomb in the scene.
LEMMA IdleUpdateInv ==
  ASSUME NEW c, CharacterInv(c), c.state = "Idle"
  PROVE  CharacterInv(IdleUpdate(c)) /\ IdleUpdate(c).life = c.life
<1>1. c \in CharacterNode  BY DEF CharacterInv
<1>2. ~c.bombReady /\ c.bombs = <<>>
  BY DEF CharacterInv, Aiming, BombKept
<1>3. ~ \E i \in DOMAIN c.bombs : c.bombs[i].toss
  BY <1>2 DEF CharacterInv, Aiming
<1>4. CASE c.takeDamage
  BY <1>1, <1>2, <1>3, <1>4
     DEF IdleUpdate, CharacterInv, Aiming, BombKept, CharacterNode, State
<1>5. CASE ~c.takeDamage /\ c.action # "Move" /\ c.aim /\ c.bombs = <<>>
  BY <1>1, <1>2, <1>3, <1>5
     DEF IdleUpdate, CharacterInv, Aiming, BombKept, CharacterNode, State
<1>6. CASE ~c.takeDamage /\ ~(c.action # "Move" /\ c.aim /\ c.bombs = <<>>)
  BY <1>6 DEF IdleUpdate
<1>7. QED BY <1>4, <1>5, <1>6

\* setNewBomb() may only arm a player who aims and whose clock is back at zero.
LEMMA SetNewBombInv ==
  ASSUME NEW c, CharacterInv(c), c.state = "Aim", c.aim, ~c.bombReady, c.aimTime = 0
  PROVE  CharacterInv(SetNewBomb(c)) /\ SetNewBomb(c).life = c.life
<1> DEFINE b == [toss |-> FALSE]
           t == Append(c.bombs, b)
<1>1. c \in CharacterNode  BY DEF CharacterInv
<1>2. c.bombs \in Seq(Bomb) /\ b \in Bomb  BY <1>1 DEF CharacterNode, Bomb
<1>3. t \in Seq(Bomb)
  <2> HIDE DEF b
  <2>1. QED BY <1>2
<1>4. SetNewBomb(c) = [c EXCEPT !.bombs = t, !.bombReady = TRUE]
  BY DEF SetNewBomb
<1> HIDE DEF t
<1>5. SetNewBomb(c) \in CharacterNode
  BY <1>1, <1>3, <1>4 DEF CharacterNode
<1>6. /\ SetNewBomb(c).state = "Aim" /\ SetNewBomb(c).aim = TRUE
      /\ SetNewBomb(c).aimTime = 0 /\ SetNewBomb(c).bombReady = TRUE
      /\ SetNewBomb(c).life = c.life
  BY <1>1, <1>4 DEF CharacterNode
<1>7. QED BY <1>5, <1>6 DEF CharacterInv, Aiming, BombKept

\* AimState never arms a player who stopped aiming, and is left unarmed.
LEMMA AimUpdateInv ==
  ASSUME NEW c, CharacterInv(c), c.state = "Aim", NEW dt \in Nat
  PROVE  CharacterInv(AimUpdate(c, dt)) /\ AimUpdate(c, dt).life = c.life
<1>1. c \in CharacterNode  BY DEF CharacterInv
<1>2. CASE c.bombReady
  <2>1. ReadyBomb(c, dt) = c  BY <1>2 DEF ReadyBomb
  <2>2. AimUpdate(c, dt) = c  BY <1>2, <2>1 DEF AimUpdate
  <2>3. QED BY <2>2
<1>3. CASE ~c.bombReady /\ c.aimTime >= AimTime
  <2> DEFINE d == [c EXCEPT !.aimTime = 0]
  <2>1. c.aim  BY <1>3, AimTimeAssumption DEF CharacterInv, Aiming
  <2>2. d \in CharacterNode
    BY <1>1, AimTimeAssumption DEF CharacterNode
  <2>3. /\ d.state = "Aim" /\ d.aim = TRUE /\ d.bombReady = c.bombReady
        /\ d.aimTime = 0 /\ d.life = c.life /\ d.bombs = c.bombs
    BY <1>1, <2>1 DEF CharacterNode
  <2>4. ReadyBomb(c, dt) = SetNewBomb(d)
    BY <1>3 DEF ReadyBomb
  <2> HIDE DEF d
  <2>5. CharacterInv(d)
    BY <1>3, <2>2, <2>3 DEF CharacterInv, Aiming, BombKept
  <2>6. CharacterInv(SetNewBomb(d)) /\ SetNewBomb(d).life = c.life
    BY <1>3, <2>3, <2>5, SetNewBombInv
  <2>7. SetNewBomb(d).bombReady = TRUE
    BY <2>2 DEF SetNewBomb, CharacterNode
  <2>8. AimUpdate(c, dt) = SetNewBomb(d)
    BY <2>4, <2>7 DEF AimUpdate
  <2>9. QED BY <2>6, <2>8
<1>4. CASE ~c.bombReady /\ ~(c.aimTime >= AimTime)
  <2> DEFINE a == Advance(c.aimTime, dt, AimTime)
             d == [c EXCEPT !.aimTime = a]
             e == [d EXCEPT !.state = "Attack"]
  <2>1. c.aimTime \in 0..AimTime  BY <1>1 DEF CharacterNode
  <2>2. a \in 0..AimTime  BY <2>1, AdvanceType, AimTimeAssumption
  <2>3. ReadyBomb(c, dt) = d  BY <1>4 DEF ReadyBomb
  <2> HIDE DEF a
  <2>4. d \in CharacterNode /\ e \in CharacterNode
    BY <1>1, <2>2 DEF CharacterNode, State
  <2>5. /\ d.state = "Aim" /\ d.aim = c.aim /\ d.bombReady = FALSE
        /\ d.life = c.life /\ d.bombs = c.bombs
        /\ e.state = "Attack" /\ e.bombReady = FALSE
        /\ e.life = c.life /\ e.bombs = c.bombs
    BY <1>1, <1>4 DEF CharacterNode
  <2>6. ~ \E i \in DOMAIN c.bombs : c.bombs[i].toss
    BY <1>4 DEF CharacterInv, Aiming
  <2>7. AimUpdate(c, dt) = IF ~c.aim THEN e ELSE d
    <3> HIDE DEF d
    <3>1. AimUpdate(c, dt) = IF ~d.aim /\ ~d.bombReady
                               THEN [d EXCEPT !.state = "Attack"] ELSE d
      BY <2>3 DEF AimUpdate
    <3>2. QED BY <3>1, <2>5
  <2> HIDE DEF d, e
  <2>8. CASE c.aim
    BY <2>4, <2>5, <2>6, <2>7, <2>8 DEF CharacterInv, Aiming, BombKept
  <2>9. CASE ~c.aim
    BY <2>4, <2>5, <2>6, <2>7, <2>9 DEF CharacterInv, Aiming, BombKept
  <2>10. QED BY <2>8, <2>9
<1>5. QED BY <1>2, <1>3, <1>4

\* AttackState is left only when no bomb of the player is in the scene.
LEMMA AttackUpdateInv ==
  ASSUME NEW c, CharacterInv(c), c.state = "Attack", NEW dt \in Nat
  PROVE  CharacterInv(AttackUpdate(c, dt)) /\ AttackUpdate(c, dt).life = c.life
<1>1. c \in CharacterNode  BY DEF CharacterInv
<1>2. ~c.bombReady /\ ~ \E i \in DOMAIN c.bombs : c.bombs[i].toss
  BY DEF CharacterInv, Aiming
<1>3. CASE c.attackTime < AttackTime
  <2> DEFINE a == Advance(c.attackTime, dt, AttackTime)
  <2>1. c.attackTime \in 0..AttackTime  BY <1>1 DEF CharacterNode
  <2>2. a \in 0..AttackTime  BY <2>1, AdvanceType, AttackTimeAssumption
  <2>3. AttackUpdate(c, dt) = [c EXCEPT !.attackTime = a]
    BY <1>3 DEF AttackUpdate
  <2> HIDE DEF a
  <2>4. QED BY <1>1, <1>2, <2>2, <2>3 DEF CharacterInv, Aiming, BombKept, CharacterNode
<1>4. CASE ~(c.attackTime < AttackTime) /\ c.bombs = <<>>
  <2>1. AttackUpdate(c, dt)
          = [c EXCEPT !.attackTime = 0, !.action = "Shoot", !.state = "Idle"]
    BY <1>4 DEF AttackUpdate
  <2>2. 0 \in 0..AttackTime  BY AttackTimeAssumption
  <2>3. QED BY <1>1, <1>2, <1>4, <2>1, <2>2
            DEF CharacterInv, Aiming, BombKept, CharacterNode, PlayerAction, State
<1>5. CASE ~(c.attackTime < AttackTime) /\ c.bombs # <<>>
  <2>1. AttackUpdate(c, dt) = [c EXCEPT !.attackTime = 0]
    BY <1>5 DEF AttackUpdate
  <2>2. 0 \in 0..AttackTime  BY AttackTimeAssumption
  <2>3. QED BY <1>1, <1>2, <2>1, <2>2 DEF CharacterInv, Aiming, BombKept, CharacterNode
<1>6. QED BY <1>3, <1>4, <1>5

\* DamageState and DeadState neither give nor take a bomb or a life.
LEMMA StunUpdateInv ==
  ASSUME NEW c, CharacterInv(c), c.state \in {"Damage", "Dead"}
  PROVE  CharacterInv(StunUpdate(c)) /\ StunUpdate(c).life = c.life
<1>1. c \in CharacterNode  BY DEF CharacterInv
<1>2. /\ ~c.bombReady /\ c.bombs = <<>>
      /\ ~ \E i \in DOMAIN c.bombs : c.bombs[i].toss
  BY DEF CharacterInv, Aiming, BombKept
<1>3. CASE c.hitStun > 1
  <2> DEFINE h == c.hitStun - 1
  <2>1. h \in 1..HitStun  BY <1>1, <1>3, HitStunAssumption DEF CharacterNode
  <2>2. StunUpdate(c) = [c EXCEPT !.hitStun = h]  BY <1>3 DEF StunUpdate
  <2> HIDE DEF h
  <2>3. QED BY <1>1, <1>2, <2>1, <2>2 DEF CharacterInv, Aiming, BombKept, CharacterNode
<1>4. CASE ~(c.hitStun > 1)
  <2> DEFINE st == IF c.state = "Damage" THEN "Idle" ELSE c.state
  <2>1. st \in State /\ st # "Aim"  BY <1>1 DEF CharacterNode, State
  <2>2. StunUpdate(c)
          = [c EXCEPT !.hitStun = HitStun, !.takeDamage = FALSE, !.state = st]
    BY <1>1, <1>4 DEF StunUpdate, CharacterNode
  <2>3. HitStun \in 1..HitStun  BY HitStunAssumption
  <2> HIDE DEF st
  <2>4. StunUpdate(c) \in CharacterNode
    BY <1>1, <2>1, <2>2, <2>3 DEF CharacterNode
  <2>5. /\ StunUpdate(c).state = st /\ StunUpdate(c).bombs = c.bombs
        /\ StunUpdate(c).bombReady = c.bombReady /\ StunUpdate(c).life = c.life
    BY <1>1, <2>2 DEF CharacterNode
  <2>6. QED BY <1>2, <2>1, <2>4, <2>5 DEF CharacterInv, Aiming, BombKept
<1>5. QED BY <1>3, <1>4

\* One frame of a fighter's state machine keeps the fighter's invariant.
LEMMA StateMachineInv ==
  ASSUME NEW c, CharacterInv(c), NEW dt \in Nat
  PROVE  /\ CharacterInv(StateMachineUpdate(c, dt))
         /\ StateMachineUpdate(c, dt).life = c.life
<1>1. c.state \in State  BY DEF CharacterInv, CharacterNode
<1>2. CASE c.state = "Idle"
  BY <1>2, IdleUpdateInv DEF StateMachineUpdate
<1>3. CASE c.state = "Aim"
  BY <1>3, AimUpdateInv DEF StateMachineUpdate
<1>4. CASE c.state = "Attack"
  BY <1>4, AttackUpdateInv DEF StateMachineUpdate
<1>5. CASE c.state \in {"Damage", "Dead"}
  <2>1. StateMachineUpdate(c, dt) = StunUpdate(c)
    BY <1>5 DEF StateMachineUpdate
  <2>2. QED BY <1>5, <2>1, StunUpdateInv
<1>6. QED BY <1>1, <1>2, <1>3, <1>4, <1>5 DEF State

-----------------------------------------------------------------------------
(* The scene.                                                              *)

\* There are two players.
LEMMA PlayerFacts ==
  /\ Player = {"P1", "P2"}
  /\ \A p \in Player : Other(p) \in Player /\ Other(p) # p /\ Other(Other(p)) = p
BY DEF Player, Other

-----------------------------------------------------------------------------
(* The turn keeper.                                                        *)

\* refresh() passes the turn and leaves the verdict alone.
LEMMA RefreshFacts ==
  ASSUME NEW tb \in TurnBaseNode
  PROVE  /\ Refresh(tb) \in TurnBaseNode
         /\ Refresh(tb).changeTurn = TRUE
         /\ Refresh(tb).endGame = tb.endGame
         /\ Refresh(tb).winner = tb.winner
<1>1. Other(tb.turn) \in Player  BY DEF TurnBaseNode, Player, Other
<1>2. MaxTime \in 1..MaxTime  BY MaxTimeAssumption
<1>3. QED BY <1>1, <1>2 DEF Refresh, TurnBaseNode

\* A tick either ends the turn or leaves at least a second of it.
LEMMA TickFacts ==
  ASSUME NEW tb \in TurnBaseNode
  PROVE  /\ Tick(tb) \in TurnBaseNode
         /\ Tick(tb).changeTurn \/ (Tick(tb).turn = tb.turn /\ Tick(tb).changeTurn = tb.changeTurn)
         /\ Tick(tb).endGame = tb.endGame
         /\ Tick(tb).winner = tb.winner
<1>1. CASE tb.timer <= 1
  BY <1>1, RefreshFacts DEF Tick
<1>2. CASE ~(tb.timer <= 1)
  <2> DEFINE t == tb.timer - 1
  <2>1. t \in 1..MaxTime  BY <1>2, MaxTimeAssumption DEF TurnBaseNode
  <2>2. Tick(tb) = [tb EXCEPT !.timer = t]  BY <1>2 DEF Tick
  <2> HIDE DEF t
  <2>3. QED BY <2>1, <2>2 DEF TurnBaseNode
<1>3. QED BY <1>1, <1>2

\* The verdict that updatePlayerHealth leaves is one the lives justify.
LEMMA UpdatePlayerHealthFacts ==
  ASSUME NEW tb \in TurnBaseNode, NEW lives \in [Player -> Int]
  PROVE  LET tb2 == UpdatePlayerHealth(tb, lives) IN
         /\ tb2 \in TurnBaseNode
         /\ tb2.turn = tb.turn /\ tb2.changeTurn = tb.changeTurn
         /\ (\E p \in Player : lives[p] <= 0)
              => /\ tb2.endGame
                 /\ lives[Other(tb2.winner)] <= 0
                 /\ tb2.winner = "P1" => ~(lives["P1"] <= 0)
         /\ ~(\E p \in Player : lives[p] <= 0) => tb2 = tb
<1>1. CASE ~(\E p \in Player : lives[p] <= 0)
  BY <1>1 DEF UpdatePlayerHealth
<1>2. CASE \E p \in Player : lives[p] <= 0
  <2> DEFINE w == IF lives["P1"] <= 0 THEN "P2" ELSE "P1"
  <2>1. UpdatePlayerHealth(tb, lives) = [tb EXCEPT !.endGame = TRUE, !.winner = w]
    BY <1>2 DEF UpdatePlayerHealth
  <2>2. w \in Player /\ lives[Other(w)] <= 0 /\ (w = "P1" => ~(lives["P1"] <= 0))
    BY <1>2 DEF Player, Other
  <2> HIDE DEF w
  <2>3. QED BY <1>2, <2>1, <2>2 DEF TurnBaseNode
<1>3. QED BY <1>1, <1>2

-----------------------------------------------------------------------------
(* The parts of GameScene.update that touch the fighters.                  *)

\* "Refresh Player Action" touches nothing else of the fighter.
LEMMA ActionRefreshedInv ==
  ASSUME NEW c, CharacterInv(c)
  PROVE  LET d == [c EXCEPT !.action = "None"] IN
         CharacterInv(d) /\ d.life = c.life /\ d.takeDamage = c.takeDamage
BY DEF CharacterInv, Aiming, BombKept, CharacterNode, PlayerAction

\* updateBomb() disarms a player without a bomb or removes one bomb.
LEMMA BombsUpdatedInv ==
  ASSUME NEW c, CharacterInv(c)
  PROVE  CharacterInv(BombsUpdated(c)) /\ BombsUpdated(c).life = c.life
<1>1. c \in CharacterNode  BY DEF CharacterInv
<1>2. CASE c.bombs = <<>> /\ c.aim /\ c.bombReady
  <2>1. BombsUpdated(c) = [c EXCEPT !.aim = FALSE, !.bombReady = FALSE]
    BY <1>2 DEF BombsUpdated
  <2>2. c.state = "Aim" /\ c.aimTime = 0 /\ ~ \E i \in DOMAIN c.bombs : c.bombs[i].toss
    BY <1>2 DEF CharacterInv, Aiming
  <2>3. BombsUpdated(c) \in CharacterNode
    BY <1>1, <2>1 DEF CharacterNode
  <2>4. /\ BombsUpdated(c).state = "Aim" /\ BombsUpdated(c).aimTime = 0
        /\ BombsUpdated(c).bombReady = FALSE /\ BombsUpdated(c).bombs = c.bombs
        /\ BombsUpdated(c).life = c.life
    BY <1>1, <2>1, <2>2 DEF CharacterNode
  <2>5. QED BY <2>2, <2>3, <2>4 DEF CharacterInv, Aiming, BombKept
<1>3. CASE c.bombs # <<>> /\ Overdue(c)
  <2>1. BombsUpdated(c) = RemoveBomb(c, 1)  BY <1>3 DEF BombsUpdated
  <2>2. 1 \in DOMAIN c.bombs
    BY <1>1, <1>3, EmptySeq, LenProperties DEF CharacterNode
  <2>3. QED BY <2>1, <2>2, RemoveBombInv
<1>4. CASE /\ ~(c.bombs = <<>> /\ c.aim /\ c.bombReady)
           /\ ~(c.bombs # <<>> /\ Overdue(c))
  BY <1>4 DEF BombsUpdated
<1>5. QED BY <1>2, <1>3, <1>4

\* bombTime never passes its limit: it is reset when the bomb is removed.
LEMMA BombTimeType ==
  ASSUME NEW c, bombTime \in 0..BombLife
  PROVE  BombTimeUpdated(c) \in 0..BombLife
<1>1. BombLife \in Nat \ {0}  BY SceneAssumption
<1>2. CASE c.bombs # <<>> /\ ~c.aim /\ ~Overdue(c)
  <2>1. ~(bombTime + 1 >= BombLife)  BY <1>2 DEF Overdue
  <2>2. QED BY <1>1, <1>2, <2>1 DEF BombTimeUpdated
<1>3. CASE ~(c.bombs # <<>> /\ ~c.aim /\ ~Overdue(c))
  BY <1>1, <1>3 DEF BombTimeUpdated
<1>4. QED BY <1>2, <1>3

\* The turn keeper after the clock: a turn that passes is announced.
LEMMA ClockedFacts ==
  ASSUME IInv, NEW dt
  PROVE  /\ Clocked(dt) \in TurnBaseNode
         /\ ~Clocked(dt).changeTurn => Clocked(dt).turn = thePlayer
         /\ Clocked(dt).endGame = turnBase.endGame
         /\ Clocked(dt).winner = turnBase.winner
<1>1. turnBase \in TurnBaseNode /\ turnBase.turn = thePlayer /\ ~turnBase.changeTurn
  BY DEF IInv, TypeOK, TurnAgrees
<1>2. QED BY <1>1, TickFacts, RefreshFacts DEF Clocked

-----------------------------------------------------------------------------
(* The invariant.                                                          *)

\* A fresh scene is sound, whoever won the last game.
LEMMA InitIInv == Init => IInv
<1> SUFFICES ASSUME Init PROVE IInv
  OBVIOUS
<1> USE DEF Init
<1>1. TypeOK /\ TurnAgrees
  <2>1. turnBase \in TurnBaseNode
    <3>1. MaxTime \in 1..MaxTime  BY MaxTimeAssumption
    <3>2. PICK w \in Player : turnBase = NewTurnBase(w)
      OBVIOUS
    <3>3. turnBase = [turn |-> "P1", changeTurn |-> FALSE, timer |-> MaxTime,
                      endGame |-> FALSE, winner |-> w]
      BY <3>2 DEF NewTurnBase
    <3>4. "P1" \in Player  BY DEF Player
    <3> QED BY <3>1, <3>3, <3>4 DEF TurnBaseNode
  <2>2. NewCharacter \in CharacterNode
    <3>1. <<>> \in Seq(Bomb)  BY EmptySeq
    <3>2. QED BY <3>1, MaxLifeAssumption, AimTimeAssumption, AttackTimeAssumption,
                 HitStunAssumption
              DEF NewCharacter, CharacterNode, PlayerAction, State
  <2>3. 0 \in 0..Second /\ 0 \in 0..BombLife /\ 0 \in 0..EndWait
    BY SceneAssumption
  <2>4. thePlayer \in Player /\ phase \in Phase /\ scene \in Scene
    BY DEF Player, Phase, Scene
  <2>5. TurnAgrees  BY DEF TurnAgrees, NewTurnBase
  <2>6. QED BY <2>1, <2>2, <2>3, <2>4, <2>5 DEF TypeOK
<1>2. \A p \in Player : CharacterInv(char[p])
  <2>1. NewCharacter \in CharacterNode
    BY <1>1 DEF TypeOK, Player
  <2>2. QED BY <2>1 DEF NewCharacter, CharacterInv, Aiming, BombKept
<1>3. DeathNoticed
  BY MaxLifeAssumption DEF DeathNoticed, NewCharacter
<1>4. WinnerSound
  BY DEF WinnerSound, NewTurnBase
<1>5. endTime > 0 => turnBase.endGame
  OBVIOUS
<1>6. QED BY <1>1, <1>2, <1>3, <1>4, <1>5 DEF IInv

\* Steps that change one fighter, and neither his life nor his takeDamage.
LEMMA OneFighterStep ==
  ASSUME IInv, NEW q \in Player, NEW d,
         CharacterInv(d), d.life = char[q].life, d.takeDamage = char[q].takeDamage,
         char' = [char EXCEPT ![q] = d],
         UNCHANGED <<turnBase, thePlayer, timer, bombTime, endTime, pause, phase, scene>>
  PROVE  IInv'
<1>1. char \in [Player -> CharacterNode] /\ d \in CharacterNode
  BY DEF IInv, TypeOK, CharacterInv
<1>2. TypeOK' /\ TurnAgrees'
  BY <1>1 DEF IInv, TypeOK, TurnAgrees
<1>3. \A p \in Player : char'[p] = IF p = q THEN d ELSE char[p]
  BY <1>1
<1>4. \A p \in Player : CharacterInv(char'[p])
  BY <1>3 DEF IInv
<1>5. \A p \in Player : char'[p].life = char[p].life
                        /\ char'[p].takeDamage = char[p].takeDamage
  BY <1>3
<1>6. DeathNoticed'
  BY <1>5 DEF IInv, DeathNoticed
<1>7. WinnerSound'
  <2>1. Other(turnBase.winner) \in Player
    BY PlayerFacts DEF IInv, TypeOK, TurnBaseNode
  <2>2. QED BY <1>5, <2>1 DEF IInv, WinnerSound
<1>8. QED BY <1>2, <1>4, <1>6, <1>7 DEF IInv

\* Touches and the end of a drag keep the invariant.
LEMMA InputIInv == IInv /\ Input => IInv'
<1> SUFFICES ASSUME IInv, Input PROVE IInv'
  OBVIOUS
<1>1. /\ thePlayer \in Player /\ turnBase.turn \in Player
      /\ \A p \in Player : CharacterInv(char[p])
  BY DEF IInv, TypeOK, TurnBaseNode
<1>2. CASE PressMove
  <2>1. char' = [char EXCEPT ![thePlayer] = FollowMove(char[thePlayer])]
    BY <1>2 DEF PressMove
  <2>2. QED BY <1>1, <1>2, <2>1, FollowMoveInv, OneFighterStep DEF PressMove
<1>3. CASE PressO
  <2>1. char' = [char EXCEPT ![thePlayer] = FollowO(char[thePlayer])]
    BY <1>3 DEF PressO
  <2>2. QED BY <1>1, <1>3, <2>1, FollowOInv, OneFighterStep DEF PressO
<1>4. CASE DragShoot
  <2>1. char' = [char EXCEPT ![turnBase.turn] = ThrowBomb(char[turnBase.turn])]
    BY <1>4 DEF DragShoot
  <2>2. QED BY <1>1, <1>4, <2>1, ThrowBombInv, OneFighterStep DEF DragShoot
<1>5. CASE TouchPause
  BY <1>5 DEF TouchPause, IInv, TypeOK, TurnAgrees, DeathNoticed, WinnerSound
<1>6. QED BY <1>2, <1>3, <1>4, <1>5 DEF Input

\* GameScene.update: the verdict is in before the state machine can clear the
\* flag of a hit.
LEMMA UpdateIInv ==
  ASSUME IInv, NEW dt \in Steps, Update(dt)
  PROVE  IInv'
<1> DEFINE clocked  == Clocked(dt)
           player   == IF clocked.changeTurn THEN clocked.turn ELSE thePlayer
           fighters == ActionRefreshed(clocked)
           handed   == TurnHandedOver(clocked)
           judged   == Judged(handed, fighters)
           moved    == Entities(fighters, dt)
<1>1. dt \in Nat  BY SceneAssumption
<1>2. /\ thePlayer \in Player /\ char \in [Player -> CharacterNode]
      /\ \A p \in Player : CharacterInv(char[p])
  BY DEF IInv, TypeOK
<1>3. /\ clocked \in TurnBaseNode
      /\ ~clocked.changeTurn => clocked.turn = thePlayer
      /\ clocked.endGame = turnBase.endGame /\ clocked.winner = turnBase.winner
  BY ClockedFacts
<1> HIDE DEF clocked
<1>4. /\ player \in Player
      /\ handed \in TurnBaseNode /\ handed.turn = player /\ ~handed.changeTurn
      /\ handed.endGame = turnBase.endGame /\ handed.winner = turnBase.winner
  BY <1>2, <1>3 DEF TurnHandedOver, DidChangeTurn, TurnBaseNode
<1>5. fighters \in [Player -> CharacterNode]
      /\ \A p \in Player : /\ CharacterInv(fighters[p])
                           /\ fighters[p].life = char[p].life
                           /\ fighters[p].takeDamage = char[p].takeDamage
  <2>1. CASE ~clocked.changeTurn
    BY <1>2, <2>1 DEF ActionRefreshed
  <2>2. CASE clocked.changeTurn
    <3> DEFINE d == [char[thePlayer] EXCEPT !.action = "None"]
    <3>1. /\ CharacterInv(d) /\ d.life = char[thePlayer].life
          /\ d.takeDamage = char[thePlayer].takeDamage
      BY <1>2, ActionRefreshedInv
    <3>2. fighters = [char EXCEPT ![thePlayer] = d]
      BY <2>2 DEF ActionRefreshed
    <3> HIDE DEF d, fighters
    <3>3. d \in CharacterNode  BY <3>1 DEF CharacterInv
    <3>4. QED BY <1>2, <3>1, <3>2, <3>3
  <2>3. QED BY <2>1, <2>2
<1> HIDE DEF player, fighters, handed
<1> DEFINE lives == [p \in Player |-> fighters[p].life]
<1>6. lives \in [Player -> Int] /\ \A p \in Player : lives[p] = char[p].life
  <2>1. \A p \in Player : fighters[p].life \in Int
    BY <1>5 DEF CharacterNode
  <2>2. QED BY <1>5, <2>1
<1>7. judged = IF AnyDamage(fighters) THEN UpdatePlayerHealth(handed, lives) ELSE handed
  BY DEF Judged
<1> HIDE DEF lives
<1>8. /\ judged \in TurnBaseNode /\ judged.turn = player /\ ~judged.changeTurn
      /\ turnBase.endGame => judged.endGame
  <2>1. CASE ~AnyDamage(fighters) \/ ~(\E p \in Player : lives[p] <= 0)
    <3>1. judged = handed  BY <1>4, <1>6, <1>7, <2>1, UpdatePlayerHealthFacts
    <3>2. QED BY <1>4, <3>1
  <2>2. CASE AnyDamage(fighters) /\ \E p \in Player : lives[p] <= 0
    <3>1. judged = UpdatePlayerHealth(handed, lives)  BY <1>7, <2>2
    <3>2. QED BY <1>4, <1>6, <2>2, <3>1, UpdatePlayerHealthFacts
  <2>3. QED BY <2>1, <2>2
<1>9. \A p \in Player : char[p].life <= 0 => judged.endGame
  <2> SUFFICES ASSUME NEW p \in Player, char[p].life <= 0 PROVE judged.endGame
    OBVIOUS
  <2>1. char[p].takeDamage \/ turnBase.endGame
    BY DEF IInv, DeathNoticed
  <2>2. CASE turnBase.endGame
    BY <1>8, <2>2
  <2>3. CASE char[p].takeDamage
    <3>1. AnyDamage(fighters)  BY <1>5, <2>3 DEF AnyDamage
    <3>2. lives[p] <= 0  BY <1>6
    <3>3. QED BY <1>4, <1>6, <1>7, <3>1, <3>2, UpdatePlayerHealthFacts
  <2>4. QED BY <2>1, <2>2, <2>3
<1>10. judged.endGame => char[Other(judged.winner)].life <= 0
  <2>1. CASE ~AnyDamage(fighters) \/ ~(\E p \in Player : lives[p] <= 0)
    <3>1. judged = handed  BY <1>4, <1>6, <1>7, <2>1, UpdatePlayerHealthFacts
    <3>2. QED BY <1>4, <3>1 DEF IInv, WinnerSound
  <2>2. CASE AnyDamage(fighters) /\ \E p \in Player : lives[p] <= 0
    <3>1. judged = UpdatePlayerHealth(handed, lives)  BY <1>7, <2>2
    <3>2. lives[Other(judged.winner)] <= 0
      BY <1>4, <1>6, <2>2, <3>1, UpdatePlayerHealthFacts
    <3>3. Other(judged.winner) \in Player
      BY <1>8, PlayerFacts DEF TurnBaseNode
    <3>4. QED BY <1>6, <3>2, <3>3
  <2>3. QED BY <2>1, <2>2
<1>11. \A p \in Player : CharacterInv(moved[p]) /\ moved[p].life = char[p].life
  BY <1>1, <1>5, StateMachineInv DEF Entities
<1>12. moved = [p \in Player |-> moved[p]]
  BY DEF Entities
<1>13. /\ char' = [moved EXCEPT ![judged.turn] = BombsUpdated(moved[judged.turn])]
       /\ thePlayer' = player /\ turnBase' = judged
       /\ timer' = IF SecondOver(dt) THEN 0 ELSE IF Moving THEN timer + dt ELSE timer
       /\ endTime' = IF turnBase.endGame THEN Advance(endTime, dt, EndWait) ELSE endTime
       /\ bombTime' = BombTimeUpdated(moved[judged.turn])
       /\ phase' = "actions" /\ UNCHANGED <<pause, scene>>
  BY DEF Update, clocked, player, fighters, handed
<1> HIDE DEF judged, moved
<1>14. /\ char' \in [Player -> CharacterNode]
       /\ \A p \in Player : CharacterInv(char'[p]) /\ char'[p].life = char[p].life
  <2> DEFINE d == BombsUpdated(moved[judged.turn])
  <2>1. CharacterInv(d) /\ d.life = char[judged.turn].life
    BY <1>4, <1>8, <1>11, BombsUpdatedInv
  <2>2. char' = [moved EXCEPT ![judged.turn] = d]  BY <1>13
  <2> HIDE DEF d
  <2>3. \A p \in Player : char'[p] = IF p = judged.turn THEN d ELSE moved[p]
    BY <1>12, <2>2
  <2>4. \A p \in Player : CharacterInv(char'[p]) /\ char'[p].life = char[p].life
    BY <1>11, <2>1, <2>3
  <2>5. char' = [p \in Player |-> char'[p]]  BY <1>12, <2>2
  <2>6. QED BY <2>4, <2>5 DEF CharacterInv
<1>15. TypeOK'
  <2>1. timer' \in 0..Second
    <3>1. timer \in 0..Second /\ Second \in Nat \ {0}
      BY SceneAssumption DEF IInv, TypeOK
    <3>2. QED BY <1>1, <1>13, <3>1 DEF SecondOver
  <2>2. endTime' \in 0..EndWait
    <3>1. endTime \in 0..EndWait /\ EndWait \in Nat
      BY SceneAssumption DEF IInv, TypeOK
    <3>2. QED BY <1>1, <1>13, <3>1, AdvanceType
  <2>3. bombTime' \in 0..BombLife
    BY <1>13, BombTimeType DEF IInv, TypeOK
  <2>4. /\ turnBase' \in TurnBaseNode /\ thePlayer' \in Player
        /\ pause' \in BOOLEAN /\ phase' \in Phase /\ scene' \in Scene
    BY <1>4, <1>8, <1>13 DEF IInv, TypeOK, Phase
  <2>5. QED BY <1>14, <2>1, <2>2, <2>3, <2>4 DEF TypeOK
<1>16. TurnAgrees'
  BY <1>8, <1>13 DEF TurnAgrees
<1>17. DeathNoticed'
  BY <1>9, <1>13, <1>14 DEF DeathNoticed
<1>18. WinnerSound'
  <2>1. Other(judged.winner) \in Player
    BY <1>8, PlayerFacts DEF TurnBaseNode
  <2>2. QED BY <1>10, <1>13, <1>14, <2>1 DEF WinnerSound
<1>19. (endTime > 0 => turnBase.endGame)'
  BY <1>8, <1>13 DEF IInv
<1>20. QED BY <1>14, <1>15, <1>16, <1>17, <1>18, <1>19 DEF IInv

\* The queued tosses run; the scene may be left.
LEMMA RunActionsIInv == IInv /\ RunActions => IInv'
<1> SUFFICES ASSUME IInv, RunActions PROVE IInv'
  OBVIOUS
<1>1. /\ char \in [Player -> CharacterNode]
      /\ \A p \in Player : CharacterInv(char[p])
  BY DEF IInv, TypeOK
<1>2. /\ char' = [p \in Player |-> RunToss(char[p])]
      /\ pause' = FALSE /\ phase' = "physics"
      /\ UNCHANGED <<turnBase, thePlayer, timer, bombTime, endTime>>
      /\ scene' \in Scene
  BY DEF RunActions, Leaving, IInv, TypeOK, Scene
<1>3. \A p \in Player : /\ CharacterInv(char'[p])
                        /\ char'[p].life = char[p].life
                        /\ char'[p].takeDamage = char[p].takeDamage
  BY <1>1, <1>2, RunTossInv
<1>4. char' \in [Player -> CharacterNode]
  BY <1>2, <1>3 DEF CharacterInv
<1>5. TypeOK' /\ TurnAgrees'
  BY <1>2, <1>4 DEF IInv, TypeOK, TurnAgrees, Phase
<1>6. DeathNoticed'
  BY <1>2, <1>3 DEF IInv, DeathNoticed
<1>7. WinnerSound'
  <2>1. Other(turnBase.winner) \in Player
    BY PlayerFacts DEF IInv, TypeOK, TurnBaseNode
  <2>2. QED BY <1>2, <1>3, <2>1 DEF IInv, WinnerSound
<1>8. QED BY <1>2, <1>3, <1>5, <1>6, <1>7 DEF IInv

\* A bomb that blows up, alone or on the opponent of its owner.
LEMMA BombHitsWallIInv ==
  ASSUME IInv, NEW p \in Player, NEW i \in DOMAIN char[p].bombs, BombHitsWall(p, i)
  PROVE  IInv'
<1> DEFINE d == RemoveBomb(char[p], i)
<1>1. CharacterInv(d) /\ d.life = char[p].life /\ d.takeDamage = char[p].takeDamage
  BY RemoveBombInv DEF IInv
<1>2. char' = [char EXCEPT ![p] = d]
  BY DEF BombHitsWall
<1>3. UNCHANGED <<turnBase, thePlayer, timer, bombTime, endTime, pause, phase, scene>>
  BY DEF BombHitsWall
<1> HIDE DEF d
<1>4. QED BY <1>1, <1>2, <1>3, OneFighterStep

\* A bomb that blows up on the opponent: the death it may cause is flagged.
LEMMA BombHitsPlayerIInv ==
  ASSUME IInv, NEW p \in Player, NEW i \in DOMAIN char[p].bombs, BombHitsPlayer(p, i)
  PROVE  IInv'
<1> DEFINE d == RemoveBomb(char[p], i)
           q == Other(p)
           h == TakeHit(char[q])
<1>1. q \in Player /\ q # p /\ char \in [Player -> CharacterNode]
  BY PlayerFacts DEF IInv, TypeOK
<1>2. CharacterInv(d) /\ d.life = char[p].life /\ d.takeDamage = char[p].takeDamage
  BY RemoveBombInv DEF IInv
<1>3. CharacterInv(h) /\ h.life = char[q].life - 1 /\ h.takeDamage = TRUE
  BY <1>1, TakeHitInv DEF IInv
<1>4. /\ char' = [char EXCEPT ![p] = d, ![q] = h]
      /\ UNCHANGED <<turnBase, thePlayer, timer, bombTime, endTime, pause, phase, scene>>
  BY <1>1 DEF BombHitsPlayer
<1> HIDE DEF d, q, h
<1>5. /\ char'[p] = d /\ char'[q] = h
      /\ \A r \in Player : r = p \/ r = q
      /\ char' = [r \in Player |-> char'[r]]
  <2>1. \A r \in Player : r = p \/ r = q
    BY <1>1 DEF Player
  <2>2. QED BY <1>1, <1>4, <2>1
<1>6. /\ \A r \in Player : CharacterInv(char'[r])
      /\ char' \in [Player -> CharacterNode]
  BY <1>2, <1>3, <1>5 DEF CharacterInv
<1>7. TypeOK' /\ TurnAgrees'
  BY <1>4, <1>6 DEF IInv, TypeOK, TurnAgrees
<1>8. \A r \in Player : char[r].life \in Int /\ char'[r].life \in Int
  BY <1>1, <1>6 DEF CharacterNode
<1>9. \A r \in Player : char'[r].life <= char[r].life
  BY <1>2, <1>3, <1>5, <1>8
<1>10. DeathNoticed'
  BY <1>2, <1>3, <1>4, <1>5 DEF IInv, DeathNoticed
<1>11. WinnerSound'
  <2>1. Other(turnBase.winner) \in Player
    BY PlayerFacts DEF IInv, TypeOK, TurnBaseNode
  <2> DEFINE o == Other(turnBase.winner)
  <2>2. /\ char[o].life \in Int /\ char'[o].life \in Int
        /\ char'[o].life <= char[o].life
    BY <1>8, <1>9, <2>1
  <2>3. turnBase.endGame => char[o].life <= 0
    BY DEF IInv, WinnerSound
  <2>4. turnBase.endGame => char'[o].life <= 0
    BY <2>2, <2>3
  <2>5. QED BY <1>4, <2>4 DEF WinnerSound
<1>12. QED BY <1>4, <1>6, <1>7, <1>10, <1>11 DEF IInv

\* IInv is inductive.
LEMMA NextIInv == IInv /\ [Next]_vars => IInv'
<1> SUFFICES ASSUME IInv, [Next]_vars PROVE IInv'
  OBVIOUS
<1>1. CASE Input
  BY <1>1, InputIInv
<1>2. CASE \E dt \in Steps : Update(dt)
  BY <1>2, UpdateIInv
<1>3. CASE Crash
  BY <1>3 DEF Crash, IInv, TypeOK, TurnAgrees, DeathNoticed, WinnerSound, Scene
<1>4. CASE RunActions
  BY <1>4, RunActionsIInv
<1>5. CASE EndFrame
  BY <1>5 DEF EndFrame, IInv, TypeOK, TurnAgrees, DeathNoticed, WinnerSound, Phase
<1>6. CASE DidBegin
  BY <1>6, BombHitsWallIInv, BombHitsPlayerIInv DEF DidBegin
<1>7. CASE UNCHANGED vars
  BY <1>7 DEF vars, IInv, TypeOK, TurnAgrees, DeathNoticed, WinnerSound
<1>8. QED BY <1>1, <1>2, <1>3, <1>4, <1>5, <1>6, <1>7 DEF Next, Frame

\* IInv holds in every state of every game.
THEOREM Invariance == Spec => []IInv
<1>1. Init => IInv  BY InitIInv
<1>2. IInv /\ [Next]_vars => IInv'  BY NextIInv
<1>3. QED BY <1>1, <1>2, PTL DEF Spec

\* Every variable stays in its type, however long the duel.
THEOREM TypeCorrect == Spec => []TypeOK
<1>1. IInv => TypeOK  BY DEF IInv
<1>2. QED BY <1>1, Invariance, PTL

\* No death is overlooked by updatePlayerHealth.
THEOREM DeathsAreNoticed == Spec => []DeathNoticed
<1>1. IInv => DeathNoticed  BY DEF IInv
<1>2. QED BY <1>1, Invariance, PTL

\* The winner's opponent is dead.
THEOREM WinnersAreSound == Spec => []WinnerSound
<1>1. IInv => WinnerSound  BY DEF IInv
<1>2. QED BY <1>1, Invariance, PTL

\* bombReady is never stale.
THEOREM ArmedPlayersAim == Spec => []ArmedOnlyInAim
<1>1. IInv => ArmedOnlyInAim  BY DEF IInv, ArmedOnlyInAim, CharacterInv, Aiming
<1>2. QED BY <1>1, Invariance, PTL

\* Nobody leaves AimState and AttackState with a bomb in the scene.
THEOREM BombsAreAwaited == Spec => []NoStunWithBomb
<1>1. IInv => NoStunWithBomb  BY DEF IInv, NoStunWithBomb, CharacterInv, BombKept
<1>2. QED BY <1>1, Invariance, PTL

-----------------------------------------------------------------------------
(* The verdict.                                                            *)

\* What a step does to the verdict and to the lives.  Only update touches the
\* turn keeper, and it judges the lives it leaves alone.
LEMMA UpdateFacts ==
  ASSUME IInv, NEW dt \in Steps, Update(dt)
  PROVE  /\ \A p \in Player : char'[p].life = char[p].life
         /\ turnBase'.winner = turnBase.winner
            \/ /\ turnBase'.endGame
               /\ turnBase'.winner = "P1" => ~(char["P1"].life <= 0)
         /\ turnBase'.endGame \/ turnBase.endGame
              => \E p \in Player : char[p].life <= 0
         /\ (\E p \in Player : char[p].life <= 0) => turnBase'.endGame
<1> DEFINE clocked  == Clocked(dt)
           fighters == ActionRefreshed(clocked)
           handed   == TurnHandedOver(clocked)
           lives    == [p \in Player |-> fighters[p].life]
<1>1. /\ char \in [Player -> CharacterNode]
      /\ \A p \in Player : CharacterInv(char[p]) /\ char[p].life \in Int
  BY DEF IInv, TypeOK, CharacterInv, CharacterNode
<1>2. /\ clocked \in TurnBaseNode
      /\ clocked.endGame = turnBase.endGame /\ clocked.winner = turnBase.winner
  BY ClockedFacts
<1> HIDE DEF clocked
<1>3. /\ handed \in TurnBaseNode
      /\ handed.endGame = turnBase.endGame /\ handed.winner = turnBase.winner
  BY <1>2 DEF TurnHandedOver, DidChangeTurn, TurnBaseNode
<1>4. \A p \in Player : fighters[p].life = char[p].life
                        /\ CharacterInv(fighters[p])
  <2>1. thePlayer \in Player  BY DEF IInv, TypeOK
  <2> DEFINE d == [char[thePlayer] EXCEPT !.action = "None"]
  <2>2. CharacterInv(d) /\ d.life = char[thePlayer].life
    BY <1>1, <2>1, ActionRefreshedInv
  <2>3. fighters = IF clocked.changeTurn THEN [char EXCEPT ![thePlayer] = d] ELSE char
    BY DEF ActionRefreshed
  <2> HIDE DEF d, fighters
  <2>4. QED BY <1>1, <2>1, <2>2, <2>3
<1> HIDE DEF fighters, handed
<1>5. lives \in [Player -> Int] /\ \A p \in Player : lives[p] = char[p].life
  BY <1>1, <1>4
<1>6. turnBase' = IF AnyDamage(fighters) THEN UpdatePlayerHealth(handed, lives) ELSE handed
  BY DEF Update, Judged, clocked, fighters, handed
<1>7. \A p \in Player : char'[p].life = char[p].life
  <2> DEFINE moved == Entities(fighters, dt)
             judged == Judged(handed, fighters)
             d == BombsUpdated(moved[judged.turn])
  <2>1. dt \in Nat  BY SceneAssumption
  <2>2. \A p \in Player : CharacterInv(moved[p]) /\ moved[p].life = char[p].life
    BY <1>4, <2>1, StateMachineInv DEF Entities
  <2>3. moved = [p \in Player |-> moved[p]]  BY DEF Entities
  <2>4. char' = [moved EXCEPT ![judged.turn] = d] /\ turnBase' = judged
    BY DEF Update, clocked, fighters, handed
  <2>5. judged.turn \in Player
    <3>1. TypeOK'  BY UpdateIInv DEF IInv
    <3>2. QED BY <2>4, <3>1 DEF TypeOK, TurnBaseNode
  <2> HIDE DEF moved, judged
  <2>6. d.life = char[judged.turn].life
    BY <2>2, <2>5, BombsUpdatedInv
  <2> HIDE DEF d
  <2>7. QED BY <2>2, <2>3, <2>4, <2>6
<1> HIDE DEF lives
<1>8. (\E p \in Player : char[p].life <= 0) <=> \E p \in Player : lives[p] <= 0
  BY <1>5
<1>9. CASE AnyDamage(fighters) /\ \E p \in Player : lives[p] <= 0
  <2>1. /\ turnBase'.endGame
        /\ turnBase'.winner = "P1" => ~(lives["P1"] <= 0)
    BY <1>3, <1>5, <1>6, <1>9, UpdatePlayerHealthFacts
  <2>2. "P1" \in Player  BY DEF Player
  <2>3. QED BY <1>5, <1>7, <1>8, <1>9, <2>1, <2>2
<1>10. CASE ~(AnyDamage(fighters) /\ \E p \in Player : lives[p] <= 0)
  <2>1. turnBase' = handed
    BY <1>3, <1>5, <1>6, <1>10, UpdatePlayerHealthFacts
  <2>2. turnBase'.winner = turnBase.winner /\ turnBase'.endGame = turnBase.endGame
    BY <1>3, <2>1
  <2>3. turnBase.endGame => \E p \in Player : char[p].life <= 0
    BY PlayerFacts DEF IInv, TypeOK, TurnBaseNode, WinnerSound
  <2>4. (\E p \in Player : char[p].life <= 0) => turnBase'.endGame
    <3>1. DeathNoticed'  BY UpdateIInv DEF IInv
    <3>2. SUFFICES ASSUME NEW p \in Player, char[p].life <= 0 PROVE turnBase'.endGame
      OBVIOUS
    <3>3. char[p].takeDamage \/ turnBase.endGame
      BY <3>2 DEF IInv, DeathNoticed
    <3>4. ~AnyDamage(fighters)  BY <1>8, <1>10, <3>2
    <3>5. ~char[p].takeDamage
      <4>1. fighters[p].takeDamage = char[p].takeDamage
        BY <1>1, ActionRefreshedInv DEF ActionRefreshed, fighters, IInv, TypeOK
      <4>2. QED BY <3>4, <4>1 DEF AnyDamage
    <3>6. QED BY <2>2, <3>3, <3>5
  <2>5. QED BY <1>7, <2>2, <2>3, <2>4
<1>11. QED BY <1>9, <1>10

\* A step that leaves the turn keeper alone declares nothing.
LEMMA VerdictStep == IInv /\ [Next]_vars =>
  (turnBase.endGame /\ turnBase'.winner # turnBase.winner
     => turnBase.winner = "P1" /\ char["P1"].life <= 0)
<1> SUFFICES ASSUME IInv, [Next]_vars,
                    turnBase.endGame, turnBase'.winner # turnBase.winner
             PROVE  turnBase.winner = "P1" /\ char["P1"].life <= 0
  OBVIOUS
<1>1. turnBase' # turnBase
  OBVIOUS
<1>2. PICK dt \in Steps : Update(dt)
  BY <1>1 DEF Next, Frame, Input, PressMove, PressO, DragShoot, TouchPause, Crash,
              RunActions, EndFrame, DidBegin, BombHitsWall, BombHitsPlayer, vars
<1>3. /\ \A p \in Player : char'[p].life = char[p].life
      /\ turnBase'.endGame
      /\ turnBase'.winner = "P1" => ~(char["P1"].life <= 0)
  BY <1>2, UpdateFacts
<1>4. /\ turnBase.winner \in Player /\ turnBase'.winner \in Player
      /\ char[Other(turnBase.winner)].life <= 0
      /\ char'[Other(turnBase'.winner)].life <= 0
  <2>1. IInv'  BY <1>2, UpdateIInv
  <2>2. QED BY <1>3, <2>1 DEF IInv, TypeOK, TurnBaseNode, WinnerSound
<1>5. "P1" \in Player /\ Player = {"P1", "P2"} /\ Other("P2") = "P1"
  BY DEF Player, Other
<1>6. QED BY <1>3, <1>4, <1>5

\* A verdict is revised in one direction only.
THEOREM VerdictRule == Spec => VerdictRevised
<1>1. IInv /\ [Next]_vars =>
        [turnBase.endGame /\ turnBase'.winner # turnBase.winner
           => turnBase.winner = "P1" /\ char["P1"].life <= 0]_vars
  BY VerdictStep
<1>2. QED BY <1>1, Invariance, PTL DEF Spec, VerdictRevised

-----------------------------------------------------------------------------
(* The game implements the duel.                                           *)

\* The first state of a game is the first state of a duel.
LEMMA InitRefines == Init => D!Init
BY DEF Init, D!Init, NewTurnBase, NewCharacter, life, Player, D!Duelist

\* Every frame is a step of the referee.
LEMMA UpdateRefines ==
  ASSUME IInv, NEW dt \in Steps, Update(dt)
  PROVE  D!Referee
<1>1. /\ scene = "game" /\ scene' = "game"
  BY DEF Update, Playing
<1>2. IInv'
  BY UpdateIInv
<1>3. turnBase'.turn \in D!Duelist
  BY <1>2 DEF IInv, TypeOK, TurnBaseNode, Player, D!Duelist
<1>4. /\ \A p \in Player : char'[p].life = char[p].life
      /\ turnBase'.endGame \/ turnBase.endGame
           => \E p \in Player : char[p].life <= 0
      /\ (\E p \in Player : char[p].life <= 0) => turnBase'.endGame
  BY UpdateFacts
<1>5. life' = life
  BY <1>4 DEF life
<1>6. \A p \in Player : life[p] = char[p].life
  BY DEF life
<1>7. Player = D!Duelist /\ \A p : D!Opponent(p) = Other(p)
  BY DEF Player, D!Duelist, D!Opponent, Other
<1>8. CASE \E p \in Player : char[p].life <= 0
  <2> DEFINE w == turnBase'.winner
  <2>1. turnBase'.endGame  BY <1>4, <1>8
  <2>2. w \in Player /\ Other(w) \in Player /\ char'[Other(w)].life <= 0
    BY <1>2, <2>1, PlayerFacts DEF IInv, TypeOK, TurnBaseNode, WinnerSound
  <2>3. w \in {p \in D!Duelist : D!Dead(D!Opponent(p))}
    BY <1>4, <1>6, <1>7, <2>2 DEF D!Dead
  <2>4. \E p \in D!Duelist : D!Dead(p)
    BY <1>6, <1>7, <1>8 DEF D!Dead
  <2>5. QED BY <1>1, <1>3, <1>5, <2>1, <2>3, <2>4 DEF D!Referee
<1>9. CASE ~ \E p \in Player : char[p].life <= 0
  <2>1. ~turnBase'.endGame /\ ~turnBase.endGame  BY <1>4, <1>9
  <2>2. ~ \E p \in D!Duelist : D!Dead(p)
    BY <1>6, <1>7, <1>9 DEF D!Dead
  <2>3. QED BY <1>1, <1>3, <1>5, <2>1, <2>2 DEF D!Referee
<1>10. QED BY <1>8, <1>9

\* A hit is a strike, whoever threw the bomb.
LEMMA HitRefines ==
  ASSUME IInv, NEW p \in Player, NEW i \in DOMAIN char[p].bombs, BombHitsPlayer(p, i)
  PROVE  D!Strike(Other(p))
<1> DEFINE d == RemoveBomb(char[p], i)
           q == Other(p)
           h == TakeHit(char[q])
<1>1. /\ q \in Player /\ q # p /\ char \in [Player -> CharacterNode]
      /\ \A r \in Player : r = p \/ r = q
  BY PlayerFacts DEF IInv, TypeOK, Player
<1>2. d.life = char[p].life
  BY RemoveBombInv DEF IInv
<1>3. h.life = char[q].life - 1
  BY <1>1, TakeHitInv DEF IInv
<1>4. char' = [char EXCEPT ![p] = d, ![q] = h] /\ UNCHANGED <<turnBase, scene>>
  BY <1>1 DEF BombHitsPlayer
<1> HIDE DEF d, q, h
<1>5. char'[p] = d /\ char'[q] = h
  BY <1>1, <1>4
<1>6. life' = [life EXCEPT ![q] = @ - 1]
  BY <1>1, <1>2, <1>3, <1>5 DEF life
<1>7. scene = "game"
  BY DEF BombHitsPlayer, Playing
<1>8. QED BY <1>4, <1>6, <1>7 DEF D!Strike, q

\* A step that keeps the lives, the turn keeper and the scene is not seen.
LEMMA Stutters ==
  ASSUME UNCHANGED <<turnBase, scene>>, life' = life
  PROVE  UNCHANGED D!duelVars
BY DEF D!duelVars

\* One operation on one fighter that costs no life is not seen either.
LEMMA FighterStutters ==
  ASSUME IInv, NEW p \in Player, NEW d, d.life = char[p].life,
         char' = [char EXCEPT ![p] = d], UNCHANGED <<turnBase, scene>>
  PROVE  UNCHANGED D!duelVars
<1>1. char \in [Player -> CharacterNode]
  BY DEF IInv, TypeOK
<1>2. life' = life
  BY <1>1 DEF life
<1>3. QED BY <1>2, Stutters

\* Touches are not seen by the duel.
LEMMA InputRefines == IInv /\ Input => UNCHANGED D!duelVars
<1> SUFFICES ASSUME IInv, Input PROVE UNCHANGED D!duelVars
  OBVIOUS
<1>1. thePlayer \in Player /\ turnBase.turn \in Player
  BY DEF IInv, TypeOK, TurnBaseNode
<1>2. CharacterInv(char[thePlayer]) /\ CharacterInv(char[turnBase.turn])
  BY <1>1 DEF IInv
<1>3. CASE PressMove
  <2> DEFINE d == FollowMove(char[thePlayer])
  <2>1. d.life = char[thePlayer].life  BY <1>2, FollowMoveInv
  <2>2. char' = [char EXCEPT ![thePlayer] = d] /\ UNCHANGED <<turnBase, scene>>
    BY <1>3 DEF PressMove
  <2> HIDE DEF d
  <2>3. QED BY <1>1, <2>1, <2>2, FighterStutters
<1>4. CASE PressO
  <2> DEFINE d == FollowO(char[thePlayer])
  <2>1. d.life = char[thePlayer].life  BY <1>2, FollowOInv
  <2>2. char' = [char EXCEPT ![thePlayer] = d] /\ UNCHANGED <<turnBase, scene>>
    BY <1>4 DEF PressO
  <2> HIDE DEF d
  <2>3. QED BY <1>1, <2>1, <2>2, FighterStutters
<1>5. CASE DragShoot
  <2> DEFINE d == ThrowBomb(char[turnBase.turn])
  <2>1. d.life = char[turnBase.turn].life  BY <1>2, ThrowBombInv
  <2>2. char' = [char EXCEPT ![turnBase.turn] = d] /\ UNCHANGED <<turnBase, scene>>
    BY <1>5 DEF DragShoot
  <2> HIDE DEF d
  <2>3. QED BY <1>1, <2>1, <2>2, FighterStutters
<1>6. CASE TouchPause
  BY <1>6, Stutters DEF TouchPause, life
<1>7. QED BY <1>3, <1>4, <1>5, <1>6 DEF Input

\* The action phase leaves the game only as the duel allows.
LEMMA RunActionsRefines == IInv /\ RunActions => D!Leave \/ UNCHANGED D!duelVars
<1> SUFFICES ASSUME IInv, RunActions PROVE D!Leave \/ UNCHANGED D!duelVars
  OBVIOUS
<1>1. /\ char' = [p \in Player |-> RunToss(char[p])]
      /\ UNCHANGED turnBase /\ scene = "game"
      /\ scene' = scene \/ scene' \in Leaving
  BY DEF RunActions, Playing
<1>2. \A p \in Player : char'[p].life = char[p].life
  BY <1>1, RunTossInv DEF IInv
<1>3. life' = life
  BY <1>2 DEF life
<1>4. CASE scene' = scene
  BY <1>1, <1>3, <1>4, Stutters
<1>5. CASE scene' = "start"
  BY <1>1, <1>3, <1>5 DEF D!Leave
<1>6. CASE scene' = "end" /\ endTime = EndWait
  <2>1. turnBase.endGame  BY <1>6, SceneAssumption DEF IInv
  <2>2. turnBase.winner # "none"
    BY DEF IInv, TypeOK, TurnBaseNode, Player
  <2>3. QED BY <1>1, <1>3, <1>6, <2>1, <2>2 DEF D!Leave
<1>7. QED BY <1>1, <1>4, <1>5, <1>6 DEF Leaving

\* The program stops only when a dead player is hit again.
LEMMA CrashRefines == IInv /\ Crash => D!Leave
<1> SUFFICES ASSUME IInv, Crash PROVE D!Leave
  OBVIOUS
<1>1. PICK p \in Player : HeartMissing(life[p])
  BY DEF Crash
<1>2. char[p].life \in Int
  BY DEF IInv, TypeOK, CharacterNode
<1>3. life[p] < 0
  BY <1>1, <1>2, MaxLifeAssumption DEF HeartMissing, life
<1>4. scene = "game" /\ scene' = "crashed" /\ UNCHANGED <<turnBase, char>>
  BY DEF Crash, Playing
<1>5. life' = life  BY <1>4 DEF life
<1>6. p \in D!Duelist  BY DEF Player, D!Duelist
<1>7. QED BY <1>3, <1>4, <1>5, <1>6 DEF D!Leave

\* Every step of the game is a step of the duel or is not seen by it.
LEMMA NextRefines == IInv /\ [Next]_vars => [D!Next]_(D!duelVars)
<1> SUFFICES ASSUME IInv, [Next]_vars PROVE D!Next \/ UNCHANGED D!duelVars
  OBVIOUS
<1>1. CASE Input
  BY <1>1, InputRefines
<1>2. CASE \E dt \in Steps : Update(dt)
  BY <1>2, UpdateRefines DEF D!Next
<1>3. CASE Crash
  BY <1>3, CrashRefines DEF D!Next
<1>4. CASE RunActions
  BY <1>4, RunActionsRefines DEF D!Next
<1>5. CASE EndFrame
  BY <1>5, Stutters DEF EndFrame, life
<1>6. CASE DidBegin
  <2>0. PICK p \in Player : \E i \in DOMAIN char[p].bombs :
          BombHitsWall(p, i) \/ BombHitsPlayer(p, i)
    BY <1>6 DEF DidBegin
  <2>1. PICK i \in DOMAIN char[p].bombs : BombHitsWall(p, i) \/ BombHitsPlayer(p, i)
    BY <2>0
  <2>2. CASE BombHitsPlayer(p, i)
    <3>1. D!Strike(Other(p))  BY <2>2, HitRefines
    <3>2. Other(p) \in D!Duelist  BY PlayerFacts DEF Player, D!Duelist
    <3>3. QED BY <3>1, <3>2 DEF D!Next
  <2>3. CASE BombHitsWall(p, i)
    <3> DEFINE d == RemoveBomb(char[p], i)
    <3>1. d.life = char[p].life  BY RemoveBombInv DEF IInv
    <3>2. char' = [char EXCEPT ![p] = d] /\ UNCHANGED <<turnBase, scene>>
      BY <2>3 DEF BombHitsWall
    <3> HIDE DEF d
    <3>3. QED BY <3>1, <3>2, FighterStutters
  <2>4. QED BY <2>1, <2>2, <2>3
<1>7. CASE UNCHANGED vars
  BY <1>7, Stutters DEF vars, life
<1>8. QED BY <1>1, <1>2, <1>3, <1>4, <1>5, <1>6, <1>7 DEF Next, Frame

\* GameScene implements Duel.
THEOREM RefinesDuel == Spec => DuelSpec
<1>1. Init => D!Init  BY InitRefines
<1>2. IInv /\ [Next]_vars => [D!Next]_(D!duelVars)  BY NextRefines
<1>3. QED BY <1>1, <1>2, Invariance, PTL DEF Spec, DuelSpec, D!Spec

=============================================================================
